------------------------------ MODULE Migrator ------------------------------
(***************************************************************************)
(* The on-chain migrator program: a holder of the source token burns it    *)
(* and receives the same amount of the destination token from a reserve,   *)
(* inside a window of time and under a cap; what is left when the window   *)
(* has closed goes back to the funder, once.                               *)
(*                                                                         *)
(* One action per instruction.  An instruction is one step: the runtime    *)
(* rolls a failed instruction back and locks the accounts of a running     *)
(* one.  Everything that happens between instructions (transfers,          *)
(* donations, changes of controls, other mints' authorities, the clock,    *)
(* the loader's upgrade authority) is an action of somebody else.          *)
(* The token accounts a caller passes are arbitrary members of TokenAddr.  *)
(* The config account, the vault authority and the token program are       *)
(* re-derived or constant in the code, and the mints of migrate_exact and  *)
(* withdraw_unclaimed must equal the config's and are used for nothing     *)
(* else, so these are not parameters.                                      *)
(***************************************************************************)
EXTENDS MigratorChecks

CONSTANTS
  Windows,          \* windows <<start_ts, end_ts>> an initialiser may ask for
  Admins,           \* bound: wallets that become ops admin
  Custodians,       \* bound: who the upgrade authority is handed to
  MaxTime           \* bound: the clock stops here

ASSUME MigratorAssumption ==
  /\ Admins \subseteq Wallets
  /\ Custodians \subseteq Wallets \cup {None}
  /\ Windows \subseteq Int \X Int
  /\ MaxTime \in Int

VARIABLES
  config,           \* the MigrationConfig account
  now,              \* the clock sysvar's unix_timestamp
  upgradeAuthority  \* the wallet in ProgramData, or None

vars == <<accounts, mints, config, now, upgradeAuthority>>

\* The config account before initialize_config: owned by the system program.
NoConfig == [created |-> FALSE]

MigrationConfig ==
  [created : {TRUE}, paused : BOOLEAN, admin : Wallets,
   source_mint : Mints, destination_mint : Mints, reserve_vault : TokenAddr,
   total_migrated : Amounts, start_ts : Int, end_ts : Int,
   migration_cap : Amounts, refund_recipient : Wallets,
   unclaimed_withdrawn : BOOLEAN]

Init ==
  /\ TokenInit
  /\ config = NoConfig
  /\ now = 0
  /\ upgradeAuthority \in Wallets

Vault == accounts[config.reserve_vault]
Remaining == config.migration_cap - config.total_migrated

-----------------------------------------------------------------------------
(* initialize_config *)

BugConfigAccountFree == TRUE

\* create_pda_account_idempotent refuses an account the program owns already;
\* lamports somebody sent to the address beforehand do not matter to it.
ConfigAccountFree == ~config.created

BugRenouncedPasses(initializer) == upgradeAuthority \in {None, initializer}

InitializerIsUpgradeAuthority(initializer) == upgradeAuthority = initializer

MintPairOK(src, dst) ==
  /\ src # dst
  /\ StrictMint(src)
  /\ StrictMint(dst)
  /\ mints[src].decimals = mints[dst].decimals

BugFundingOK(funder, from, vault, dst, cap) ==
  /\ CustodyOK(accounts[from], dst, funder)
  /\ TokenAccountOK(accounts[vault], dst, VaultAuthority)
  /\ accounts[vault].amount = 0
  /\ accounts[from].amount >= cap

FundingOK(funder, from, vault, dst, cap) ==
  /\ CustodyOK(accounts[from], dst, funder)
  /\ CustodyOK(accounts[vault], dst, VaultAuthority)
  /\ accounts[vault].amount = 0
  /\ accounts[from].amount >= cap

BugRefundKey(opsAdmin, funder, vault, src, dst, startTs, endTs, cap) ==
  [created |-> TRUE, paused |-> FALSE, admin |-> opsAdmin,
   source_mint |-> src, destination_mint |-> dst, reserve_vault |-> vault,
   total_migrated |-> 0, start_ts |-> startTs, end_ts |-> endTs,
   migration_cap |-> cap, refund_recipient |-> VaultAuthority,
   unclaimed_withdrawn |-> FALSE]

InitialConfig(opsAdmin, funder, vault, src, dst, startTs, endTs, cap) ==
  [created |-> TRUE, paused |-> FALSE, admin |-> opsAdmin,
   source_mint |-> src, destination_mint |-> dst, reserve_vault |-> vault,
   total_migrated |-> 0, start_ts |-> startTs, end_ts |-> endTs,
   migration_cap |-> cap, refund_recipient |-> funder,
   unclaimed_withdrawn |-> FALSE]

InitializeChecks(initializer, funder, from, vault, src, dst, startTs, endTs, cap) ==
  /\ WindowOK(startTs, endTs)
  /\ cap # 0
  /\ InitializerIsUpgradeAuthority(initializer)
  /\ MintPairOK(src, dst)
  /\ FundingOK(funder, from, vault, dst, cap)

\* The account is created after all the checks; a guard may come first.
InitializeConfig(initializer, opsAdmin, funder, from, vault, src, dst, startTs, endTs, cap) ==
  /\ ConfigAccountFree
  /\ InitializeChecks(initializer, funder, from, vault, src, dst, startTs, endTs, cap)
  /\ TransferOK(accounts, from, vault, cap)
  /\ accounts' = Transferred(accounts, from, vault, cap)
  /\ config' = InitialConfig(opsAdmin, funder, vault, src, dst,
                             startTs, endTs, cap)
  /\ UNCHANGED <<mints, now, upgradeAuthority>>

-----------------------------------------------------------------------------
(* set_pause *)

Paused(b) == [config EXCEPT !.paused = b]

SetPause(admin, b) ==
  /\ config.created
  /\ config.admin = admin
  /\ config' = Paused(b)
  /\ UNCHANGED <<accounts, mints, now, upgradeAuthority>>

-----------------------------------------------------------------------------
(* migrate_exact *)

ReserveOK(vault) ==
  CustodyOK(accounts[vault], config.destination_mint, VaultAuthority)

BugVaultPinned(vault) == TRUE

VaultPinned(vault) == vault = config.reserve_vault

MigrateChecks(user, vault, from, to, n) ==
  /\ n # 0
  /\ config.created
  /\ MigrationGate(config.paused, config.start_ts, config.end_ts, now)
  /\ VaultPinned(vault)
  /\ StrictMint(config.source_mint)
  /\ StrictMint(config.destination_mint)
  /\ CapAllows(config.total_migrated, n, config.migration_cap)
  /\ CheckedTotal(config.total_migrated, n)
  /\ ReserveOK(vault)
  /\ TokenAccountOK(accounts[from], config.source_mint, user)
  /\ DestinationOK(to, user, config.destination_mint)
  /\ accounts[vault].amount >= n

\* The burn runs first; the transfer sees its result.
MigrateCallsOK(vault, from, to, n) ==
  /\ BurnOK(accounts, mints, from, config.source_mint, n)
  /\ TransferOK(Burned(accounts, from, n), vault, to, n)

MigrateExact(user, vault, from, to, n) ==
  /\ MigrateChecks(user, vault, from, to, n)
  /\ MigrateCallsOK(vault, from, to, n)
  /\ accounts' = Transferred(Burned(accounts, from, n), vault, to, n)
  /\ mints' = SupplyBurned(mints, config.source_mint, n)
  /\ config' = [config EXCEPT !.total_migrated = @ + n]
  /\ UNCHANGED <<now, upgradeAuthority>>

-----------------------------------------------------------------------------
(* withdraw_unclaimed: anybody may send it. *)

BugNotWithdrawn == TRUE

NotWithdrawn == ~config.unclaimed_withdrawn

BugCloseoutAmount(vault) == Remaining

\* Everything in the vault, donations included.
CloseoutAmount(vault) == accounts[vault].amount

WithdrawChecks(vault, to) ==
  /\ config.created
  /\ ~config.paused
  /\ WithdrawalGate(config.end_ts, now)
  /\ NotWithdrawn
  /\ VaultPinned(vault)
  /\ StrictMint(config.destination_mint)
  /\ ReserveOK(vault)
  /\ DestinationOK(to, config.refund_recipient, config.destination_mint)
  /\ CloseoutAmount(vault) # 0

WithdrawCallsOK(vault, to) ==
  TransferOK(accounts, vault, to, CloseoutAmount(vault))

WithdrawUnclaimed(vault, to) ==
  /\ WithdrawChecks(vault, to)
  /\ WithdrawCallsOK(vault, to)
  /\ accounts' = Transferred(accounts, vault, to, CloseoutAmount(vault))
  /\ config' = [config EXCEPT !.unclaimed_withdrawn = TRUE]
  /\ UNCHANGED <<mints, now, upgradeAuthority>>

-----------------------------------------------------------------------------
(* Everybody else *)

\* The clock never runs backwards.
Tick ==
  /\ now < MaxTime
  /\ now' = now + 1
  /\ UNCHANGED <<accounts, mints, config, upgradeAuthority>>

\* The loader lets the authority hand itself over, or give itself up for good.
SetUpgradeAuthority(w) ==
  /\ upgradeAuthority # None
  /\ upgradeAuthority' = w
  /\ UNCHANGED <<accounts, mints, config, now>>

TokenWorld == TokenStep /\ UNCHANGED <<config, now, upgradeAuthority>>

Instruction ==
  \/ \E initializer, funder \in Wallets, opsAdmin \in Admins,
        from, vault \in TokenAddr, src, dst \in Mints, w \in Windows,
        cap \in Amounts :
       InitializeConfig(initializer, opsAdmin, funder, from, vault, src, dst,
                        w[1], w[2], cap)
  \/ \E admin \in Wallets, b \in BOOLEAN : SetPause(admin, b)
  \/ \E user \in Wallets, vault, from, to \in TokenAddr, n \in Amounts :
       MigrateExact(user, vault, from, to, n)
  \/ \E vault, to \in TokenAddr : WithdrawUnclaimed(vault, to)

Next ==
  \/ Instruction
  \/ TokenWorld
  \/ Tick
  \/ \E w \in Custodians : SetUpgradeAuthority(w)

Spec == Init /\ [][Next]_vars

\* The clock goes on, and somebody sends a closeout that would succeed.
Fairness ==
  /\ WF_vars(Tick)
  /\ WF_vars(\E vault, to \in TokenAddr : WithdrawUnclaimed(vault, to))

FairSpec == Spec /\ Fairness

=============================================================================
