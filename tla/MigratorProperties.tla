-------------------------- MODULE MigratorProperties -------------------------
(***************************************************************************)
(* What the migrator program guarantees, to claimants, to the funder and   *)
(* to the auditors of the two supplies, in the company of every wallet,    *)
(* mint authority and clock tick of TokenProgram and Migrator.             *)
(* The properties spell the conditions of the program's documentation out  *)
(* themselves; they do not reuse the program's validators as premises.     *)
(***************************************************************************)
EXTENDS Migrator

\* The config account is blank or a whole MigrationConfig whose amounts fit
\* u64 and whose refund recipient is a wallet, token accounts and mints keep
\* their layout (state.rs, MigrationConfig).
TypeOK ==
  /\ TokenTypeOK
  /\ config \in MigrationConfig \cup {NoConfig}
  /\ now \in Int
  /\ upgradeAuthority \in Wallets \cup {None}

WindowOpen ==
  ~config.paused /\ config.start_ts <= now /\ now <= config.end_ts

Expired == now > config.end_ts

\* The account at a wallet's associated address, under that wallet's control
\* alone: what a wallet can always arrange for itself.
CleanAta(a, o, m) ==
  /\ a = Ata(o, m)
  /\ accounts[a].state = "initialized"
  /\ accounts[a].mint = m /\ accounts[a].owner = o
  /\ ~accounts[a].delegate /\ ~accounts[a].closeAuthority

-----------------------------------------------------------------------------
(* Invariants *)

\* Claims never exceed the cap, and until the closeout, and in any case until
\* the deadline has passed, the reserve holds every unit that can still be
\* claimed, whatever order claims, donations, pauses and the closeout come in.
ReserveCoversClaims ==
  config.created =>
    /\ Remaining >= 0
    /\ ~config.unclaimed_withdrawn \/ now <= config.end_ts =>
         Vault.amount >= Remaining

\* Two mints that nobody can inflate or freeze, of equal decimals.
Strict(m) ==
  /\ m # NativeMint
  /\ mints[m].initialized
  /\ ~mints[m].mintAuthority /\ ~mints[m].freezeAuthority

PairSound ==
  /\ config.source_mint # config.destination_mint
  /\ Strict(config.source_mint)
  /\ Strict(config.destination_mint)
  /\ mints[config.source_mint].decimals =
       mints[config.destination_mint].decimals

\* A vault that nobody but the program controls.
Untouchable(acct) ==
  /\ acct.state = "initialized"
  /\ acct.owner = VaultAuthority
  /\ ~acct.delegate /\ ~acct.closeAuthority

VaultSound == Untouchable(Vault) /\ Vault.mint = config.destination_mint

\* Nobody outside the program can spoil the pair of mints or the vault once
\* initialize_config has accepted them: no inflation, no freezing, no
\* delegate, no closing, no change of owner, equal decimals for good.
PairAndVaultSound == config.created => PairSound /\ VaultSound

\* A wallet's holding of source tokens that it alone can spend, and an amount
\* of it that is left under the cap.
Claimable(user, from, n) ==
  /\ accounts[from].state = "initialized"
  /\ accounts[from].mint = config.source_mint
  /\ accounts[from].owner = user
  /\ ~accounts[from].delegate
  /\ n <= accounts[from].amount
  /\ n <= Remaining

\* While the window is open and not paused, a holder with a clean associated
\* account can migrate any amount of what he holds that is left under the
\* cap: every check of migrate_exact passes.
ClaimsPassChecks ==
  config.created /\ WindowOpen =>
    \A user \in Wallets, from, to \in TokenAddr, n \in Amounts \ {0} :
      Claimable(user, from, n) /\ CleanAta(to, user, config.destination_mint) =>
        MigrateChecks(user, config.reserve_vault, from, to, n)

\* Moreover both calls of the token program succeed: no burn below zero and no
\* overflow of the destination account is possible after the checks, so a
\* checked claim is never rolled back between its burn and its transfer (a
\* holder who is his own delegate with a small allowance apart, see BurnOK).
ClaimsPayable ==
  /\ ClaimsPassChecks
  /\ \A user \in Wallets, from, to \in TokenAddr, n \in Amounts :
       /\ MigrateChecks(user, config.reserve_vault, from, to, n)
       /\ Claimable(user, from, n)
       => MigrateCallsOK(config.reserve_vault, from, to, n)

CloseoutDue(to) ==
  /\ config.created /\ Expired /\ ~config.paused
  /\ Vault.amount > 0
  /\ CleanAta(to, config.refund_recipient, config.destination_mint)

\* After the deadline the first closeout never gets stuck: with something in
\* the reserve and a clean refund account, withdraw_unclaimed goes through.
CloseoutPayable ==
  \A to \in TokenAddr :
    CloseoutDue(to) /\ ~config.unclaimed_withdrawn =>
      /\ WithdrawChecks(config.reserve_vault, to)
      /\ WithdrawCallsOK(config.reserve_vault, to)

\* The SDK's README says of withdraw_unclaimed that it sweeps the full
\* reserve-vault balance after expiry, "including any later surplus": taken at
\* its word, a balance in the vault can be swept whenever it arrived.
LaterSurplusSweepable ==
  \A to \in TokenAddr :
    CloseoutDue(to) =>
      /\ WithdrawChecks(config.reserve_vault, to)
      /\ WithdrawCallsOK(config.reserve_vault, to)

\* The inductive invariant: the closeout flag is set after the deadline only,
\* which is why migrate_exact may ignore it.
CloseoutAfterDeadline ==
  config.created /\ config.unclaimed_withdrawn => Expired

IInv ==
  /\ TypeOK
  /\ PairAndVaultSound
  /\ CloseoutAfterDeadline
  /\ ReserveCoversClaims

-----------------------------------------------------------------------------
(* Action properties *)

\* After the closeout no unit is claimed, although migrate_exact never looks
\* at the closeout flag.
NoClaimAfterCloseout ==
  [][config.created /\ config.unclaimed_withdrawn =>
       config'.total_migrated = config.total_migrated]_vars

\* What initialize_config fixes.
Terms ==
  <<config.admin, config.source_mint, config.destination_mint,
    config.reserve_vault, config.start_ts, config.end_ts,
    config.migration_cap, config.refund_recipient>>

\* initialize_config happens once: afterwards the account is never blank or
\* initialised again, only paused changes both ways, the total only grows and
\* the closeout flag is never taken back.
ConfigFrozen ==
  [][config.created =>
       /\ config'.created
       /\ UNCHANGED Terms
       /\ config'.total_migrated >= config.total_migrated
       /\ config.unclaimed_withdrawn => config'.unclaimed_withdrawn]_vars

Outflow == Vault.amount - accounts'[config.reserve_vault].amount

ClaimOutflow(user, from) ==
  LET to == Ata(user, config.destination_mint)
      src == config.source_mint
  IN /\ WindowOpen
     /\ accounts[from].owner = user /\ accounts[from].mint = src
     /\ accounts'[from].amount = accounts[from].amount - Outflow
     /\ mints'[src].supply = mints[src].supply - Outflow
     /\ to \in TokenAddr
     /\ accounts'[to].amount = accounts[to].amount + Outflow
     /\ accounts'[to].owner = user
     /\ config'.total_migrated = config.total_migrated + Outflow

CloseoutOutflow ==
  LET to == Ata(config.refund_recipient, config.destination_mint)
  IN /\ Expired /\ ~config.paused
     /\ ~config.unclaimed_withdrawn /\ config'.unclaimed_withdrawn
     /\ Outflow = Vault.amount
     /\ to \in TokenAddr
     /\ accounts'[to].amount = accounts[to].amount + Outflow

\* Whatever leaves the reserve, and whatever is counted as migrated, is a
\* claim: burned by its own holder in the same step unit for unit and paid from
\* the reserve to that holder's associated account; or else it is the one
\* closeout to the refund recipient.  Neither happens while paused.
ReserveOutflow ==
  [][config.created
       /\ (Outflow > 0 \/ config'.total_migrated # config.total_migrated) =>
       \/ \E user \in Wallets, from \in TokenAddr : ClaimOutflow(user, from)
       \/ CloseoutOutflow]_vars

\* Once the cap covers the whole source supply it goes on covering it: no
\* claim takes a place under the cap from another holder, and nobody can mint
\* new claims.  The destination supply never grows.
CoverageStable ==
  [][config.created =>
       LET src == config.source_mint
           dst == config.destination_mint
       IN /\ config'.migration_cap - config'.total_migrated
               - mints'[src].supply
             >= Remaining - mints[src].supply
          /\ mints'[dst].supply <= mints[dst].supply]_vars

-----------------------------------------------------------------------------
(* Liveness *)

RefundPossible ==
  /\ config.created /\ ~config.paused
  /\ CleanAta(Ata(config.refund_recipient, config.destination_mint),
              config.refund_recipient, config.destination_mint)

\* If from some time on the program is not paused and the refund account is
\* clean, then from some time on either the closeout has happened or there is
\* nothing in the reserve to return.
ReserveReturned ==
  <>[]RefundPossible =>
    <>[](config.created /\ (config.unclaimed_withdrawn \/ Vault.amount = 0))

-----------------------------------------------------------------------------
(* The migrator implements the escrow. *)

Phase ==
  IF ~config.created THEN "absent"
  ELSE IF config.unclaimed_withdrawn THEN "settled" ELSE "open"

Cap == IF config.created THEN config.migration_cap ELSE 0
Claimed == IF config.created THEN config.total_migrated ELSE 0
Reserve == IF config.created THEN Vault.amount ELSE 0
ClaimsOver == config.created /\ Expired

Escrow == INSTANCE ReserveEscrow WITH
  MaxUnits <- U64Max, phase <- Phase, cap <- Cap, claimed <- Claimed,
  reserve <- Reserve, expired <- ClaimsOver

\* Every instruction, and everything the rest of the chain does, is a step of
\* the escrow or invisible to it.
ImplementsEscrow == Escrow!EscrowSpec

==============================================================================
