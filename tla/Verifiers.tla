------------------------------ MODULE Verifiers ------------------------------
(***************************************************************************)
(* The release's single-purpose verifiers: verify-mint, verify-vault,      *)
(* verify-config, verify-program-authority and reserve-proof.  Each is a   *)
(* command that reads one or two accounts at a slot of its own and exits   *)
(* 0 when every check holds.  An operator runs them in any order, days     *)
(* apart, again after a failure, while the chain goes on; what he keeps is *)
(* the set of those that have passed.  A failing verifier leaves nothing   *)
(* behind and is no step.                                                  *)
(* The provider is taken to be truthful (DryRun is about those that are    *)
(* not).  Checks that compare an account with an address derived from the  *)
(* program id, or its owner program with a constant, hold for every        *)
(* account of the model and are left out.                                  *)
(***************************************************************************)
EXTENDS MigratorProperties

CONSTANT Releases       \* the command-line arguments under consideration

\* A release names accounts of the instance; a verifier fails on any other.
ASSUME ReleasesAssumption ==
  \A r \in Releases :
    /\ r.oldMint \in Mints /\ r.newMint \in Mints
    /\ r.reserveVault \in TokenAddr
    /\ r.eligibleRawUnits \in Nat /\ r.totalMigrated \in Nat

VARIABLES
  release,              \* the arguments of this release's verifiers
  passed,               \* the verifiers that have exited 0
  proofRead             \* what reserve-proof has read and not yet reported on

verifierVars == <<release, passed, proofRead>>
checkedVars == <<accounts, mints, config, now, upgradeAuthority,
                 release, passed, proofRead>>

Verifiers ==
  {"source_mint", "destination_mint", "vault", "config", "authority", "proof"}

NothingRead == [status |-> "nothing"]

-----------------------------------------------------------------------------
(* The checks of each verifier, on the accounts it has read *)

BugMintReport(m, mint, d) ==
  /\ mint.initialized
  /\ ~mint.mintAuthority
  /\ mint.decimals = d
  /\ m # NativeMint

MintReport(m, mint, d) ==
  /\ mint.initialized
  /\ ~mint.mintAuthority /\ ~mint.freezeAuthority
  /\ mint.decimals = d
  /\ m # NativeMint

BugVaultReport(acct) ==
  /\ acct.mint = release.newMint
  /\ acct.state = "initialized"
  /\ ~acct.delegate /\ ~acct.closeAuthority

VaultReport(acct) ==
  /\ acct.mint = release.newMint
  /\ acct.owner = VaultAuthority
  /\ acct.state = "initialized"
  /\ ~acct.delegate /\ ~acct.closeAuthority

BugConfigReport(c) ==
  /\ c.source_mint = release.oldMint /\ c.destination_mint = release.newMint
  /\ c.admin = release.opsAdmin
  /\ c.reserve_vault = release.reserveVault
  /\ c.migration_cap = release.migrationCap
  /\ c.start_ts = release.startTs
  /\ c.paused = release.paused
  /\ c.total_migrated = release.totalMigrated
  /\ c.refund_recipient = release.refundRecipient
  /\ c.unclaimed_withdrawn = release.unclaimedWithdrawn

ConfigReport(c) ==
  /\ c.source_mint = release.oldMint /\ c.destination_mint = release.newMint
  /\ c.admin = release.opsAdmin
  /\ c.reserve_vault = release.reserveVault
  /\ c.migration_cap = release.migrationCap
  /\ c.start_ts = release.startTs /\ c.end_ts = release.endTs
  /\ c.paused = release.paused
  /\ c.total_migrated = release.totalMigrated
  /\ c.refund_recipient = release.refundRecipient
  /\ c.unclaimed_withdrawn = release.unclaimedWithdrawn

\* None stands for the argument none as well as for a renounced authority.
AuthorityReport == upgradeAuthority = release.expectedAuthority

ProofReport(mint, reserve) ==
  /\ MintReport(release.newMint, mint, release.expectedDecimals)
  /\ VaultReport(reserve)
  /\ reserve.amount >= release.eligibleRawUnits

\* The signature is that of the transaction that funded the reserve, which
\* initialize_config does; without a signature the checks are null.
FundingReport ==
  release.fundingSignature =>
    /\ config.created
    /\ config.reserve_vault = release.reserveVault
    /\ config.destination_mint = release.newMint

-----------------------------------------------------------------------------
(* The runs of the verifiers *)

Pass(v) ==
  /\ v \notin passed
  /\ passed' = passed \cup {v}
  /\ UNCHANGED <<vars, release>>

VerifyMint(v, m) ==
  /\ MintReport(m, mints[m], release.expectedDecimals)
  /\ Pass(v) /\ UNCHANGED proofRead

VerifyReserveVault ==
  /\ accounts[release.reserveVault].state # "closed"
  /\ VaultReport(accounts[release.reserveVault])
  /\ Pass("vault") /\ UNCHANGED proofRead

VerifyConfig ==
  /\ config.created
  /\ ConfigReport(config)
  /\ Pass("config") /\ UNCHANGED proofRead

VerifyProgramAuthority ==
  /\ AuthorityReport
  /\ Pass("authority") /\ UNCHANGED proofRead

\* Both accounts come from one call; the transaction is fetched afterwards.
ReadReserve ==
  /\ "proof" \notin passed
  /\ proofRead = NothingRead
  /\ accounts[release.reserveVault].state # "closed"
  /\ proofRead' = [status |-> "read", mint |-> mints[release.newMint],
                   reserve |-> accounts[release.reserveVault]]
  /\ UNCHANGED <<vars, release, passed>>

ProveReserve ==
  /\ proofRead # NothingRead
  /\ proofRead' = NothingRead
  /\ passed' = IF ProofReport(proofRead.mint, proofRead.reserve) /\ FundingReport
               THEN passed \cup {"proof"} ELSE passed
  /\ UNCHANGED <<vars, release>>

Chain == Next /\ UNCHANGED verifierVars

VerifiersInit ==
  /\ Init
  /\ release \in Releases
  /\ passed = {}
  /\ proofRead = NothingRead

VerifiersNext ==
  \/ Chain
  \/ VerifyMint("source_mint", release.oldMint)
  \/ VerifyMint("destination_mint", release.newMint)
  \/ VerifyReserveVault
  \/ VerifyConfig
  \/ VerifyProgramAuthority
  \/ ReadReserve
  \/ ProveReserve

VerifiersSpec == VerifiersInit /\ [][VerifiersNext]_checkedVars

-----------------------------------------------------------------------------
(* Properties *)

MintAsExpected(m) ==
  Strict(m) /\ mints[m].decimals = release.expectedDecimals

\* The vault of the release as verify-vault wants it, whatever it holds.
ReserveVaultPasses ==
  /\ Untouchable(accounts[release.reserveVault])
  /\ accounts[release.reserveVault].mint = release.newMint

\* What verify-mint and verify-program-authority (of none) have reported before
\* anything was initialised stays true for good, and so does what a reserve
\* proof says of its mint and vault, although it is older than the report.
PassedStaysTrue ==
  /\ "source_mint" \in passed => MintAsExpected(release.oldMint)
  /\ "destination_mint" \in passed => MintAsExpected(release.newMint)
  /\ "proof" \in passed =>
       /\ MintAsExpected(release.newMint)
       /\ Untouchable(accounts[release.reserveVault])
  /\ "authority" \in passed /\ release.expectedAuthority = None =>
       upgradeAuthority = None

\* The order of the commands matters: verify-vault says nothing of the mint, and
\* a mint that can still freeze can freeze the vault it has passed.  Once
\* verify-mint has passed on the destination mint, a vault that verify-vault
\* would pass is out of everybody's reach for good, so that the two checks made
\* days apart, in this order, can be combined.
VerifiedVaultStays ==
  [][ "destination_mint" \in passed /\ ReserveVaultPasses
      => ReserveVaultPasses' ]_checkedVars

\* A verify-config that passed once speaks for all later states: the terms are
\* the expected ones, mints and vault are sound, and of the progress it saw
\* nothing is undone, whatever the admin, holders and donors did since.
VerifiedConfigHolds ==
  "config" \in passed =>
    /\ config.created
    /\ Terms = <<release.opsAdmin, release.oldMint, release.newMint,
                 release.reserveVault, release.startTs, release.endTs,
                 release.migrationCap, release.refundRecipient>>
    /\ PairSound /\ VaultSound
    /\ config.total_migrated >= release.totalMigrated
    /\ release.unclaimedWithdrawn => config.unclaimed_withdrawn

\* What has left the proved vault as claims.
PaidFromVault ==
  IF config.created /\ config.reserve_vault = release.reserveVault
  THEN config.total_migrated ELSE 0

ReserveReturnedFromVault ==
  /\ config.created /\ config.reserve_vault = release.reserveVault
  /\ config.unclaimed_withdrawn

\* A reserve proof rests on balances read before its lookup of the funding
\* transaction, and is used long after.  It still means something then: until
\* the closeout, the vault and the claims paid from it account for all the
\* eligible units, even when the proof was made before initialisation or in
\* the middle of the window.
ReserveProofHolds ==
  "proof" \in passed /\ ~ReserveReturnedFromVault =>
    accounts[release.reserveVault].amount + PaidFromVault
      >= release.eligibleRawUnits

\* Once verify-program-authority has seen that nobody can upgrade the program,
\* nobody can initialise it either: a release that renounces first and finds no
\* config stays without one.
RenouncedEndsSetup ==
  [][ "authority" \in passed /\ release.expectedAuthority = None
      => config'.created = config.created ]_checkedVars

==============================================================================
