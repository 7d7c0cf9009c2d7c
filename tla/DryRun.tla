------------------------------- MODULE DryRun --------------------------------
(***************************************************************************)
(* The mainnet dry run: one reviewed manifest is replayed against several  *)
(* RPC providers; each provider's report compares what it serves with the  *)
(* manifest, and the quorum accepts when every report is ok and all of     *)
(* them observed the same.                                                 *)
(*                                                                         *)
(* The chain goes on while the replay runs.  A report takes one snapshot   *)
(* of the accounts (getMultipleAccounts answers at one slot) and looks the *)
(* funding transaction up in separate calls; between any two calls of any  *)
(* two providers the chain may take any step of Migrator.  A lagging       *)
(* provider is one whose snapshot was taken earlier than the others; a     *)
(* faulty one answers with something that is not on the chain.             *)
(* The manifest's build, cluster and program-account entries describe      *)
(* files and accounts that no step of the model changes; they are left     *)
(* out.                                                                    *)
(***************************************************************************)
EXTENDS MigratorProperties

CONSTANTS
  Providers,        \* the distinct RPC URLs of the quorum, at least two
  Faulty,           \* those that serve another chain's state
  Manifests,        \* the manifests under review
  OtherTransaction  \* a finalized transaction that is not the initialisation

ASSUME DryRunAssumption ==
  /\ Cardinality(Providers) >= 2
  /\ Faulty \subseteq Providers /\ Faulty # Providers

VARIABLES
  prefunded,        \* the config address holds lamports and nothing else
  manifest,         \* the reviewed manifest of this release
  snapshot,         \* per provider: the accounts it served, or a marker
  funding,          \* per provider: what it knows of the funding transaction
  verdict           \* "pending", "ok" or "rejected"

replayVars == <<manifest, snapshot, funding, verdict>>
chainVars == <<vars, prefunded>>
dryRunVars == <<accounts, mints, config, now, upgradeAuthority, prefunded,
                manifest, snapshot, funding, verdict>>

\* Markers: a call not made yet, and a call that threw.
Waiting == [status |-> "waiting"]
Failed == [status |-> "error"]

-----------------------------------------------------------------------------
(* One report *)

\* What is at the config address: nothing, an account that somebody has only
\* sent lamports to, or the program's own.
ConfigInfo ==
  IF config.created THEN "config" ELSE IF prefunded THEN "lamports" ELSE "none"

\* The six accounts of the manifest, at one slot.
Accounts(m) ==
  [status |-> "read",
   upgradeAuthority |-> upgradeAuthority,
   sourceMint |-> mints[m.sourceMint],
   destinationMint |-> mints[m.destinationMint],
   reserve |-> accounts[m.reserveVault],
   configInfo |-> ConfigInfo, config |-> config]

\* The initialize_config transaction funds the reserve by exactly the cap.  The
\* signature may be that of any other transaction.
FundingTransaction(m) ==
  LET hit == config.created /\ config.reserve_vault = m.reserveVault
               /\ config.destination_mint = m.destinationMint
  IN IF m.fundingSignature = "initialization"
     THEN [status |-> "read", found |-> config.created, touchesReserve |-> hit,
           delta |-> IF hit THEN config.migration_cap ELSE 0]
     ELSE [status |-> "read", found |-> TRUE,
           touchesReserve |-> OtherTransaction.touchesReserve,
           delta |-> OtherTransaction.delta]

\* The config the manifest describes.
ReviewedConfig(m) ==
  [created |-> TRUE, paused |-> m.expectedPaused, admin |-> m.opsAdmin,
   source_mint |-> m.sourceMint, destination_mint |-> m.destinationMint,
   reserve_vault |-> m.reserveVault,
   total_migrated |-> m.expectedTotalMigrated,
   start_ts |-> m.startTs, end_ts |-> m.endTs,
   migration_cap |-> m.migrationCap,
   refund_recipient |-> m.expectedRefundRecipient,
   unclaimed_withdrawn |-> m.expectedUnclaimedWithdrawn]

\* A snapshot that passes every check of the report on m.
HopedFor(m) ==
  LET mint == [initialized |-> TRUE, mintAuthority |-> FALSE,
               freezeAuthority |-> FALSE, decimals |-> m.expectedDecimals,
               supply |-> U64Max]
      amount == IF m.expectConfigInitialized THEN m.eligibleUnits ELSE 0
  IN [status |-> "read",
      upgradeAuthority |-> m.expectedUpgradeAuthority,
      sourceMint |-> mint, destinationMint |-> mint,
      reserve |-> [EmptyAccount(VaultAuthority, m.destinationMint)
                     EXCEPT !.amount = amount],
      configInfo |-> IF m.expectConfigInitialized THEN "config" ELSE "none",
      config |-> IF m.expectConfigInitialized THEN ReviewedConfig(m)
                 ELSE NoConfig]

\* parseTokenAccountData and parseMintData throw on an account that does not
\* exist; where the config should be there must be some account.
Throws(m, s) ==
  \/ s.reserve.state = "closed"
  \/ m.expectConfigInitialized /\ s.configInfo = "none"

ManifestChecks(m) ==
  /\ m.startTs <= m.endTs
  /\ m.migrationCap = m.eligibleUnits
  /\ IF m.expectedUpgradeAuthority = None
     THEN m.expectConfigInitialized
     ELSE m.initializerAuthority = m.expectedUpgradeAuthority
  /\ m.expectedRefundRecipient = m.fundingAuthority

MintChecks(m, mint) ==
  /\ mint.initialized
  /\ ~mint.mintAuthority /\ ~mint.freezeAuthority
  /\ mint.decimals = m.expectedDecimals

PairChecks(m, s) ==
  /\ MintChecks(m, s.sourceMint) /\ MintChecks(m, s.destinationMint)
  /\ m.sourceMint # NativeMint /\ m.destinationMint # NativeMint
  /\ m.sourceMint # m.destinationMint

BugReserveChecks(m, s) ==
  /\ s.reserve.mint = m.destinationMint
  /\ s.reserve.owner = VaultAuthority
  /\ s.reserve.state = "initialized"
  /\ ~s.reserve.delegate
  /\ IF m.expectConfigInitialized
     THEN s.reserve.amount >= m.eligibleUnits
     ELSE s.reserve.amount = 0

BugReserveAbove(m, s) ==
  /\ s.reserve.mint = m.destinationMint
  /\ s.reserve.owner = VaultAuthority
  /\ s.reserve.state = "initialized"
  /\ ~s.reserve.delegate /\ ~s.reserve.closeAuthority
  /\ IF m.expectConfigInitialized
     THEN s.reserve.amount > m.eligibleUnits
     ELSE s.reserve.amount = 0

ReserveChecks(m, s) ==
  /\ s.reserve.mint = m.destinationMint
  /\ s.reserve.owner = VaultAuthority
  /\ s.reserve.state = "initialized"
  /\ ~s.reserve.delegate /\ ~s.reserve.closeAuthority
  /\ IF m.expectConfigInitialized
     THEN s.reserve.amount >= m.eligibleUnits
     ELSE s.reserve.amount = 0

\* No signature in the manifest leaves these checks null, and null passes.
FundingChecks(m, f) ==
  m.fundingSignature # "none" =>
    f.found /\ f.touchesReserve /\ f.delta > 0 /\ f.delta = m.migrationCap

BugTermsChecks(m, c) ==
  /\ c.source_mint = m.sourceMint /\ c.destination_mint = m.destinationMint
  /\ c.reserve_vault = m.reserveVault
  /\ c.admin = m.opsAdmin
  /\ c.migration_cap = m.migrationCap
  /\ c.start_ts = m.startTs
  /\ c.refund_recipient = m.expectedRefundRecipient

TermsChecks(m, c) ==
  /\ c.source_mint = m.sourceMint /\ c.destination_mint = m.destinationMint
  /\ c.reserve_vault = m.reserveVault
  /\ c.admin = m.opsAdmin
  /\ c.migration_cap = m.migrationCap
  /\ c.start_ts = m.startTs /\ c.end_ts = m.endTs
  /\ c.refund_recipient = m.expectedRefundRecipient

ProgressChecks(m, c) ==
  /\ c.paused = m.expectedPaused
  /\ c.total_migrated = m.expectedTotalMigrated
  /\ c.unclaimed_withdrawn = m.expectedUnclaimedWithdrawn

\* What cannot be decoded leaves these checks null.
DecodedChecks(m, s) ==
  s.configInfo = "config" =>
    TermsChecks(m, s.config) /\ ProgressChecks(m, s.config)

BugConfigChecks(m, s) ==
  IF m.expectConfigInitialized
  THEN s.configInfo # "none" /\ DecodedChecks(m, s)
  ELSE s.configInfo = "none"

\* An account with lamports only is not owned by the program and has no data.
ConfigChecks(m, s) ==
  IF m.expectConfigInitialized
  THEN s.configInfo = "config" /\ DecodedChecks(m, s)
  ELSE s.configInfo = "none"

ReportOK(m, s, f) ==
  /\ ManifestChecks(m)
  /\ s.upgradeAuthority = m.expectedUpgradeAuthority
  /\ PairChecks(m, s)
  /\ ReserveChecks(m, s)
  /\ FundingChecks(m, f)
  /\ ConfigChecks(m, s)

-----------------------------------------------------------------------------
(* The quorum *)

\* What must agree between two reports.  Some of it (authorities of the mints,
\* paused) is compared through the checks computed from it.
Consensus(s, f) ==
  [upgradeAuthority |-> s.upgradeAuthority,
   sourceMint |-> s.sourceMint, destinationMint |-> s.destinationMint,
   reserve |-> s.reserve.amount, configInfo |-> s.configInfo,
   config |-> s.config, funding |-> f]

ProviderOK(p) ==
  /\ snapshot[p].status = "read"
  /\ ReportOK(manifest, snapshot[p], funding[p])

Agree(p, q) ==
  Consensus(snapshot[p], funding[p]) = Consensus(snapshot[q], funding[q])

BugQuorumOK == \E p \in Providers : ProviderOK(p)

QuorumOK ==
  /\ \A p \in Providers : ProviderOK(p)
  /\ \A p, q \in Providers : Agree(p, q)

Answered(p) ==
  \/ snapshot[p] = Failed
  \/ snapshot[p].status = "read" /\ funding[p].status = "read"

\* Without a signature in the manifest nothing is looked up.
NoLookups ==
  [p \in Providers |->
     IF manifest.fundingSignature = "none" THEN [status |-> "read"] ELSE Waiting]

ReplayInit ==
  /\ snapshot = [p \in Providers |-> Waiting]
  /\ funding = NoLookups
  /\ verdict = "pending"

ReadAccounts(p) ==
  /\ snapshot[p] = Waiting
  /\ snapshot' = [snapshot EXCEPT ![p] =
       IF Throws(manifest, Accounts(manifest)) THEN Failed
       ELSE Accounts(manifest)]
  /\ UNCHANGED <<chainVars, manifest, funding, verdict>>

ReadFunding(p) ==
  /\ funding[p] = Waiting
  /\ funding' = [funding EXCEPT ![p] = FundingTransaction(manifest)]
  /\ UNCHANGED <<chainVars, manifest, snapshot, verdict>>

\* Any of the calls may fail: the provider's result is an error then.
CallFails(p) ==
  /\ snapshot[p].status # "error" /\ ~Answered(p)
  /\ snapshot' = [snapshot EXCEPT ![p] = Failed]
  /\ UNCHANGED <<chainVars, manifest, funding, verdict>>

\* The worst a faulty provider can serve is what the manifest hopes for.
AnswerWrongly(p) ==
  /\ p \in Faulty
  /\ snapshot[p] = Waiting
  /\ snapshot' = [snapshot EXCEPT ![p] = HopedFor(manifest)]
  /\ funding' = [funding EXCEPT ![p] =
       IF manifest.fundingSignature = "none" THEN @
       ELSE [status |-> "read", found |-> TRUE, touchesReserve |-> TRUE,
             delta |-> manifest.migrationCap]]
  /\ UNCHANGED <<chainVars, manifest, verdict>>

Summarize ==
  /\ verdict = "pending"
  /\ \A p \in Providers : Answered(p)
  /\ verdict' = IF QuorumOK THEN "ok" ELSE "rejected"
  /\ UNCHANGED <<chainVars, manifest, snapshot, funding>>

\* A rejected replay is repeated from the start.
Repeat ==
  /\ verdict = "rejected"
  /\ snapshot' = [p \in Providers |-> Waiting]
  /\ funding' = NoLookups
  /\ verdict' = "pending"
  /\ UNCHANGED <<chainVars, manifest>>

Chain ==
  /\ Next
  /\ prefunded' = (prefunded /\ ~config'.created)
  /\ UNCHANGED replayVars

SendLamports ==
  /\ ~prefunded /\ ~config.created
  /\ prefunded' = TRUE
  /\ UNCHANGED <<vars, replayVars>>

DryRunNext ==
  \/ Chain
  \/ SendLamports
  \/ \E p \in Providers :
       ReadAccounts(p) \/ ReadFunding(p) \/ CallFails(p) \/ AnswerWrongly(p)
  \/ Summarize
  \/ Repeat

DryRunInit ==
  /\ Init
  /\ prefunded = FALSE
  /\ manifest \in Manifests
  /\ ReplayInit

DryRunSpec == DryRunInit /\ [][DryRunNext]_dryRunVars

-----------------------------------------------------------------------------
(* Properties *)

ReviewedTerms(m) ==
  <<m.opsAdmin, m.sourceMint, m.destinationMint, m.reserveVault,
    m.startTs, m.endTs, m.migrationCap, m.fundingAuthority>>

\* As long as one provider serves the chain, an ok post-init verdict, however
\* stale the answers it rests on, tells the truth about everything claimants
\* rely on: the terms in the config are the reviewed ones now and for good, and
\* the vault and the mints are sound.
ApprovedTermsHold ==
  verdict = "ok" /\ manifest.expectConfigInitialized =>
    /\ config.created
    /\ Terms = ReviewedTerms(manifest)
    /\ PairSound /\ VaultSound

\* What the dry run accepts before initialisation, the program accepts: with
\* nothing changed since, and a funding account the funder alone controls that
\* holds the positive cap, initialize_config passes every check.
ProgramAcceptsReviewed ==
  LET m == manifest
      s == Accounts(m)
  IN \A from \in TokenAddr :
       /\ ~m.expectConfigInitialized /\ ~Throws(m, s)
       /\ ReportOK(m, s, FundingTransaction(m))
       /\ m.migrationCap > 0
       /\ CustodyOK(accounts[from], m.destinationMint, m.fundingAuthority)
       /\ accounts[from].amount >= m.migrationCap
       =>
       /\ WindowOK(m.startTs, m.endTs)
       /\ InitializerIsUpgradeAuthority(m.initializerAuthority)
       /\ MintPairOK(m.sourceMint, m.destinationMint)
       /\ FundingOK(m.fundingAuthority, from, m.reserveVault,
                    m.destinationMint, m.migrationCap)
       /\ ConfigAccountFree

\* The program was initialised as reviewed, and its progress is what the
\* manifest expects.
AsReviewed ==
  LET m == manifest
  IN /\ m.expectConfigInitialized
     /\ m.migrationCap = m.eligibleUnits
     /\ config = ReviewedConfig(m)
     /\ config.refund_recipient = m.fundingAuthority
     /\ mints[m.sourceMint].decimals = m.expectedDecimals
     /\ upgradeAuthority = m.expectedUpgradeAuthority
     /\ upgradeAuthority \in {None, m.initializerAuthority}
     /\ m.fundingSignature \in {"none", "initialization"}

\* Before the first claim the replay of a program initialised as reviewed is
\* never rejected by a provider that answers at once, whatever donations,
\* pauses and unrelated transfers came in between.
FreshReplayPasses ==
  AsReviewed /\ config.total_migrated = 0 /\ ~config.unclaimed_withdrawn =>
    ReportOK(manifest, Accounts(manifest), FundingTransaction(manifest))

\* The dry-run runbook says to run the post-init replay "before opening
\* migration to users, or while paused=true": a paused program whose progress
\* is the expected one, and whose reserve was not yet returned, should pass too.
PausedReplayPasses ==
  AsReviewed /\ config.paused /\ ~config.unclaimed_withdrawn =>
    ReportOK(manifest, Accounts(manifest), FundingTransaction(manifest))

==============================================================================
