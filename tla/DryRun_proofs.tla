---------------------------- MODULE DryRun_proofs ----------------------------
(***************************************************************************)
(* Theorems about DryRun, for every value of its constants: any number of  *)
(* providers of which one is honest, any manifests, any terms.             *)
(***************************************************************************)
EXTENDS DryRun, Migrator_proofs

\* What initialize_config checked of the numbers it stored.
NumbersSound ==
  config.created => config.start_ts <= config.end_ts /\ config.migration_cap > 0

\* A snapshot that the manifest's own checks and those of the config accept.
Approved(s) ==
  /\ s.status = "read"
  /\ ManifestChecks(manifest) /\ ConfigChecks(manifest, s)

TermsReviewed == config.created /\ Terms = ReviewedTerms(manifest)

\* The inductive invariant: an approved snapshot of an honest provider speaks
\* for the chain as it is now, however old it is.
DryRunInv ==
  /\ IInv
  /\ NumbersSound
  /\ DOMAIN snapshot = Providers
  /\ manifest.expectConfigInitialized =>
       /\ \A p \in Providers \ Faulty : Approved(snapshot[p]) => TermsReviewed
       /\ verdict = "ok" => TermsReviewed

-----------------------------------------------------------------------------
(* The chain *)

LEMMA NumbersKept ==
  ASSUME IInv, NumbersSound, [Next]_vars
  PROVE  NumbersSound'
<1>1. CASE config.created
  BY <1>1, TermsKept DEF NumbersSound, Terms
<1>2. ASSUME NEW initializer, NEW opsAdmin, NEW funder, NEW from, NEW vault,
             NEW src, NEW dst, NEW s, NEW e, NEW cap \in Amounts,
             InitializeConfig(initializer, opsAdmin, funder, from, vault, src,
                              dst, s, e, cap)
      PROVE  NumbersSound'
  BY <1>2, AddressAssumption
     DEF InitializeConfig, InitializeChecks, InitialConfig, WindowOK,
         NumbersSound, Amounts
<1>3. CASE UNCHANGED config
  BY <1>3 DEF NumbersSound
<1> QED BY <1>1, <1>2, <1>3 DEF Next, Instruction, SetPause, MigrateExact,
  MigrateChecks, WithdrawUnclaimed, WithdrawChecks, TokenWorld, Tick,
  SetUpgradeAuthority, vars

LEMMA DryRunChainKeeps ==
  ASSUME DryRunInv, [Next]_vars, UNCHANGED replayVars
  PROVE  DryRunInv'
<1>1. /\ IInv' /\ NumbersSound'
      /\ UNCHANGED <<manifest, snapshot, verdict>>
  BY NextKeeps, NumbersKept DEF DryRunInv, replayVars
<1>2. TermsReviewed => TermsReviewed'
  BY <1>1, TermsKept DEF DryRunInv, TermsReviewed, Terms, ReviewedTerms
<1>3. \A p \in Providers : Approved(snapshot[p])' = Approved(snapshot[p])
  BY <1>1 DEF Approved, ManifestChecks, ConfigChecks, DecodedChecks, TermsChecks,
              ProgressChecks
<1>4. (manifest.expectConfigInitialized =>
         /\ \A p \in Providers \ Faulty : Approved(snapshot[p]) => TermsReviewed
         /\ verdict = "ok" => TermsReviewed)'
  BY <1>1, <1>2, <1>3 DEF DryRunInv
<1> QED BY <1>1, <1>4 DEF DryRunInv

-----------------------------------------------------------------------------
(* The replay *)

LEMMA ReplayKeeps ==
  ASSUME DryRunInv,
         \/ \E p \in Providers :
              ReadAccounts(p) \/ ReadFunding(p) \/ CallFails(p) \/ AnswerWrongly(p)
         \/ Summarize
         \/ Repeat
  PROVE  DryRunInv'
<1>1. UNCHANGED <<accounts, mints, config, now, upgradeAuthority, manifest>>
  BY DEF ReadAccounts, ReadFunding, CallFails, AnswerWrongly, Summarize,
         Repeat, chainVars, vars
<1>2. /\ IInv' /\ NumbersSound'
      /\ TermsReviewed' = TermsReviewed
  BY <1>1, NextKeeps
     DEF DryRunInv, vars, NumbersSound, TermsReviewed, Terms, ReviewedTerms
<1>3. DOMAIN snapshot' = Providers
  BY DEF DryRunInv, ReadAccounts, ReadFunding, CallFails, AnswerWrongly,
     Summarize, Repeat
<1>4. ASSUME NEW p \in Providers \ Faulty
      PROVE  \/ snapshot'[p] = snapshot[p]
             \/ snapshot'[p] \in {Waiting, Failed}
             \/ snapshot'[p] = Accounts(manifest)
  BY DEF DryRunInv, ReadAccounts, ReadFunding, CallFails, AnswerWrongly,
     Summarize, Repeat
<1>5. ASSUME manifest.expectConfigInitialized, Approved(Accounts(manifest))
      PROVE  TermsReviewed
  BY <1>5 DEF Approved, Accounts, ConfigInfo, ManifestChecks, ConfigChecks,
     DecodedChecks, TermsChecks, TermsReviewed, Terms, ReviewedTerms
<1>6. ~Approved(Waiting) /\ ~Approved(Failed)
  BY DEF Approved, Waiting, Failed
<1>7. ASSUME manifest.expectConfigInitialized, NEW p \in Providers \ Faulty,
             Approved(snapshot'[p])
      PROVE  TermsReviewed
  BY <1>4, <1>5, <1>6, <1>7 DEF DryRunInv
<1>8. ASSUME manifest.expectConfigInitialized, verdict' = "ok"
      PROVE  TermsReviewed
  <2>1. CASE verdict = "ok"
    BY <1>8, <2>1 DEF DryRunInv
  <2>2. CASE Summarize /\ QuorumOK
    <3>1. PICK p \in Providers : p \notin Faulty
      BY DryRunAssumption
    <3>2. Approved(snapshot[p])
      BY <2>2, <3>1 DEF QuorumOK, ProviderOK, ReportOK, Approved
    <3> QED BY <1>8, <3>1, <3>2 DEF DryRunInv
  <2> QED BY <1>8, <2>1, <2>2 DEF ReadAccounts, ReadFunding, CallFails,
    AnswerWrongly, Summarize, Repeat
<1>9. (manifest.expectConfigInitialized =>
          /\ \A p \in Providers \ Faulty : Approved(snapshot[p]) => TermsReviewed
          /\ verdict = "ok" => TermsReviewed)'
  BY <1>1, <1>2, <1>7, <1>8
     DEF Approved, ManifestChecks, ConfigChecks, DecodedChecks, TermsChecks,
         ProgressChecks
<1> QED BY <1>2, <1>3, <1>9 DEF DryRunInv

LEMMA DryRunInvariance == DryRunSpec => []DryRunInv
<1>1. DryRunInit => DryRunInv
  BY DEF DryRunInit, ReplayInit, DryRunInv, NumbersSound, Approved, Waiting,
         Init,
     TokenInit, NoConfig, IInv, TypeOK, PairAndVaultSound,
     CloseoutAfterDeadline,
     ReserveCoversClaims
<1>2. DryRunInv /\ [DryRunNext]_dryRunVars => DryRunInv'
  <2>1. ASSUME DryRunInv, Chain \/ SendLamports \/ UNCHANGED dryRunVars
        PROVE  DryRunInv'
    BY <2>1, DryRunChainKeeps
       DEF Chain, SendLamports, dryRunVars, replayVars, vars
  <2> QED BY <2>1, ReplayKeeps DEF DryRunNext
<1> QED BY <1>1, <1>2, PTL DEF DryRunSpec

-----------------------------------------------------------------------------
(* The results. *)

\* An ok verdict after initialisation holds of the chain for good, if one
\* provider of the quorum is honest (validateMainnetInputsQuorum.ts).
THEOREM ApprovalHolds == DryRunSpec => []ApprovedTermsHold
<1>1. DryRunInv => ApprovedTermsHold
  BY DEF DryRunInv, TermsReviewed, ApprovedTermsHold, IInv, PairAndVaultSound
<1> QED BY <1>1, DryRunInvariance, PTL

\* The checks of the dry run imply those of initialize_config
\* (validateMainnetInputs.ts and initialize_config.rs).
THEOREM ReviewedIsAccepted == DryRunSpec => []ProgramAcceptsReviewed
<1>1. ProgramAcceptsReviewed
  BY DEF ProgramAcceptsReviewed, Throws, ReportOK, ManifestChecks, PairChecks,
     MintChecks, ReserveChecks, ConfigChecks, Accounts, ConfigInfo, WindowOK,
     InitializerIsUpgradeAuthority, MintPairOK, StrictMint, FundingOK,
     CustodyOK, TokenAccountOK, ConfigAccountFree
<1> QED BY <1>1, PTL

\* Before the first claim no honest report of a program initialised as reviewed
\* fails (validateMainnetInputs.ts, the checks of a report).
THEOREM FreshReplayAccepted == DryRunSpec => []FreshReplayPasses
<1>1. DryRunInv => FreshReplayPasses
  <2> SUFFICES ASSUME DryRunInv, AsReviewed, config.total_migrated = 0,
                      ~config.unclaimed_withdrawn
               PROVE  ReportOK(manifest, Accounts(manifest),
                               FundingTransaction(manifest))
    BY DEF FreshReplayPasses
  <2> DEFINE m == manifest
  <2>1. /\ config = ReviewedConfig(m) /\ config.created
        /\ m.expectConfigInitialized /\ m.migrationCap = m.eligibleUnits
        /\ m.expectedRefundRecipient = m.fundingAuthority
    BY DEF AsReviewed, ReviewedConfig
  <2>2. config \in MigrationConfig /\ PairSound /\ VaultSound
    BY <2>1, ConfigCreated DEF DryRunInv, IInv, PairAndVaultSound
  <2>3. ManifestChecks(m)
    BY <2>1 DEF DryRunInv, NumbersSound, AsReviewed, ReviewedConfig,
                ManifestChecks
  <2>4. PairChecks(m, Accounts(m))
    BY <2>1, <2>2 DEF PairSound, Strict, ReviewedConfig, AsReviewed, PairChecks,
       MintChecks, Accounts
  <2>5. ReserveChecks(m, Accounts(m))
    <3>1. accounts[m.reserveVault].amount >= m.migrationCap
      <4>1. Remaining = m.migrationCap
        BY <2>1, <2>2, AddressAssumption
           DEF Remaining, ReviewedConfig, MigrationConfig, Amounts
      <4> QED BY <2>1, <4>1
        DEF DryRunInv, IInv, ReserveCoversClaims, Vault, ReviewedConfig
    <3> QED BY <2>1, <2>2, <3>1
      DEF VaultSound, Untouchable, Vault, ReviewedConfig, ReserveChecks,
          Accounts
  <2>6. FundingChecks(m, FundingTransaction(m))
    <3>1. CASE m.fundingSignature = "initialization"
      <4>1. /\ config.created /\ config.reserve_vault = m.reserveVault
            /\ config.destination_mint = m.destinationMint
            /\ config.migration_cap = m.migrationCap
            /\ config.migration_cap > 0
        BY <2>1 DEF ReviewedConfig, DryRunInv, NumbersSound
      <4> QED BY <3>1, <4>1 DEF FundingChecks, FundingTransaction
    <3> QED BY <3>1 DEF FundingChecks, AsReviewed
  <2>7. ConfigChecks(m, Accounts(m))
    BY <2>1 DEF ConfigChecks, DecodedChecks, TermsChecks, ProgressChecks,
                ReviewedConfig, Accounts, ConfigInfo
  <2>8. Accounts(m).upgradeAuthority = m.expectedUpgradeAuthority
    BY DEF AsReviewed, Accounts
  <2> QED BY <2>3, <2>4, <2>5, <2>6, <2>7, <2>8 DEF ReportOK
<1> QED BY <1>1, DryRunInvariance, PTL

==============================================================================
