-------------------------- MODULE Verifiers_proofs ---------------------------
(***************************************************************************)
(* Theorems about Verifiers, for every value of its constants: what a      *)
(* verifier reported can be relied on later, whatever the chain does.      *)
(***************************************************************************)
EXTENDS Verifiers, Migrator_proofs

\* What a verify-config that has passed goes by: the terms as expected and the
\* progress it saw.  That mints and vault are sound is IInv's.
TermsAsExpected ==
  /\ config.created
  /\ Terms = <<release.opsAdmin, release.oldMint, release.newMint,
               release.reserveVault, release.startTs, release.endTs,
               release.migrationCap, release.refundRecipient>>
  /\ config.total_migrated >= release.totalMigrated
  /\ release.unclaimedWithdrawn => config.unclaimed_withdrawn

\* What a reserve proof that will pass, or has passed, goes by.
ReserveCovered ==
  \/ ReserveReturnedFromVault
  \/ accounts[release.reserveVault].amount + PaidFromVault
       >= release.eligibleRawUnits

ProofStands ==
  /\ MintAsExpected(release.newMint)
  /\ ReserveVaultPasses
  /\ ReserveCovered

ProofComing ==
  proofRead # NothingRead /\ ProofReport(proofRead.mint, proofRead.reserve)

\* The inductive invariant: a reading that reserve-proof holds and will report
\* on is as good as a report already, which is what makes its delay harmless.
VerifiersInv ==
  /\ IInv
  /\ release \in Releases
  /\ "source_mint" \in passed => MintAsExpected(release.oldMint)
  /\ "destination_mint" \in passed => MintAsExpected(release.newMint)
  /\ "proof" \in passed \/ ProofComing => ProofStands
  /\ "authority" \in passed /\ release.expectedAuthority = None =>
       upgradeAuthority = None
  /\ "config" \in passed => TermsAsExpected

-----------------------------------------------------------------------------
(* What a step of the chain leaves of a mint, a vault and its cover. *)

LEMMA StrictStays ==
  ASSUME IInv, [Next]_vars, NEW m \in Mints, Strict(m)
  PROVE  Strict(m)' /\ mints'[m].decimals = mints[m].decimals
<1>0. mints \in [Mints -> Mint]
  BY DEF IInv, TypeOK, TokenTypeOK
<1>1. CASE UNCHANGED mints
  BY <1>1 DEF Strict
<1>2. ASSUME NEW user \in Wallets, NEW vault \in TokenAddr,
             NEW from \in TokenAddr, NEW to \in TokenAddr, NEW n \in Amounts,
             MigrateExact(user, vault, from, to, n)
      PROVE  Strict(m)' /\ mints'[m].decimals = mints[m].decimals
  BY <1>0, <1>2 DEF MigrateExact, SupplyBurned, Strict, Mint
<1>3. CASE TokenWorld
  BY <1>3, StrictMintKept DEF TokenWorld, IInv, TypeOK
<1> QED BY <1>1, <1>2, <1>3 DEF Next, Instruction, InitializeConfig, SetPause,
  WithdrawUnclaimed, Tick, SetUpgradeAuthority, vars

\* A vault under the program's authority whose mint cannot freeze: nobody gets
\* at it, and only a claim or a closeout of the program takes from it.
LEMMA ReserveStays ==
  ASSUME IInv, [Next]_vars, NEW v \in TokenAddr,
         Untouchable(accounts[v]), ~mints[accounts[v].mint].freezeAuthority
  PROVE  /\ Untouchable(accounts'[v])
         /\ accounts'[v].mint = accounts[v].mint
         /\ \/ accounts'[v].amount >= accounts[v].amount
            \/ /\ config.created /\ config.reserve_vault = v
               /\ \/ config'.unclaimed_withdrawn
                  \/ accounts'[v].amount + config'.total_migrated
                       = accounts[v].amount + config.total_migrated
<1> DEFINE Goal ==
      /\ Untouchable(accounts'[v])
      /\ accounts'[v].mint = accounts[v].mint
      /\ \/ accounts'[v].amount >= accounts[v].amount
         \/ /\ config.created /\ config.reserve_vault = v
            /\ \/ config'.unclaimed_withdrawn
               \/ accounts'[v].amount + config'.total_migrated
                    = accounts[v].amount + config.total_migrated
<1>0. /\ TypeOK /\ accounts \in [TokenAddr -> Account]
      /\ accounts[v] \in Account
      /\ accounts[v].amount \in Int
      /\ accounts[v].owner = VaultAuthority /\ VaultAuthority \notin Wallets
  BY AddressAssumption
     DEF IInv, TypeOK, TokenTypeOK, Account, Amounts, Untouchable
<1>1. CASE UNCHANGED accounts
  BY <1>0, <1>1 DEF Untouchable
<1>2. ASSUME NEW funder \in Wallets, NEW initializer, NEW opsAdmin,
             NEW from \in TokenAddr, NEW vault \in TokenAddr,
             NEW src, NEW dst, NEW s, NEW e, NEW cap \in Amounts,
             InitializeConfig(initializer, opsAdmin, funder, from, vault, src,
                              dst, s, e, cap)
      PROVE  Goal
  <2>1. from # v
    BY <1>0, <1>2 DEF InitializeConfig, InitializeChecks, FundingOK,
                      CustodyOK, TokenAccountOK
  <2>2. cap \in Nat
    BY AddressAssumption DEF Amounts
  <2>3. \/ accounts'[v] = accounts[v]
        \/ accounts'[v] = [accounts[v] EXCEPT !.amount = @ + cap]
    BY <1>0, <1>2, <2>1 DEF InitializeConfig, Transferred
  <2> QED BY <1>0, <2>2, <2>3 DEF Untouchable, Account
<1>3. ASSUME NEW user \in Wallets, NEW vault \in TokenAddr,
             NEW from \in TokenAddr, NEW to \in TokenAddr, NEW n \in Amounts,
             MigrateExact(user, vault, from, to, n)
      PROVE  Goal
  <2>1. /\ config \in MigrationConfig /\ config.created
        /\ vault = config.reserve_vault
    BY <1>0, <1>3, ConfigCreated DEF MigrateExact, MigrateChecks, VaultPinned
  <2>2. from # v /\ to # v
    BY <1>0, <1>3 DEF MigrateExact, MigrateChecks, TokenAccountOK,
                      DestinationOK,
       CustodyOK
  <2>3. CASE vault # v
    <3>1. accounts'[v] = accounts[v]
      BY <1>0, <1>3, <2>2, <2>3 DEF MigrateExact, Transferred, Burned
    <3> QED BY <1>0, <3>1 DEF Untouchable
  <2>4. CASE vault = v
    <3>1. accounts'[v] = [accounts[v] EXCEPT !.amount = @ - n]
      BY <1>0, <1>3, <2>2, <2>4 DEF MigrateExact, Transferred, Burned
    <3>2. /\ n \in Int /\ config.total_migrated \in Int
          /\ config'.total_migrated = config.total_migrated + n
      BY <1>3, <2>1, AddressAssumption DEF MigrateExact, MigrationConfig,
                                           Amounts
    <3>3. accounts'[v].amount = accounts[v].amount - n
      BY <1>0, <3>1 DEF Account
    <3>4. accounts'[v].amount + config'.total_migrated
            = accounts[v].amount + config.total_migrated
      BY <1>0, <3>2, <3>3
    <3> QED BY <1>0, <2>1, <2>4, <3>1, <3>4 DEF Untouchable, Account
  <2> QED BY <2>3, <2>4
<1>4. ASSUME NEW vault \in TokenAddr, NEW to \in TokenAddr,
             WithdrawUnclaimed(vault, to)
      PROVE  Goal
  <2>1. /\ config \in MigrationConfig /\ config.created
        /\ vault = config.reserve_vault
        /\ config'.unclaimed_withdrawn
    BY <1>0, <1>4, ConfigCreated
       DEF WithdrawUnclaimed, WithdrawChecks, VaultPinned, MigrationConfig
  <2>2. to # v
    BY <1>0, <1>4, <2>1 DEF WithdrawUnclaimed, WithdrawChecks, DestinationOK,
       CustodyOK, TokenAccountOK, MigrationConfig
  <2>3. CASE vault # v
    <3>1. accounts'[v] = accounts[v]
      BY <1>0, <1>4, <2>2, <2>3 DEF WithdrawUnclaimed, Transferred
    <3> QED BY <1>0, <3>1 DEF Untouchable
  <2>4. CASE vault = v
    <3>1. accounts'[v] =
            [accounts[v] EXCEPT !.amount = @ - CloseoutAmount(v)]
      BY <1>0, <1>4, <2>2, <2>4 DEF WithdrawUnclaimed, Transferred
    <3> QED BY <1>0, <2>1, <2>4, <3>1 DEF Untouchable, Account
  <2> QED BY <2>3, <2>4
<1>5. CASE TokenWorld
  BY <1>0, <1>5, VaultKept DEF TokenWorld, TypeOK
<1> QED BY <1>1, <1>2, <1>3, <1>4, <1>5 DEF Next, Instruction, SetPause, Tick,
  SetUpgradeAuthority, vars

LEMMA VerifiedVaultKept ==
  ASSUME IInv, [Next]_vars, release \in Releases, release' = release,
         Strict(release.newMint), ReserveVaultPasses
  PROVE  ReserveVaultPasses'
<1>1. release.reserveVault \in TokenAddr
  BY ReleasesAssumption
<1> QED BY <1>1, ReserveStays DEF ReserveVaultPasses, Strict

LEMMA CoverKept ==
  ASSUME IInv, [Next]_vars, release \in Releases, release' = release,
         Strict(release.newMint), ReserveVaultPasses, ReserveCovered
  PROVE  ReserveCovered'
<1> DEFINE v == release.reserveVault
<1>0. /\ TypeOK /\ TypeOK' /\ v \in TokenAddr
      /\ release.eligibleRawUnits \in Int
  BY NextType, ReleasesAssumption DEF IInv
<1>1. /\ accounts[v].amount \in Int /\ accounts'[v].amount \in Int
  BY <1>0, AddressAssumption DEF TypeOK, TokenTypeOK, Account, Amounts
<1>2. config.created => config.total_migrated \in Nat
  BY <1>0, ConfigCreated, AddressAssumption DEF MigrationConfig, Amounts
<1>3. config'.created => config'.total_migrated \in Nat
  <2>1. config'.created => config' \in MigrationConfig
    BY <1>0 DEF TypeOK, NoConfig
  <2> QED BY <2>1, AddressAssumption DEF MigrationConfig, Amounts
<1>4. config.created =>
        /\ config'.created /\ config'.reserve_vault = config.reserve_vault
        /\ config'.total_migrated >= config.total_migrated
        /\ config.unclaimed_withdrawn => config'.unclaimed_withdrawn
  BY TermsKept DEF Terms
<1>5. \/ accounts'[v].amount >= accounts[v].amount
      \/ /\ config.created /\ config.reserve_vault = v
         /\ \/ config'.unclaimed_withdrawn
            \/ accounts'[v].amount + config'.total_migrated
                 = accounts[v].amount + config.total_migrated
  BY <1>0, ReserveStays DEF ReserveVaultPasses, Strict
<1>6. CASE ReserveReturnedFromVault
  BY <1>4, <1>6 DEF ReserveReturnedFromVault, ReserveCovered
<1>7. CASE /\ config.created /\ config.reserve_vault = v
           /\ config'.unclaimed_withdrawn
  BY <1>4, <1>7 DEF ReserveReturnedFromVault, ReserveCovered
<1>8. CASE /\ accounts[v].amount + PaidFromVault >= release.eligibleRawUnits
           /\ accounts'[v].amount >= accounts[v].amount
  <2>1. PaidFromVault \in Int /\ PaidFromVault' \in Int
    BY <1>2, <1>3 DEF PaidFromVault
  <2>2. PaidFromVault' >= PaidFromVault
    BY <1>2, <1>3, <1>4 DEF PaidFromVault
  <2> QED BY <1>0, <1>1, <1>8, <2>1, <2>2 DEF ReserveCovered
<1>9. CASE /\ accounts[v].amount + PaidFromVault >= release.eligibleRawUnits
           /\ config.created /\ config.reserve_vault = v
           /\ accounts'[v].amount + config'.total_migrated
                = accounts[v].amount + config.total_migrated
  BY <1>4, <1>9 DEF PaidFromVault, ReserveCovered
<1> QED BY <1>5, <1>6, <1>7, <1>8, <1>9 DEF ReserveCovered

\* Nobody can upgrade a renounced program, ever, nor initialise it.
LEMMA RenouncedKept ==
  ASSUME IInv, [Next]_vars, upgradeAuthority = None
  PROVE  upgradeAuthority' = None /\ config'.created = config.created
<1>0. None \notin Wallets
  BY AddressAssumption DEF Owners
<1>1. CASE config.created
  <2>1. config'.created /\ config \in MigrationConfig /\ config' \in MigrationConfig
    BY <1>1, TermsKept, ConfigCreated, NextType DEF IInv, TypeOK, NoConfig
  <2>2. config'.created = config.created
    BY <2>1 DEF MigrationConfig
  <2> QED BY <1>0, <2>2 DEF Next, Instruction, InitializeConfig, InitializeChecks,
    InitializerIsUpgradeAuthority, SetPause, MigrateExact, WithdrawUnclaimed,
    TokenWorld, Tick, SetUpgradeAuthority, vars
<1>2. CASE ~config.created
  BY <1>0, <1>2 DEF Next, Instruction, InitializeConfig, InitializeChecks,
                    SetPause, MigrateExact,
     MigrateChecks, WithdrawUnclaimed, WithdrawChecks, TokenWorld, Tick,
     InitializerIsUpgradeAuthority, SetUpgradeAuthority, vars
<1> QED BY <1>1, <1>2

-----------------------------------------------------------------------------
(* The invariant holds. *)

LEMMA ChainKeeps ==
  ASSUME VerifiersInv, [Next]_vars, UNCHANGED verifierVars
  PROVE  VerifiersInv'
<1>0. /\ IInv /\ IInv' /\ release \in Releases
      /\ UNCHANGED <<release, passed, proofRead>>
      /\ release.oldMint \in Mints /\ release.newMint \in Mints
  BY NextKeeps, ReleasesAssumption DEF VerifiersInv, verifierVars
<1>1. /\ MintAsExpected(release.oldMint) => MintAsExpected(release.oldMint)'
      /\ MintAsExpected(release.newMint) => MintAsExpected(release.newMint)'
  <2>1. ASSUME NEW m \in Mints, Strict(m)
        PROVE  Strict(m)' /\ mints'[m].decimals = mints[m].decimals
    BY <1>0, <2>1, StrictStays
  <2> QED BY <1>0, <2>1 DEF MintAsExpected, Strict
<1>2. ASSUME ProofStands
      PROVE  ProofStands'
  <2>1. Strict(release.newMint)
    BY <1>2 DEF ProofStands, MintAsExpected
  <2>2. MintAsExpected(release.newMint)'
    BY <1>0, <1>1, <1>2 DEF ProofStands
  <2> QED BY <1>0, <1>2, <2>1, <2>2, VerifiedVaultKept, CoverKept DEF ProofStands
<1>3. ASSUME TermsAsExpected
      PROVE  TermsAsExpected'
  <2>1. /\ config.total_migrated \in Int /\ config'.total_migrated \in Int
        /\ release.totalMigrated \in Int
    <3>1. config \in MigrationConfig /\ config' \in MigrationConfig
      BY <1>0, <1>3, TermsKept, ConfigCreated
         DEF TermsAsExpected, IInv, TypeOK, NoConfig
    <3> QED BY <1>0, <3>1, AddressAssumption, ReleasesAssumption
      DEF MigrationConfig, Amounts
  <2> QED BY <1>0, <1>3, <2>1, TermsKept DEF TermsAsExpected, Terms
<1>4. upgradeAuthority = None => upgradeAuthority' = None
  BY <1>0, RenouncedKept
<1>5. ProofComing' => ProofComing
  BY <1>0 DEF ProofComing, ProofReport, MintReport, VaultReport
<1>6. /\ ("source_mint" \in passed => MintAsExpected(release.oldMint))'
      /\ ("destination_mint" \in passed => MintAsExpected(release.newMint))'
  BY <1>0, <1>1 DEF VerifiersInv
<1>7. ("proof" \in passed \/ ProofComing => ProofStands)'
  BY <1>0, <1>2, <1>5 DEF VerifiersInv
<1>8. ("authority" \in passed /\ release.expectedAuthority = None =>
         upgradeAuthority = None)'
  BY <1>0, <1>4 DEF VerifiersInv
<1>9. ("config" \in passed => TermsAsExpected)'
  BY <1>0, <1>3 DEF VerifiersInv
<1> QED BY <1>0, <1>6, <1>7, <1>8, <1>9 DEF VerifiersInv

\* A passing verifier has seen what the invariant keeps; the chain waits.
LEMMA PassKeeps ==
  ASSUME VerifiersInv, NEW v, Pass(v), UNCHANGED proofRead,
         \/ v = "source_mint" /\ MintAsExpected(release.oldMint)
         \/ v = "destination_mint" /\ MintAsExpected(release.newMint)
         \/ v = "vault"
         \/ v = "config" /\ TermsAsExpected
         \/ v = "authority" /\ AuthorityReport
  PROVE  VerifiersInv'
<1>1. /\ passed' = passed \cup {v}
      /\ UNCHANGED <<accounts, mints, config, now, upgradeAuthority,
                     release, proofRead>>
  BY DEF Pass, vars
<1>2. IInv'
  BY <1>1, NextKeeps DEF VerifiersInv, vars
<1>3. /\ ("source_mint" \in passed => MintAsExpected(release.oldMint))'
      /\ ("destination_mint" \in passed => MintAsExpected(release.newMint))'
  BY <1>1 DEF VerifiersInv, MintAsExpected, Strict
<1>4. ("proof" \in passed \/ ProofComing => ProofStands)'
  <2>1. "proof" \in passed' => "proof" \in passed
    BY <1>1
  <2>2. ProofComing' => ProofComing
    BY <1>1 DEF ProofComing, ProofReport, MintReport, VaultReport
  <2>3. ProofStands => ProofStands'
    BY <1>1 DEF ProofStands, MintAsExpected, Strict, ReserveVaultPasses,
       Untouchable, ReserveCovered, ReserveReturnedFromVault, PaidFromVault
  <2> QED BY <2>1, <2>2, <2>3 DEF VerifiersInv
<1>5. ("authority" \in passed /\ release.expectedAuthority = None =>
         upgradeAuthority = None)'
  BY <1>1 DEF VerifiersInv, AuthorityReport
<1>6. ("config" \in passed => TermsAsExpected)'
  BY <1>1 DEF VerifiersInv, TermsAsExpected, Terms
<1> QED BY <1>1, <1>2, <1>3, <1>4, <1>5, <1>6 DEF VerifiersInv

\* Reading and reporting of a reserve proof.
LEMMA ProofKeeps ==
  ASSUME VerifiersInv, ReadReserve \/ ProveReserve
  PROVE  VerifiersInv'
<1>1. UNCHANGED <<accounts, mints, config, now, upgradeAuthority, release>>
  BY DEF ReadReserve, ProveReserve, vars
<1>2. IInv'
  BY <1>1, NextKeeps DEF VerifiersInv, vars
<1>3. \A v : v \in passed' => v \in passed \/ (v = "proof" /\ ProofComing)
  BY DEF ReadReserve, ProveReserve, ProofComing, vars
<1>4. ProofStands => ProofStands'
  BY <1>1 DEF ProofStands, MintAsExpected, Strict, ReserveVaultPasses,
     Untouchable, ReserveCovered, ReserveReturnedFromVault, PaidFromVault
<1>5. ProofComing' => ProofStands
  <2>1. CASE ProveReserve
    BY <2>1 DEF ProveReserve, ProofComing
  <2>2. CASE ReadReserve /\ ProofComing'
    <3>1. ProofReport(mints[release.newMint], accounts[release.reserveVault])
      BY <1>1, <2>2 DEF ReadReserve, ProofComing, ProofReport, MintReport,
         VaultReport
    <3>2. MintAsExpected(release.newMint) /\ ReserveVaultPasses
      BY <3>1 DEF ProofReport, MintReport, VaultReport, MintAsExpected, Strict,
         ReserveVaultPasses, Untouchable
    <3>3. accounts[release.reserveVault].amount + PaidFromVault
            >= release.eligibleRawUnits
      <4>1. PaidFromVault \in Nat
        <5>1. config.created => config.total_migrated \in Amounts
          BY ConfigCreated DEF VerifiersInv, IInv, MigrationConfig
        <5> QED BY <5>1, AddressAssumption DEF PaidFromVault, Amounts
      <4>2. /\ accounts[release.reserveVault].amount \in Int
            /\ release.eligibleRawUnits \in Int
        BY ReleasesAssumption, AddressAssumption
           DEF VerifiersInv, IInv, TypeOK, TokenTypeOK, Account, Amounts
      <4>3. accounts[release.reserveVault].amount >= release.eligibleRawUnits
        BY <3>1 DEF ProofReport
      <4> QED BY <4>1, <4>2, <4>3
    <3> QED BY <3>2, <3>3 DEF ProofStands, ReserveCovered
  <2> QED BY <2>1, <2>2
<1>6. ("proof" \in passed \/ ProofComing => ProofStands)'
  BY <1>3, <1>4, <1>5 DEF VerifiersInv
<1>7. /\ ("source_mint" \in passed => MintAsExpected(release.oldMint))'
      /\ ("destination_mint" \in passed => MintAsExpected(release.newMint))'
  BY <1>1, <1>3 DEF VerifiersInv, MintAsExpected, Strict
<1>8. ("authority" \in passed /\ release.expectedAuthority = None =>
         upgradeAuthority = None)'
  BY <1>1, <1>3 DEF VerifiersInv
<1>9. ("config" \in passed => TermsAsExpected)'
  BY <1>1, <1>3 DEF VerifiersInv, TermsAsExpected, Terms
<1> QED BY <1>1, <1>2, <1>6, <1>7, <1>8, <1>9 DEF VerifiersInv

LEMMA VerifiersNextKeeps ==
  ASSUME VerifiersInv, [VerifiersNext]_checkedVars
  PROVE  VerifiersInv'
<1>1. CASE Chain \/ UNCHANGED checkedVars
  BY <1>1, ChainKeeps DEF Chain, checkedVars, verifierVars, vars
<1>2. CASE VerifyMint("source_mint", release.oldMint)
  BY <1>2, PassKeeps DEF VerifyMint, MintReport, MintAsExpected, Strict
<1>3. CASE VerifyMint("destination_mint", release.newMint)
  BY <1>3, PassKeeps DEF VerifyMint, MintReport, MintAsExpected, Strict
<1>4. CASE VerifyReserveVault
  BY <1>4, PassKeeps DEF VerifyReserveVault
<1>5. CASE VerifyConfig
  <2>1. config.total_migrated \in Int
    BY <1>5, ConfigCreated, AddressAssumption
       DEF VerifyConfig, VerifiersInv, IInv, MigrationConfig, Amounts
  <2>2. TermsAsExpected
    BY <1>5, <2>1 DEF VerifyConfig, ConfigReport, TermsAsExpected, Terms
  <2> QED BY <1>5, <2>2, PassKeeps DEF VerifyConfig
<1>6. CASE VerifyProgramAuthority
  BY <1>6, PassKeeps DEF VerifyProgramAuthority
<1>7. CASE ReadReserve \/ ProveReserve
  BY <1>7, ProofKeeps
<1> QED BY <1>1, <1>2, <1>3, <1>4, <1>5, <1>6, <1>7 DEF VerifiersNext

LEMMA VerifiersInvariance == VerifiersSpec => []VerifiersInv
<1>1. VerifiersInit => VerifiersInv
  BY DEF VerifiersInit, VerifiersInv, ProofComing, Init, TokenInit, NoConfig,
     IInv, TypeOK, PairAndVaultSound, CloseoutAfterDeadline, ReserveCoversClaims
<1>2. VerifiersInv /\ [VerifiersNext]_checkedVars => VerifiersInv'
  BY VerifiersNextKeeps
<1> QED BY <1>1, <1>2, PTL DEF VerifiersSpec

-----------------------------------------------------------------------------
(* The results. *)

\* Reports of verify-mint, verify-program-authority and reserve-proof stay true
\* (verifyMint.ts, verifyProgramAuthority.ts, generateReserveProof.ts).
THEOREM ReportsStayTrue == VerifiersSpec => []PassedStaysTrue
<1>1. VerifiersInv => PassedStaysTrue
  BY DEF VerifiersInv, PassedStaysTrue, ProofStands, ReserveVaultPasses
<1> QED BY <1>1, VerifiersInvariance, PTL

\* A verify-config that passed speaks for all later states (verifyConfig.ts).
THEOREM ConfigReportHolds == VerifiersSpec => []VerifiedConfigHolds
<1>1. VerifiersInv => VerifiedConfigHolds
  BY DEF VerifiersInv, TermsAsExpected, VerifiedConfigHolds, IInv,
     PairAndVaultSound
<1> QED BY <1>1, VerifiersInvariance, PTL

\* A reserve proof stays good until the closeout (generateReserveProof.ts reads
\* the balances before it looks the funding transaction up).
THEOREM ReserveProofStays == VerifiersSpec => []ReserveProofHolds
<1>1. VerifiersInv => ReserveProofHolds
  BY DEF VerifiersInv, ProofStands, ReserveCovered, ReserveProofHolds
<1> QED BY <1>1, VerifiersInvariance, PTL

\* After verify-mint a vault that verify-vault would pass stays so
\* (verifyReserveVault.ts looks at the vault alone).
THEOREM VaultReportStays == VerifiersSpec => VerifiedVaultStays
<1> DEFINE A == "destination_mint" \in passed /\ ReserveVaultPasses
                  => ReserveVaultPasses'
<1>1. ASSUME VerifiersInv, [VerifiersNext]_checkedVars,
             "destination_mint" \in passed, ReserveVaultPasses
      PROVE  ReserveVaultPasses'
  <2>1. CASE Chain
    BY <1>1, <2>1, VerifiedVaultKept
       DEF Chain, verifierVars, VerifiersInv, MintAsExpected
  <2>2. CASE UNCHANGED <<accounts, release>>
    BY <1>1, <2>2 DEF ReserveVaultPasses, Untouchable
  <2> QED BY <1>1, <2>1, <2>2 DEF VerifiersNext, checkedVars, VerifyMint, Pass,
    VerifyReserveVault, VerifyConfig, VerifyProgramAuthority, ReadReserve,
    ProveReserve, vars
<1>2. VerifiersInv /\ [VerifiersNext]_checkedVars => [A]_checkedVars
  BY <1>1
<1> QED BY <1>2, VerifiersInvariance, PTL DEF VerifiersSpec, VerifiedVaultStays

\* A program whose renounced authority has been seen is not initialised any
\* more (initialize_config.rs asks for the upgrade authority's signature).
THEOREM RenouncedStaysBlank == VerifiersSpec => RenouncedEndsSetup
<1> DEFINE A == "authority" \in passed /\ release.expectedAuthority = None
                  => config'.created = config.created
<1>1. ASSUME VerifiersInv, [VerifiersNext]_checkedVars, "authority" \in passed,
             release.expectedAuthority = None
      PROVE  config'.created = config.created
  <2>1. CASE Chain
    BY <1>1, <2>1, RenouncedKept DEF Chain, VerifiersInv
  <2>2. CASE UNCHANGED config
    BY <2>2
  <2> QED BY <1>1, <2>1, <2>2 DEF VerifiersNext, checkedVars, VerifyMint, Pass,
    VerifyReserveVault, VerifyConfig, VerifyProgramAuthority, ReadReserve,
    ProveReserve, vars
<1>2. VerifiersInv /\ [VerifiersNext]_checkedVars => [A]_checkedVars
  BY <1>1
<1> QED BY <1>2, VerifiersInvariance, PTL DEF VerifiersSpec, RenouncedEndsSetup

==============================================================================
