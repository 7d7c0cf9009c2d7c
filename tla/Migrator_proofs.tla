--------------------------- MODULE Migrator_proofs ---------------------------
(***************************************************************************)
(* Theorems about Migrator, for every value of its constants: types, the   *)
(* inductive invariant, terms and closeout, that the program implements    *)
(* the escrow, and its two books: what leaves the reserve, and what the    *)
(* cap covers.                                                             *)
(***************************************************************************)
EXTENDS MigratorProperties, TLAPS

-----------------------------------------------------------------------------
(* Types *)

\* Moving, burning and minting amounts keeps the layout of token accounts.
LEMMA AmountType ==
  ASSUME NEW ac \in [TokenAddr -> Account], NEW a \in TokenAddr, NEW n \in Amounts
  PROVE  [ac EXCEPT ![a].amount = n] \in [TokenAddr -> Account]
BY DEF Account

LEMMA TransferredType ==
  ASSUME NEW ac \in [TokenAddr -> Account],
         NEW from \in TokenAddr, NEW to \in TokenAddr, NEW n \in Amounts,
         TransferOK(ac, from, to, n)
  PROVE  Transferred(ac, from, to, n) \in [TokenAddr -> Account]
BY AddressAssumption DEF Transferred, TransferOK, Account, Amounts

LEMMA BurnedType ==
  ASSUME NEW ac \in [TokenAddr -> Account], NEW ms \in [Mints -> Mint],
         NEW from \in TokenAddr, NEW m \in Mints, NEW n \in Amounts,
         BurnOK(ac, ms, from, m, n)
  PROVE  /\ Burned(ac, from, n) \in [TokenAddr -> Account]
         /\ SupplyBurned(ms, m, n) \in [Mints -> Mint]
BY AddressAssumption DEF Burned, SupplyBurned, BurnOK, Account, Mint, Amounts

LEMMA BalanceStepType ==
  ASSUME TokenTypeOK, BalanceStep
  PROVE  TokenTypeOK'
<1> SUFFICES ASSUME NEW from \in TokenAddr, NEW n \in Amounts \ {0},
                    \/ \E to \in TokenAddr : TransferTokens(from, to, n)
                    \/ \E m \in Mints : BurnTokens(from, m, n)
                    \/ \E m \in Mints : MintTokens(m, from, n)
             PROVE  TokenTypeOK'
  BY DEF BalanceStep
<1>1. ASSUME NEW to \in TokenAddr, TransferTokens(from, to, n)
      PROVE  TokenTypeOK'
  BY <1>1, TransferredType DEF TransferTokens, TokenTypeOK
<1>2. ASSUME NEW m \in Mints, BurnTokens(from, m, n)
      PROVE  TokenTypeOK'
  BY <1>2, BurnedType DEF BurnTokens, TokenTypeOK
<1>3. ASSUME NEW m \in Mints, MintTokens(m, from, n)
      PROVE  TokenTypeOK'
  <2>1. /\ accounts[from].amount + n \in Amounts
        /\ mints[m].supply + n \in Amounts
    BY <1>3, AddressAssumption
       DEF MintTokens, TokenTypeOK, Account, Mint, Amounts
  <2>2. accounts' \in [TokenAddr -> Account]
    BY <1>3, <2>1, AmountType DEF MintTokens, TokenTypeOK
  <2>3. mints' \in [Mints -> Mint]
    BY <1>3, <2>1 DEF MintTokens, TokenTypeOK, Mint
  <2> QED BY <2>2, <2>3 DEF TokenTypeOK
<1> QED BY <1>1, <1>2, <1>3

LEMMA ControlStepType ==
  ASSUME TokenTypeOK, ControlStep
  PROVE  TokenTypeOK'
<1> SUFFICES ASSUME NEW a \in Adjustable,
                    \/ \E b \in BOOLEAN : SetDelegate(a, b) \/ SetCloseAuthority(a, b)
                    \/ \E o \in Owners : SetOwner(a, o)
                    \/ \E o \in Owners, m \in Mints : CreateAccount(a, o, m)
                    \/ CloseAccount(a)
                    \/ Freeze(a)
                    \/ Thaw(a)
             PROVE  TokenTypeOK'
  BY DEF ControlStep
<1>a. a \in TokenAddr
  BY AddressAssumption
<1>0. ClosedAccount \in Account
  BY AddressAssumption DEF ClosedAccount, Account, Amounts
<1>1. ASSUME NEW b \in BOOLEAN, SetDelegate(a, b) \/ SetCloseAuthority(a, b)
      PROVE  TokenTypeOK'
  BY <1>1, <1>a DEF SetDelegate, SetCloseAuthority, TokenTypeOK, Account
<1>2. ASSUME NEW o \in Owners, SetOwner(a, o)
      PROVE  TokenTypeOK'
  BY ZenonT(30), <1>2, <1>a DEF SetOwner, TokenTypeOK, Account
<1>3. ASSUME NEW o \in Owners, NEW m \in Mints, CreateAccount(a, o, m)
      PROVE  TokenTypeOK'
  <2>1. EmptyAccount(o, m) \in Account
    BY <1>0 DEF EmptyAccount, Account
  <2> QED BY <1>3, <1>a, <2>1 DEF CreateAccount, TokenTypeOK
<1>4. CASE CloseAccount(a)
  BY <1>4, <1>a, <1>0 DEF CloseAccount, TokenTypeOK
<1>5. CASE Freeze(a) \/ Thaw(a)
  BY <1>5, <1>a DEF Freeze, Thaw, SetFrozen, TokenTypeOK, Account
<1> QED BY <1>1, <1>2, <1>3, <1>4, <1>5

LEMMA MintStepType ==
  ASSUME TokenTypeOK, MintStep
  PROVE  TokenTypeOK'
<1> SUFFICES ASSUME NEW m \in Mints,
                    \/ \E ma, fa \in BOOLEAN, d \in Decimals :
                         InitializeMint(m, ma, fa, d)
                    \/ GiveUpMintAuthority(m)
                    \/ GiveUpFreezeAuthority(m)
             PROVE  TokenTypeOK'
  BY DEF MintStep
<1>1. ASSUME NEW ma \in BOOLEAN, NEW fa \in BOOLEAN, NEW d \in Decimals,
             InitializeMint(m, ma, fa, d)
      PROVE  TokenTypeOK'
  BY <1>1, AddressAssumption DEF InitializeMint, TokenTypeOK, Mint, Amounts
<1>2. CASE GiveUpMintAuthority(m) \/ GiveUpFreezeAuthority(m)
  BY ZenonT(30), <1>2 DEF GiveUpMintAuthority, GiveUpFreezeAuthority, TokenTypeOK, Mint
<1> QED BY <1>1, <1>2

LEMMA TokenStepType ==
  ASSUME TokenTypeOK, TokenStep
  PROVE  TokenTypeOK'
BY BalanceStepType, ControlStepType, MintStepType DEF TokenStep

-----------------------------------------------------------------------------
(* Each instruction keeps the types. *)

LEMMA ConfigCreated ==
  ASSUME TypeOK, config.created
  PROVE  config \in MigrationConfig
BY DEF TypeOK, NoConfig

LEMMA InitializeConfigType ==
  ASSUME TypeOK,
         NEW initializer \in Wallets, NEW funder \in Wallets,
         NEW opsAdmin \in Admins, NEW from \in TokenAddr,
         NEW vault \in TokenAddr, NEW src \in Mints, NEW dst \in Mints,
         NEW w \in Windows, NEW cap \in Amounts,
         InitializeConfig(initializer, opsAdmin, funder, from, vault, src, dst,
                          w[1], w[2], cap)
  PROVE  TypeOK'
<1>1. accounts' \in [TokenAddr -> Account]
  BY TransferredType DEF InitializeConfig, TypeOK, TokenTypeOK
<1>2. config' \in MigrationConfig
  <2>1. /\ opsAdmin \in Wallets
        /\ w[1] \in Int /\ w[2] \in Int
        /\ 0 \in Amounts
    BY AddressAssumption, MigratorAssumption DEF Amounts
  <2> QED BY <2>1 DEF InitializeConfig, InitialConfig, MigrationConfig
<1> QED BY <1>1, <1>2 DEF InitializeConfig, TypeOK, TokenTypeOK

LEMMA SetPauseType ==
  ASSUME TypeOK, NEW admin \in Wallets, NEW b \in BOOLEAN, SetPause(admin, b)
  PROVE  TypeOK'
<1>1. config' \in MigrationConfig
  BY ConfigCreated DEF SetPause, Paused, MigrationConfig
<1> QED BY <1>1 DEF SetPause, TypeOK, TokenTypeOK

LEMMA MigrateExactType ==
  ASSUME TypeOK, NEW user \in Wallets, NEW vault \in TokenAddr,
         NEW from \in TokenAddr, NEW to \in TokenAddr, NEW n \in Amounts,
         MigrateExact(user, vault, from, to, n)
  PROVE  TypeOK'
<1>1. config \in MigrationConfig
  BY ConfigCreated DEF MigrateExact, MigrateChecks
<1>2. config.source_mint \in Mints /\ config.total_migrated \in Amounts
  BY <1>1 DEF MigrationConfig
<1>3. /\ Burned(accounts, from, n) \in [TokenAddr -> Account]
      /\ mints' \in [Mints -> Mint]
  BY <1>2, BurnedType DEF MigrateExact, MigrateCallsOK, TypeOK, TokenTypeOK
<1>4. accounts' \in [TokenAddr -> Account]
  BY <1>3, TransferredType DEF MigrateExact, MigrateCallsOK
<1>5. config.total_migrated + n \in Amounts
  BY <1>2, AddressAssumption
     DEF MigrateExact, MigrateChecks, CheckedTotal, Amounts
<1>6. config' \in MigrationConfig
  BY <1>1, <1>5 DEF MigrateExact, MigrationConfig
<1> QED BY <1>3, <1>4, <1>6 DEF MigrateExact, TypeOK, TokenTypeOK

LEMMA WithdrawUnclaimedType ==
  ASSUME TypeOK, NEW vault \in TokenAddr, NEW to \in TokenAddr,
         WithdrawUnclaimed(vault, to)
  PROVE  TypeOK'
<1>1. config' \in MigrationConfig
  BY ConfigCreated DEF WithdrawUnclaimed, WithdrawChecks, MigrationConfig
<1>2. accounts[vault].amount \in Amounts
  BY DEF TypeOK, TokenTypeOK, Account
<1>3. accounts' \in [TokenAddr -> Account]
  BY <1>2, TransferredType
     DEF WithdrawUnclaimed, CloseoutAmount, WithdrawCallsOK, TypeOK, TokenTypeOK
<1> QED BY <1>1, <1>3 DEF WithdrawUnclaimed, TypeOK, TokenTypeOK

LEMMA NextType ==
  ASSUME TypeOK, [Next]_vars
  PROVE  TypeOK'
<1>1. CASE Instruction
  BY <1>1, InitializeConfigType, SetPauseType, MigrateExactType,
     WithdrawUnclaimedType DEF Instruction
<1>2. CASE TokenWorld
  BY <1>2, TokenStepType DEF TokenWorld, TypeOK
<1>3. CASE Tick
  BY <1>3 DEF Tick, TypeOK, TokenTypeOK
<1>4. ASSUME NEW w \in Custodians, SetUpgradeAuthority(w)
      PROVE  TypeOK'
  BY <1>4, MigratorAssumption DEF SetUpgradeAuthority, TypeOK, TokenTypeOK
<1>5. CASE UNCHANGED vars
  BY <1>5 DEF vars, TypeOK, TokenTypeOK
<1> QED BY <1>1, <1>2, <1>3, <1>4, <1>5 DEF Next

\* Type correctness: no instruction, and nothing anybody else does, writes an
\* amount outside u64 or a config of another shape (state.rs, MigrationConfig).
THEOREM TypeCorrect == Spec => []TypeOK
<1>1. Init => TypeOK
  BY DEF Init, TokenInit, TypeOK
<1>2. TypeOK /\ [Next]_vars => TypeOK'
  BY NextType
<1> QED BY <1>1, <1>2, PTL DEF Spec

-----------------------------------------------------------------------------
(* What the rest of the chain cannot do to a strict mint and to the vault. *)

LEMMA StrictMintKept ==
  ASSUME TokenTypeOK, TokenStep, NEW m \in Mints, Strict(m)
  PROVE  /\ Strict(m)'
         /\ mints'[m].decimals = mints[m].decimals
         /\ mints'[m].supply <= mints[m].supply
<1> USE DEF TokenTypeOK, Mint, Amounts, Strict
<1>1. CASE UNCHANGED mints
  BY <1>1, AddressAssumption
<1>2. ASSUME NEW from \in TokenAddr, NEW n \in Amounts \ {0}, NEW k \in Mints,
             BurnTokens(from, k, n)
      PROVE  /\ Strict(m)'
             /\ mints'[m].decimals = mints[m].decimals
             /\ mints'[m].supply <= mints[m].supply
  BY <1>2, AddressAssumption DEF BurnTokens, SupplyBurned
<1>3. ASSUME NEW to \in TokenAddr, NEW n \in Amounts \ {0}, NEW k \in Mints,
             MintTokens(k, to, n)
      PROVE  /\ Strict(m)'
             /\ mints'[m].decimals = mints[m].decimals
             /\ mints'[m].supply <= mints[m].supply
  BY <1>3, AddressAssumption DEF MintTokens
<1>4. CASE MintStep
  BY <1>4, AddressAssumption DEF MintStep, InitializeMint, GiveUpMintAuthority,
     GiveUpFreezeAuthority
<1>5. CASE ControlStep
  BY <1>1, <1>5 DEF ControlStep, SetDelegate, SetCloseAuthority, SetOwner,
     CreateAccount, CloseAccount, Freeze, Thaw, SetFrozen
<1>6. CASE BalanceStep
  BY <1>1, <1>2, <1>3, <1>6 DEF BalanceStep, TransferTokens
<1> QED BY <1>4, <1>5, <1>6 DEF TokenStep

LEMMA VaultKept ==
  ASSUME TokenTypeOK, TokenStep, NEW v \in TokenAddr,
         Untouchable(accounts[v]), ~mints[accounts[v].mint].freezeAuthority
  PROVE  /\ Untouchable(accounts'[v])
         /\ accounts'[v].mint = accounts[v].mint
         /\ accounts'[v].amount >= accounts[v].amount
<1> USE DEF TokenTypeOK, Account, Untouchable, Amounts
<1> DEFINE Goal == /\ Untouchable(accounts'[v])
                   /\ accounts'[v].mint = accounts[v].mint
                   /\ accounts'[v].amount >= accounts[v].amount
<1>1. CASE UNCHANGED accounts
  BY <1>1, AddressAssumption
<1>2. /\ accounts[v].owner \notin Wallets
      /\ ~MayMove(v) /\ ~MayClose(v) /\ ~HeldByWallet(v)
  BY AddressAssumption DEF MayMove, MayClose, HeldByWallet
<1>3. ASSUME NEW from \in TokenAddr, NEW to \in TokenAddr,
             NEW n \in Amounts \ {0}, TransferTokens(from, to, n)
      PROVE  Goal
  BY <1>2, <1>3, AddressAssumption DEF TransferTokens, Transferred
<1>4. ASSUME NEW from \in TokenAddr, NEW m \in Mints, NEW n \in Amounts \ {0},
             BurnTokens(from, m, n)
      PROVE  Goal
  BY <1>2, <1>4, AddressAssumption DEF BurnTokens, Burned
<1>5. ASSUME NEW to \in TokenAddr, NEW m \in Mints, NEW n \in Amounts \ {0},
             MintTokens(m, to, n)
      PROVE  Goal
  BY <1>5, AddressAssumption DEF MintTokens
<1>6. CASE BalanceStep
  BY <1>3, <1>4, <1>5, <1>6 DEF BalanceStep
<1>7. CASE ControlStep
  <2> SUFFICES ASSUME NEW a \in Adjustable,
                      \/ \E b \in BOOLEAN :
                           SetDelegate(a, b) \/ SetCloseAuthority(a, b)
                      \/ \E o \in Owners : SetOwner(a, o)
                      \/ \E o \in Owners, m \in Mints : CreateAccount(a, o, m)
                      \/ CloseAccount(a)
                      \/ Freeze(a)
                      \/ Thaw(a)
               PROVE  Goal
    BY <1>7 DEF ControlStep
  <2>1. a # v
    BY <1>2 DEF SetDelegate, SetCloseAuthority, SetOwner, CreateAccount,
       CloseAccount, Freeze, Thaw, SetFrozen
  <2>2. accounts'[v] = accounts[v]
    BY <2>1 DEF SetDelegate, SetCloseAuthority, SetOwner, CreateAccount,
       CloseAccount, Freeze, Thaw, SetFrozen
  <2> QED BY <2>2, AddressAssumption
<1>8. CASE MintStep
  BY <1>1, <1>8 DEF MintStep, InitializeMint, GiveUpMintAuthority,
     GiveUpFreezeAuthority
<1> QED BY <1>6, <1>7, <1>8 DEF TokenStep

-----------------------------------------------------------------------------
(* The inductive invariant: each instruction keeps it. *)

LEMMA InitializeConfigKeeps ==
  ASSUME IInv,
         NEW initializer \in Wallets, NEW funder \in Wallets,
         NEW opsAdmin \in Admins, NEW from \in TokenAddr,
         NEW vault \in TokenAddr, NEW src \in Mints, NEW dst \in Mints,
         NEW w \in Windows, NEW cap \in Amounts,
         InitializeConfig(initializer, opsAdmin, funder, from, vault, src, dst,
                          w[1], w[2], cap)
  PROVE  IInv'
<1>0. TypeOK /\ TypeOK'
  BY InitializeConfigType DEF IInv
<1>1. /\ config'.created /\ ~config'.unclaimed_withdrawn
      /\ config'.source_mint = src /\ config'.destination_mint = dst
      /\ config'.reserve_vault = vault
      /\ config'.migration_cap = cap /\ config'.total_migrated = 0
  BY DEF InitializeConfig, InitialConfig
<1>2. PairSound'
  BY <1>1 DEF InitializeConfig, InitializeChecks, MintPairOK, StrictMint,
              PairSound, Strict
<1>3. from # vault
  BY AddressAssumption DEF InitializeConfig, InitializeChecks, FundingOK,
                           CustodyOK, TokenAccountOK
<1>4. /\ accounts'[vault] = [accounts[vault] EXCEPT !.amount = @ + cap]
      /\ accounts[vault] \in Account
  BY <1>0, <1>3 DEF InitializeConfig, Transferred, TypeOK, TokenTypeOK
<1>5. /\ Untouchable(accounts'[vault]) /\ accounts'[vault].mint = dst
      /\ accounts'[vault].amount = cap
  BY <1>4 DEF InitializeConfig, InitializeChecks, FundingOK, CustodyOK,
              TokenAccountOK,
     Untouchable, Account, Amounts
<1>6. VaultSound'
  BY <1>1, <1>5 DEF VaultSound, Vault
<1>7. ReserveCoversClaims'
  BY <1>1, <1>5, AddressAssumption
     DEF ReserveCoversClaims, Remaining, Vault, Amounts
<1> QED BY <1>0, <1>1, <1>2, <1>6, <1>7
  DEF IInv, PairAndVaultSound, CloseoutAfterDeadline

LEMMA SetPauseKeeps ==
  ASSUME IInv, NEW admin \in Wallets, NEW b \in BOOLEAN, SetPause(admin, b)
  PROVE  IInv'
<1>0. TypeOK' /\ config \in MigrationConfig
  BY SetPauseType, ConfigCreated DEF IInv, SetPause
<1>1. /\ config' = [config EXCEPT !.paused = b]
      /\ UNCHANGED <<accounts, mints, now>>
  BY DEF SetPause, Paused
<1> QED BY <1>0, <1>1 DEF IInv, PairAndVaultSound, PairSound, VaultSound, Vault,
  Strict, Untouchable, CloseoutAfterDeadline, Expired, ReserveCoversClaims,
  Remaining, MigrationConfig

LEMMA MigrateExactKeeps ==
  ASSUME IInv, NEW user \in Wallets, NEW vault \in TokenAddr,
         NEW from \in TokenAddr, NEW to \in TokenAddr, NEW n \in Amounts,
         MigrateExact(user, vault, from, to, n)
  PROVE  IInv'
<1>0. /\ TypeOK /\ TypeOK'
      /\ config.created /\ config \in MigrationConfig
  BY MigrateExactType, ConfigCreated DEF IInv, MigrateExact, MigrateChecks
<1>1. /\ config' = [config EXCEPT !.total_migrated = @ + n]
      /\ now' = now
      /\ vault = config.reserve_vault
  BY DEF MigrateExact, MigrateChecks, VaultPinned
<1>2. /\ accounts[from].owner = user /\ accounts[to].owner = user
      /\ accounts[vault].owner = VaultAuthority
  BY DEF MigrateExact, MigrateChecks, TokenAccountOK, DestinationOK, CustodyOK,
     ReserveOK
<1>3. from # vault /\ to # vault
  BY <1>2, AddressAssumption
<1>4. accounts'[vault] = [accounts[vault] EXCEPT !.amount = @ - n]
  BY <1>0, <1>3 DEF MigrateExact, Transferred, Burned, TypeOK, TokenTypeOK
<1>5. VaultSound'
  BY <1>0, <1>1, <1>4 DEF IInv, PairAndVaultSound, VaultSound, Vault,
                          Untouchable,
     TypeOK, TokenTypeOK, Account, MigrationConfig
<1>6. /\ config.source_mint \in Mints /\ config.destination_mint \in Mints
      /\ mints' = [mints EXCEPT ![config.source_mint].supply = @ - n]
  BY <1>0 DEF MigrationConfig, MigrateExact, SupplyBurned
<1>7. PairSound'
  BY <1>0, <1>1, <1>6 DEF IInv, PairAndVaultSound, PairSound, Strict,
     TypeOK, TokenTypeOK, Mint, MigrationConfig
<1>8. ReserveCoversClaims'
  <2>1. /\ n <= Remaining /\ now <= config.end_ts
        /\ Vault.amount >= Remaining
    BY <1>0 DEF IInv, ReserveCoversClaims, Remaining, MigrateExact,
       MigrateChecks, CapAllows, MigrationGate
  <2>2. /\ Remaining' = Remaining - n
        /\ Vault'.amount = Vault.amount - n
    BY <1>0, <1>1, <1>4, AddressAssumption
       DEF Remaining, Vault, MigrationConfig, Amounts, TypeOK, TokenTypeOK,
           Account
  <2>3. n \in Int /\ Remaining \in Int /\ Vault.amount \in Int
    BY <1>0, AddressAssumption DEF Remaining, Vault, MigrationConfig, Amounts,
       TypeOK, TokenTypeOK, Account
  <2> QED BY <2>1, <2>2, <2>3 DEF ReserveCoversClaims
<1>9. CloseoutAfterDeadline'
  BY <1>0, <1>1 DEF IInv, CloseoutAfterDeadline, Expired, MigrationConfig
<1> QED BY <1>0, <1>5, <1>7, <1>8, <1>9 DEF IInv, PairAndVaultSound

LEMMA WithdrawUnclaimedKeeps ==
  ASSUME IInv, NEW vault \in TokenAddr, NEW to \in TokenAddr,
         WithdrawUnclaimed(vault, to)
  PROVE  IInv'
<1>0. /\ TypeOK /\ TypeOK'
      /\ config.created /\ config \in MigrationConfig
  BY WithdrawUnclaimedType, ConfigCreated
     DEF IInv, WithdrawUnclaimed, WithdrawChecks
<1>1. /\ config' = [config EXCEPT !.unclaimed_withdrawn = TRUE]
      /\ now' = now /\ mints' = mints
      /\ vault = config.reserve_vault
  BY DEF WithdrawUnclaimed, WithdrawChecks, VaultPinned
<1>2. now > config.end_ts
  BY DEF WithdrawUnclaimed, WithdrawChecks, WithdrawalGate
<1>3. to # vault
  <2>1. /\ accounts[to].owner = config.refund_recipient
        /\ accounts[vault].owner = VaultAuthority
    BY DEF WithdrawUnclaimed, WithdrawChecks, DestinationOK, CustodyOK,
       TokenAccountOK, ReserveOK
  <2> QED BY <2>1, <1>0, AddressAssumption DEF MigrationConfig
<1>4. accounts'[vault] =
        [accounts[vault] EXCEPT !.amount = @ - accounts[vault].amount]
  BY <1>0, <1>3 DEF WithdrawUnclaimed, CloseoutAmount, Transferred, TypeOK,
                    TokenTypeOK
<1>5. VaultSound'
  BY <1>0, <1>1, <1>4 DEF IInv, PairAndVaultSound, VaultSound, Vault,
                          Untouchable,
     TypeOK, TokenTypeOK, Account, MigrationConfig
<1>6. PairSound'
  BY <1>0, <1>1 DEF IInv, PairAndVaultSound, PairSound, Strict, MigrationConfig
<1>7. /\ Expired' /\ Remaining' = Remaining
      /\ config'.unclaimed_withdrawn /\ config'.end_ts = config.end_ts
  BY <1>0, <1>1, <1>2 DEF Expired, Remaining, MigrationConfig
<1>8. ReserveCoversClaims'
  BY <1>0, <1>7, <1>1, <1>2
     DEF IInv, ReserveCoversClaims, TypeOK, MigrationConfig
<1> QED BY <1>0, <1>5, <1>6, <1>7, <1>8
  DEF IInv, PairAndVaultSound, CloseoutAfterDeadline

LEMMA TokenWorldKeeps ==
  ASSUME IInv, TokenWorld
  PROVE  IInv'
<1>0. TypeOK /\ TypeOK'
  BY NextType DEF IInv, Next
<1>1. TokenStep /\ UNCHANGED <<config, now>>
  BY DEF TokenWorld
<1>2. CASE ~config.created
  BY <1>0, <1>1, <1>2
     DEF IInv, PairAndVaultSound, CloseoutAfterDeadline, ReserveCoversClaims
<1>3. CASE config.created
  <2>0. config \in MigrationConfig
    BY <1>0, <1>3, ConfigCreated
  <2>1. /\ config.source_mint \in Mints /\ config.destination_mint \in Mints
        /\ config.reserve_vault \in TokenAddr
    BY <2>0 DEF MigrationConfig
  <2>2. PairSound /\ VaultSound
    BY <1>3 DEF IInv, PairAndVaultSound
  <2>3. PairSound'
    BY <1>0, <1>1, <2>1, <2>2, StrictMintKept DEF PairSound, Strict, TypeOK
  <2>4. VaultSound' /\ Vault'.amount >= Vault.amount
    BY <1>0, <1>1, <2>1, <2>2, VaultKept
       DEF VaultSound, Vault, PairSound, Strict, TypeOK
  <2>5. ReserveCoversClaims'
    <3>1. Remaining' = Remaining /\ Remaining \in Int
      BY <1>1, <2>0 DEF Remaining, MigrationConfig, Amounts
    <3>2. Vault.amount \in Int /\ Vault'.amount \in Int
      BY <1>0, <1>1, <2>1
         DEF Vault, TypeOK, TokenTypeOK, Account, Amounts
    <3> QED BY <1>1, <1>3, <2>4, <3>1, <3>2 DEF IInv, ReserveCoversClaims
  <2>6. CloseoutAfterDeadline'
    BY <1>1 DEF IInv, CloseoutAfterDeadline, Expired
  <2> QED BY <1>0, <2>3, <2>4, <2>5, <2>6 DEF IInv, PairAndVaultSound
<1> QED BY <1>2, <1>3

LEMMA TickKeeps ==
  ASSUME IInv, Tick
  PROVE  IInv'
<1>0. TypeOK'
  BY NextType DEF IInv, Next
<1>1. /\ UNCHANGED <<accounts, mints, config>> /\ now' = now + 1
      /\ now \in Int
  BY DEF Tick, IInv, TypeOK
<1>2. PairAndVaultSound'
  BY <1>1 DEF IInv, PairAndVaultSound, PairSound, Strict, VaultSound,
     Vault, Untouchable
<1>3. CASE ~config.created
  BY <1>0, <1>1, <1>2, <1>3 DEF IInv, CloseoutAfterDeadline, ReserveCoversClaims
<1>4. CASE config.created
  <2>1. config.end_ts \in Int
    BY <1>4, ConfigCreated DEF IInv, MigrationConfig
  <2>2. CloseoutAfterDeadline'
    BY <1>1, <1>4, <2>1 DEF IInv, CloseoutAfterDeadline, Expired
  <2>3. ReserveCoversClaims'
    BY <1>1, <1>4, <2>1 DEF IInv, ReserveCoversClaims, Remaining, Vault
  <2> QED BY <1>0, <1>2, <2>2, <2>3 DEF IInv
<1> QED BY <1>3, <1>4

LEMMA NextKeeps ==
  ASSUME IInv, [Next]_vars
  PROVE  IInv'
<1>1. CASE Instruction
  BY <1>1, InitializeConfigKeeps, SetPauseKeeps, MigrateExactKeeps,
     WithdrawUnclaimedKeeps DEF Instruction
<1>2. CASE TokenWorld
  BY <1>2, TokenWorldKeeps
<1>3. CASE Tick
  BY <1>3, TickKeeps
<1>4. CASE (\E w \in Custodians : SetUpgradeAuthority(w)) \/ UNCHANGED vars
  <2>1. TypeOK' /\ UNCHANGED <<accounts, mints, config, now>>
    BY <1>4, NextType DEF IInv, vars, SetUpgradeAuthority
  <2> QED BY <2>1 DEF IInv, PairAndVaultSound, PairSound, Strict, VaultSound,
    Vault, Untouchable, CloseoutAfterDeadline, Expired, ReserveCoversClaims,
    Remaining
<1> QED BY <1>1, <1>2, <1>3, <1>4 DEF Next

\* The inductive invariant holds of the program: what the four handlers check
\* keeps the vault, the pair of mints and the reserve sound for good.
THEOREM Invariance == Spec => []IInv
<1>1. Init => IInv
  BY DEF Init, TokenInit, NoConfig, IInv, TypeOK, PairAndVaultSound,
     CloseoutAfterDeadline, ReserveCoversClaims
<1>2. IInv /\ [Next]_vars => IInv'
  BY NextKeeps
<1> QED BY <1>1, <1>2, PTL DEF Spec

-----------------------------------------------------------------------------
(* The results. *)

\* Solvency: the cap bounds the claims, and the reserve covers what is left of
\* it while anything can still be claimed (PROGRAM_SPEC, invariants 5 and 6).
THEOREM Solvency == Spec => []ReserveCoversClaims
BY Invariance, PTL DEF IInv

\* Once initialize_config has checked the mints and the vault, nobody can undo
\* what it checked (state.rs, the strict mint and custody validators).
THEOREM SoundForGood == Spec => []PairAndVaultSound
BY Invariance, PTL DEF IInv

\* Every check of migrate_exact passes for an honest claim (migrate_exact.rs,
\* process), whatever happened before.
THEOREM ClaimsAccepted == Spec => []ClaimsPassChecks
<1>1. IInv => ClaimsPassChecks
  <2> SUFFICES ASSUME IInv, config.created, WindowOpen,
                      NEW user \in Wallets, NEW from \in TokenAddr,
                      NEW to \in TokenAddr, NEW n \in Amounts \ {0},
                      Claimable(user, from, n),
                      CleanAta(to, user, config.destination_mint)
               PROVE  MigrateChecks(user, config.reserve_vault, from, to, n)
    BY DEF ClaimsPassChecks
  <2>1. config \in MigrationConfig
    BY ConfigCreated DEF IInv
  <2>2. /\ n \in Int /\ n # 0 /\ Remaining \in Int /\ U64Max \in Int
        /\ config.total_migrated \in Int /\ config.migration_cap \in Int
        /\ config.migration_cap <= U64Max
        /\ now \in Int /\ config.end_ts \in Int /\ Vault.amount \in Int
    BY <2>1, AddressAssumption DEF IInv, TypeOK, TokenTypeOK, Account, Vault,
       MigrationConfig, Remaining, Amounts
  <2>3. /\ now <= config.end_ts
        /\ n <= Remaining /\ Remaining <= Vault.amount
    BY DEF IInv, ReserveCoversClaims, WindowOpen, Claimable
  <2>4. /\ CapAllows(config.total_migrated, n, config.migration_cap)
        /\ CheckedTotal(config.total_migrated, n)
        /\ Vault.amount >= n
    BY <2>2, <2>3
       DEF CapAllows, CheckedTotal, Remaining, IInv, ReserveCoversClaims
  <2>5. MigrationGate(config.paused, config.start_ts, config.end_ts, now)
    BY DEF WindowOpen, MigrationGate
  <2>6. PairSound /\ VaultSound
    BY DEF IInv, PairAndVaultSound
  <2>7. /\ StrictMint(config.source_mint)
        /\ StrictMint(config.destination_mint)
        /\ ReserveOK(config.reserve_vault)
    BY <2>6 DEF PairSound, VaultSound, Strict, StrictMint, Vault, Untouchable,
       ReserveOK, CustodyOK, TokenAccountOK
  <2>8. /\ TokenAccountOK(accounts[from], config.source_mint, user)
        /\ DestinationOK(to, user, config.destination_mint)
    BY <2>7 DEF Claimable, CleanAta, TokenAccountOK, DestinationOK, CustodyOK,
       StrictMint
  <2> QED BY <2>2, <2>4, <2>5, <2>7, <2>8 DEF MigrateChecks, VaultPinned, Vault
<1> QED BY <1>1, Invariance, PTL

\* Past the deadline nothing counts a claim any more.
LEMMA ExpiredStops ==
  ASSUME IInv, [Next]_vars, config.created, Expired
  PROVE  config'.total_migrated = config.total_migrated
<1>0. /\ config \in MigrationConfig /\ now \in Int /\ now > config.end_ts
      /\ config.end_ts \in Int
  BY ConfigCreated DEF IInv, TypeOK, Expired, MigrationConfig
<1>1. ASSUME NEW user \in Wallets, NEW vault \in TokenAddr,
             NEW from \in TokenAddr, NEW to \in TokenAddr, NEW n \in Amounts,
             MigrateExact(user, vault, from, to, n)
      PROVE  FALSE
  BY <1>0, <1>1 DEF MigrateExact, MigrateChecks, MigrationGate
<1>2. ASSUME NEW admin \in Wallets, NEW b \in BOOLEAN, SetPause(admin, b)
      PROVE  config'.total_migrated = config.total_migrated
  BY <1>0, <1>2 DEF SetPause, Paused, MigrationConfig
<1>3. ASSUME NEW vault \in TokenAddr, NEW to \in TokenAddr,
             WithdrawUnclaimed(vault, to)
      PROVE  config'.total_migrated = config.total_migrated
  BY <1>0, <1>3 DEF WithdrawUnclaimed, MigrationConfig
<1>4. CASE Instruction
  BY <1>1, <1>2, <1>3, <1>4 DEF Instruction, InitializeConfig, ConfigAccountFree
<1>5. CASE UNCHANGED config
  BY <1>5
<1> QED BY <1>4, <1>5 DEF Next, TokenWorld, Tick, SetUpgradeAuthority, vars

\* The clock alone keeps claims out after the closeout (migrate_exact.rs never
\* reads the closeout flag).
THEOREM CloseoutIsFinal == Spec => NoClaimAfterCloseout
<1> DEFINE A == config.created /\ config.unclaimed_withdrawn =>
                  config'.total_migrated = config.total_migrated
<1>1. IInv /\ [Next]_vars => [A]_vars
  BY ExpiredStops DEF IInv, CloseoutAfterDeadline
<1> QED BY <1>1, Invariance, PTL DEF Spec, NoClaimAfterCloseout

\* What a step leaves of a config that exists.
LEMMA TermsKept ==
  ASSUME IInv, [Next]_vars, config.created
  PROVE  /\ config'.created
         /\ UNCHANGED Terms
         /\ config'.total_migrated >= config.total_migrated
         /\ config.unclaimed_withdrawn => config'.unclaimed_withdrawn
<1> USE DEF Terms
<1> DEFINE A ==
      /\ config'.created
      /\ UNCHANGED Terms
      /\ config'.total_migrated >= config.total_migrated
      /\ config.unclaimed_withdrawn => config'.unclaimed_withdrawn
<1>0. config \in MigrationConfig /\ config.total_migrated \in Int
  <2>1. config \in MigrationConfig
    BY ConfigCreated DEF IInv
  <2>2. config.total_migrated \in Amounts
    BY <2>1 DEF MigrationConfig
  <2>3. \A x \in Amounts : x \in Int
    BY AddressAssumption DEF Amounts
  <2> QED BY <2>1, <2>2, <2>3
<1>1. ASSUME NEW user \in Wallets, NEW vault \in TokenAddr,
             NEW from \in TokenAddr, NEW to \in TokenAddr, NEW n \in Amounts,
             MigrateExact(user, vault, from, to, n)
      PROVE  A
  <2>1. config' = [config EXCEPT !.total_migrated = @ + n]
    BY <1>1 DEF MigrateExact
  <2>2. config'.total_migrated = config.total_migrated + n
    BY <1>0, <2>1 DEF MigrationConfig
  <2>3. config'.total_migrated >= config.total_migrated
    BY <1>0, <2>2, AddressAssumption DEF Amounts
  <2> QED BY <1>0, <2>1, <2>3 DEF MigrationConfig
<1>2. ASSUME NEW admin \in Wallets, NEW b \in BOOLEAN, SetPause(admin, b)
      PROVE  A
  BY <1>0, <1>2 DEF SetPause, Paused, MigrationConfig
<1>3. ASSUME NEW vault \in TokenAddr, NEW to \in TokenAddr,
             WithdrawUnclaimed(vault, to)
      PROVE  A
  BY <1>0, <1>3 DEF WithdrawUnclaimed, MigrationConfig
<1>4. CASE Instruction
  BY <1>1, <1>2, <1>3, <1>4 DEF Instruction, InitializeConfig, ConfigAccountFree
<1>5. CASE UNCHANGED config
  BY <1>0, <1>5 DEF MigrationConfig
<1> QED BY <1>4, <1>5 DEF Next, TokenWorld, Tick, SetUpgradeAuthority, vars

\* One initialisation, immutable terms, a total that only grows and a closeout
\* that is never taken back (PROGRAM_SPEC, invariants 1 to 4 and 9).
THEOREM TermsFrozen == Spec => ConfigFrozen
<1> DEFINE A ==
      config.created =>
       /\ config'.created
       /\ UNCHANGED Terms
       /\ config'.total_migrated >= config.total_migrated
       /\ config.unclaimed_withdrawn => config'.unclaimed_withdrawn
<1>1. IInv /\ [Next]_vars => [A]_vars
  BY TermsKept
<1> QED BY <1>1, Invariance, PTL DEF Spec, ConfigFrozen

-----------------------------------------------------------------------------
(* The migrator implements the escrow: each instruction is the escrow step  *)
(* of its name, what wallets and issuers do is a donation or invisible, and  *)
(* the clock lets the escrow expire                                          *)

LEMMA EscrowStarts == Init => Escrow!EscrowInit
BY DEF Init, NoConfig, Escrow!EscrowInit, Phase, Cap, Claimed, Reserve,
       ClaimsOver

\* Everything the escrow sees of an initialised migrator, with its types.
LEMMA EscrowOpen ==
  ASSUME IInv, config.created
  PROVE  /\ config \in MigrationConfig
         /\ Phase = IF config.unclaimed_withdrawn THEN "settled" ELSE "open"
         /\ Cap = config.migration_cap /\ Cap \in Int
         /\ Claimed = config.total_migrated /\ Claimed \in Int
         /\ Reserve = Vault.amount /\ Reserve \in Amounts /\ Reserve \in Int
         /\ ClaimsOver = Expired
<1>1. config \in MigrationConfig
  BY ConfigCreated DEF IInv
<1>2. /\ config.migration_cap \in Amounts /\ config.total_migrated \in Amounts
      /\ config.reserve_vault \in TokenAddr
  BY <1>1 DEF MigrationConfig
<1>3. Vault.amount \in Amounts
  BY <1>2 DEF IInv, TypeOK, TokenTypeOK, Vault, Account
<1>4. \A x \in Amounts : x \in Int
  BY AddressAssumption DEF Amounts
<1>5. /\ Cap = config.migration_cap /\ Cap \in Int
      /\ Claimed = config.total_migrated /\ Claimed \in Int
  BY <1>2, <1>4 DEF Cap, Claimed
<1>6. Reserve = Vault.amount /\ Reserve \in Amounts /\ Reserve \in Int
  BY <1>3, <1>4 DEF Reserve
<1>7. Phase = IF config.unclaimed_withdrawn THEN "settled" ELSE "open"
  BY DEF Phase
<1>8. ClaimsOver = Expired
  BY DEF ClaimsOver, Expired
<1> QED BY <1>1, <1>5, <1>6, <1>7, <1>8

LEMMA InitializeFunds ==
  ASSUME IInv, IInv',
         NEW initializer \in Wallets, NEW funder \in Wallets,
         NEW opsAdmin \in Admins, NEW from \in TokenAddr,
         NEW vault \in TokenAddr, NEW src \in Mints, NEW dst \in Mints,
         NEW w \in Windows, NEW c \in Amounts,
         InitializeConfig(initializer, opsAdmin, funder, from, vault, src, dst,
                          w[1], w[2], c)
  PROVE  c # 0 /\ Escrow!Fund(c)
<1>1. /\ c # 0 /\ ~config.created
      /\ config'.created /\ ~config'.unclaimed_withdrawn
      /\ config'.migration_cap = c /\ config'.total_migrated = 0
      /\ config'.reserve_vault = vault
  BY DEF InitializeConfig, InitializeChecks, InitialConfig, ConfigAccountFree
<1>2. from # vault
  BY AddressAssumption DEF InitializeConfig, InitializeChecks, FundingOK,
                           CustodyOK, TokenAccountOK
<1>3. accounts'[vault].amount = c
  BY <1>2, AddressAssumption DEF InitializeConfig, InitializeChecks,
                                 FundingOK, Transferred,
     IInv, TypeOK, TokenTypeOK, Account, Amounts
<1>4. ClaimsOver' \in BOOLEAN
  BY DEF ClaimsOver, Expired
<1> QED BY <1>1, <1>3, <1>4
  DEF Escrow!Fund, Phase, Cap, Claimed, Reserve, Vault

LEMMA MigrateClaims ==
  ASSUME IInv, IInv', NEW user \in Wallets, NEW vault \in TokenAddr,
         NEW from \in TokenAddr, NEW to \in TokenAddr, NEW n \in Amounts,
         MigrateExact(user, vault, from, to, n)
  PROVE  n # 0 /\ Escrow!Claim(n)
<1>1. /\ n # 0 /\ config.created /\ now <= config.end_ts /\ now' = now
      /\ vault = config.reserve_vault
      /\ config' = [config EXCEPT !.total_migrated = @ + n]
      /\ n <= config.migration_cap - config.total_migrated
  BY DEF MigrateExact, MigrateChecks, MigrationGate, VaultPinned, CapAllows
<1>2. /\ config \in MigrationConfig
      /\ Cap = config.migration_cap /\ Cap \in Int
      /\ Claimed = config.total_migrated /\ Claimed \in Int
      /\ Reserve = Vault.amount /\ Reserve \in Int
  BY <1>1, EscrowOpen
<1>3. /\ config'.created
      /\ config'.unclaimed_withdrawn = config.unclaimed_withdrawn
      /\ config'.migration_cap = config.migration_cap
      /\ config'.reserve_vault = config.reserve_vault
      /\ config'.end_ts = config.end_ts
      /\ config'.total_migrated = config.total_migrated + n
  BY <1>1, <1>2 DEF MigrationConfig
<1>4. config.end_ts \in Int /\ now \in Int /\ n \in Int
  BY <1>2, AddressAssumption DEF MigrationConfig, IInv, TypeOK, Amounts
<1>5. ~Expired /\ ~Expired' /\ ~config.unclaimed_withdrawn
  BY <1>1, <1>3, <1>4 DEF Expired, IInv, CloseoutAfterDeadline
<1>6. accounts'[vault].amount = accounts[vault].amount - n
  <2>1. /\ accounts[from].owner = user /\ accounts[to].owner = user
        /\ accounts[vault].owner = VaultAuthority
    BY DEF MigrateExact, MigrateChecks, TokenAccountOK, DestinationOK,
           CustodyOK,
       ReserveOK
  <2>2. from # vault /\ to # vault
    BY <2>1, AddressAssumption
  <2> QED BY <2>2 DEF MigrateExact, Transferred, Burned, IInv, TypeOK,
    TokenTypeOK, Account
<1>7. Reserve' = Reserve - n
  BY <1>1, <1>2, <1>3, <1>6 DEF Reserve, Vault
<1>8. /\ Cap' = Cap /\ Claimed' = Claimed + n
      /\ Claimed + n <= Cap
  BY <1>1, <1>2, <1>3, <1>4 DEF Cap, Claimed
<1> QED BY <1>1, <1>3, <1>5, <1>7, <1>8 DEF Escrow!Claim, Phase, ClaimsOver

LEMMA WithdrawSettles ==
  ASSUME IInv, IInv', NEW vault \in TokenAddr, NEW to \in TokenAddr,
         WithdrawUnclaimed(vault, to)
  PROVE  Escrow!Settle
<1>1. /\ config.created /\ ~config.unclaimed_withdrawn
      /\ now > config.end_ts /\ now' = now
      /\ vault = config.reserve_vault
      /\ accounts[vault].amount # 0
      /\ config' = [config EXCEPT !.unclaimed_withdrawn = TRUE]
  BY DEF WithdrawUnclaimed, WithdrawChecks, WithdrawalGate, NotWithdrawn,
     VaultPinned, CloseoutAmount
<1>2. /\ config \in MigrationConfig
      /\ Reserve = Vault.amount /\ Reserve \in Amounts
  BY <1>1, EscrowOpen
<1>3. /\ config'.created /\ config'.unclaimed_withdrawn
      /\ config'.migration_cap = config.migration_cap
      /\ config'.reserve_vault = config.reserve_vault
      /\ config'.end_ts = config.end_ts
      /\ config'.total_migrated = config.total_migrated
  BY <1>1, <1>2 DEF MigrationConfig
<1>4. accounts'[vault].amount = 0
  <2>1. /\ accounts[to].owner = config.refund_recipient
        /\ accounts[vault].owner = VaultAuthority
    BY DEF WithdrawUnclaimed, WithdrawChecks, DestinationOK, CustodyOK,
       TokenAccountOK, ReserveOK
  <2>2. to # vault
    BY <2>1, <1>2, AddressAssumption DEF MigrationConfig
  <2>3. accounts'[vault].amount = accounts[vault].amount - accounts[vault].amount
    BY <2>2 DEF WithdrawUnclaimed, CloseoutAmount, Transferred, IInv, TypeOK,
       TokenTypeOK, Account
  <2>4. accounts[vault].amount \in Int
    BY <1>1, <1>2, AddressAssumption DEF Vault, Amounts
  <2> QED BY <2>3, <2>4
<1>5. Reserve' = 0 /\ Reserve > 0
  BY <1>1, <1>2, <1>3, <1>4, AddressAssumption DEF Reserve, Vault, Amounts
<1>6. /\ Cap' = Cap /\ Claimed' = Claimed /\ ClaimsOver /\ ClaimsOver'
  BY <1>1, <1>3 DEF Cap, Claimed, ClaimsOver, Expired
<1> QED BY <1>1, <1>3, <1>5, <1>6 DEF Escrow!Settle, Phase

\* What the escrow does not see.
LEMMA EscrowStutters ==
  ASSUME config'.created = config.created,
         config.created =>
           /\ config'.unclaimed_withdrawn = config.unclaimed_withdrawn
           /\ config'.migration_cap = config.migration_cap
           /\ config'.total_migrated = config.total_migrated
           /\ Vault'.amount = Vault.amount
           /\ Expired' = Expired
  PROVE  UNCHANGED Escrow!escrowVars
BY DEF Escrow!escrowVars, Phase, Cap, Claimed, Reserve, ClaimsOver

LEMMA SetPauseInvisible ==
  ASSUME IInv, NEW admin \in Wallets, NEW b \in BOOLEAN, SetPause(admin, b)
  PROVE  UNCHANGED Escrow!escrowVars
<1>1. /\ config \in MigrationConfig
      /\ config' = [config EXCEPT !.paused = b]
      /\ UNCHANGED <<accounts, now>>
  BY ConfigCreated DEF IInv, SetPause, Paused
<1> QED BY <1>1, EscrowStutters DEF MigrationConfig, Vault, Expired

LEMMA TokenWorldDonates ==
  ASSUME IInv, IInv', TokenWorld
  PROVE  [Escrow!EscrowNext]_(Escrow!escrowVars)
<1>1. UNCHANGED <<config, now>>
  BY DEF TokenWorld
<1>2. CASE ~config.created \/ Vault'.amount = Vault.amount
  BY <1>1, <1>2, EscrowStutters DEF Expired
<1>3. CASE config.created /\ Vault'.amount # Vault.amount
  <2>1. /\ Reserve = Vault.amount /\ Reserve \in Amounts
        /\ config.reserve_vault \in TokenAddr
    BY <1>3, EscrowOpen DEF MigrationConfig
  <2>2. Reserve' = Vault'.amount /\ Reserve' \in Amounts
    BY <1>1, <1>3, <2>1
       DEF IInv, TypeOK, TokenTypeOK, Account, Reserve, Vault
  <2>3. Vault'.amount >= Vault.amount
    <3>1. /\ Untouchable(Vault)
          /\ ~mints[Vault.mint].freezeAuthority
      BY <1>3 DEF IInv, PairAndVaultSound, VaultSound, PairSound, Strict
    <3> QED BY <1>1, <2>1, <3>1, VaultKept DEF Vault, TokenWorld, IInv, TypeOK
  <2> DEFINE d == Reserve' - Reserve
  <2>4. /\ d \in Escrow!Units \ {0}
        /\ Reserve' = Reserve + d
    BY <1>3, <2>1, <2>2, <2>3, AddressAssumption DEF Amounts, Escrow!Units
  <2>5. Escrow!Donate(d)
    <3>1. Phase # "absent" /\ UNCHANGED <<Phase, Cap, Claimed, ClaimsOver>>
      BY <1>1, <1>3 DEF Phase, Cap, Claimed, ClaimsOver, Expired
    <3>2. Reserve + d \in Escrow!Units
      BY <2>2, <2>4 DEF Amounts, Escrow!Units
    <3> QED BY <2>4, <3>1, <3>2 DEF Escrow!Donate
  <2> QED BY <2>4, <2>5 DEF Escrow!EscrowNext
<1> QED BY <1>2, <1>3

LEMMA TickExpires ==
  ASSUME IInv, Tick
  PROVE  [Escrow!EscrowNext]_(Escrow!escrowVars)
<1>1. UNCHANGED <<accounts, config>> /\ now' = now + 1 /\ now \in Int
  BY DEF Tick, IInv, TypeOK
<1>2. CASE ~config.created \/ Expired' = Expired
  BY <1>1, <1>2, EscrowStutters DEF Vault
<1>3. CASE config.created /\ Expired' # Expired
  <2>1. config.end_ts \in Int
    BY <1>3, EscrowOpen DEF MigrationConfig
  <2>2. ~Expired /\ Expired'
    BY <1>1, <1>3, <2>1 DEF Expired
  <2>3. Escrow!Expire
    BY <1>1, <1>3, <2>2
       DEF Escrow!Expire, Phase, Cap, Claimed, Reserve, Vault, ClaimsOver
  <2> QED BY <2>3 DEF Escrow!EscrowNext
<1> QED BY <1>2, <1>3

LEMMA EscrowSteps ==
  ASSUME IInv, IInv', [Next]_vars
  PROVE  [Escrow!EscrowNext]_(Escrow!escrowVars)
<1>1. \A n \in Amounts \ {0} : n \in Escrow!Units \ {0}
  BY DEF Amounts, Escrow!Units
<1>2. ASSUME NEW initializer \in Wallets, NEW funder \in Wallets,
             NEW opsAdmin \in Admins, NEW from \in TokenAddr,
             NEW vault \in TokenAddr, NEW src \in Mints, NEW dst \in Mints,
             NEW w \in Windows, NEW c \in Amounts,
             InitializeConfig(initializer, opsAdmin, funder, from, vault, src,
                              dst, w[1], w[2], c)
      PROVE  Escrow!EscrowNext
  <2>1. c # 0 /\ Escrow!Fund(c)
    BY <1>2, InitializeFunds
  <2> QED BY <1>1, <2>1 DEF Escrow!EscrowNext
<1>3. ASSUME NEW user \in Wallets, NEW vault \in TokenAddr,
             NEW from \in TokenAddr, NEW to \in TokenAddr, NEW n \in Amounts,
             MigrateExact(user, vault, from, to, n)
      PROVE  Escrow!EscrowNext
  <2>1. n # 0 /\ Escrow!Claim(n)
    BY <1>3, MigrateClaims
  <2> QED BY <1>1, <2>1 DEF Escrow!EscrowNext
<1>4. ASSUME NEW vault \in TokenAddr, NEW to \in TokenAddr,
             WithdrawUnclaimed(vault, to)
      PROVE  Escrow!EscrowNext
  BY <1>4, WithdrawSettles DEF Escrow!EscrowNext
<1>5. CASE Instruction
  BY <1>2, <1>3, <1>4, <1>5, SetPauseInvisible DEF Instruction
<1>6. CASE TokenWorld
  BY <1>6, TokenWorldDonates
<1>7. CASE Tick
  BY <1>7, TickExpires
<1>8. CASE (\E w \in Custodians : SetUpgradeAuthority(w)) \/ UNCHANGED vars
  <2>1. UNCHANGED <<accounts, config, now>>
    BY <1>8 DEF SetUpgradeAuthority, vars
  <2> QED BY <2>1, EscrowStutters DEF Vault, Expired
<1> QED BY <1>5, <1>6, <1>7, <1>8 DEF Next

\* The program implements the abstract escrow: initialisation funds it, claims
\* and the closeout draw on it, and nothing else in the world takes from it.
THEOREM Refinement == Spec => ImplementsEscrow
<1>1. Init => Escrow!EscrowInit
  BY EscrowStarts
<1>2. IInv /\ IInv' /\ [Next]_vars => [Escrow!EscrowNext]_(Escrow!escrowVars)
  BY EscrowSteps
<1> QED BY <1>1, <1>2, Invariance, PTL
  DEF Spec, ImplementsEscrow, Escrow!EscrowSpec

-----------------------------------------------------------------------------
(* What leaves the reserve *)

LEMMA MigratePaysHolder ==
  ASSUME IInv, NEW user \in Wallets, NEW vault \in TokenAddr,
         NEW from \in TokenAddr, NEW to \in TokenAddr, NEW n \in Amounts,
         MigrateExact(user, vault, from, to, n)
  PROVE  ClaimOutflow(user, from)
<1>1. /\ config.created /\ WindowOpen
      /\ vault = config.reserve_vault
      /\ config' = [config EXCEPT !.total_migrated = @ + n]
      /\ mints' = [mints EXCEPT ![config.source_mint].supply = @ - n]
  BY DEF MigrateExact, MigrateChecks, MigrationGate, VaultPinned, SupplyBurned,
     WindowOpen
<1>2. config \in MigrationConfig
  BY <1>1, EscrowOpen
<1>3. /\ accounts[from].owner = user /\ accounts[to].owner = user
      /\ accounts[vault].owner = VaultAuthority
      /\ accounts[from].mint = config.source_mint
      /\ accounts[to].mint = config.destination_mint
      /\ to = Ata(user, config.destination_mint)
  BY DEF MigrateExact, MigrateChecks, TokenAccountOK, DestinationOK, CustodyOK,
     ReserveOK
<1>4. from # vault /\ to # vault /\ from # to
  BY <1>1, <1>3, AddressAssumption DEF IInv, PairAndVaultSound, PairSound
<1>5. /\ accounts'[from].amount = accounts[from].amount - n
      /\ accounts'[vault].amount = accounts[vault].amount - n
      /\ accounts'[to].amount = accounts[to].amount + n
      /\ accounts'[to].owner = user
  BY <1>3, <1>4 DEF MigrateExact, Transferred, Burned, IInv, TypeOK,
     TokenTypeOK, Account
<1>6. n \in Int /\ accounts[vault].amount \in Int
  BY AddressAssumption DEF IInv, TypeOK, TokenTypeOK, Account, Amounts
<1>7. Outflow = n
  BY <1>1, <1>5, <1>6 DEF Outflow, Vault
<1>8. /\ config'.total_migrated = config.total_migrated + n
      /\ mints'[config.source_mint].supply = mints[config.source_mint].supply - n
  BY <1>1, <1>2 DEF MigrationConfig, IInv, TypeOK, TokenTypeOK, Mint
<1> QED BY <1>1, <1>3, <1>5, <1>7, <1>8 DEF ClaimOutflow

LEMMA WithdrawPaysFunder ==
  ASSUME IInv, NEW vault \in TokenAddr, NEW to \in TokenAddr,
         WithdrawUnclaimed(vault, to)
  PROVE  CloseoutOutflow
<1>1. /\ config.created /\ Expired /\ ~config.paused
      /\ ~config.unclaimed_withdrawn
      /\ vault = config.reserve_vault
      /\ config' = [config EXCEPT !.unclaimed_withdrawn = TRUE]
      /\ to = Ata(config.refund_recipient, config.destination_mint)
      /\ accounts[to].owner = config.refund_recipient
      /\ accounts[vault].owner = VaultAuthority
  BY DEF WithdrawUnclaimed, WithdrawChecks, WithdrawalGate, NotWithdrawn,
     VaultPinned, DestinationOK, CustodyOK, TokenAccountOK, ReserveOK, Expired
<1>2. config \in MigrationConfig
  BY <1>1, EscrowOpen
<1>3. to # vault
  BY <1>1, <1>2, AddressAssumption DEF MigrationConfig
<1>4. /\ accounts'[vault].amount = accounts[vault].amount - accounts[vault].amount
      /\ accounts'[to].amount = accounts[to].amount + accounts[vault].amount
  BY <1>3 DEF WithdrawUnclaimed, CloseoutAmount, Transferred, IInv, TypeOK,
     TokenTypeOK, Account
<1>5. accounts[vault].amount \in Int
  BY AddressAssumption DEF IInv, TypeOK, TokenTypeOK, Account, Amounts
<1>6. Outflow = Vault.amount
  BY <1>1, <1>4, <1>5 DEF Outflow, Vault
<1>7. config'.unclaimed_withdrawn
  BY <1>1, <1>2 DEF MigrationConfig
<1> QED BY <1>1, <1>4, <1>6, <1>7 DEF CloseoutOutflow, Vault

\* Nothing else takes from the reserve or counts a claim.
LEMMA OthersTakeNothing ==
  ASSUME IInv, config.created,
         \/ \E admin \in Wallets, b \in BOOLEAN : SetPause(admin, b)
         \/ TokenWorld
         \/ UNCHANGED <<accounts, config>>
  PROVE  Outflow <= 0 /\ config'.total_migrated = config.total_migrated
<1>1. /\ config \in MigrationConfig /\ config.reserve_vault \in TokenAddr
      /\ Vault.amount \in Int
  BY EscrowOpen DEF MigrationConfig
<1>2. CASE UNCHANGED accounts /\ config'.total_migrated = config.total_migrated
  BY <1>1, <1>2 DEF Outflow, Vault
<1>3. ASSUME NEW admin \in Wallets, NEW b \in BOOLEAN, SetPause(admin, b)
      PROVE  UNCHANGED accounts /\ config'.total_migrated = config.total_migrated
  BY <1>1, <1>3 DEF SetPause, Paused, MigrationConfig
<1>4. CASE TokenWorld
  <2>1. /\ Untouchable(Vault) /\ ~mints[Vault.mint].freezeAuthority
    BY DEF IInv, PairAndVaultSound, VaultSound, PairSound, Strict
  <2>2. accounts'[config.reserve_vault].amount >= Vault.amount
    BY <1>1, <1>4, <2>1, VaultKept DEF Vault, TokenWorld, IInv, TypeOK
  <2>3. accounts'[config.reserve_vault].amount \in Int
    <3>1. TokenTypeOK'
      BY <1>4, NextType DEF IInv, Next, TypeOK
    <3>2. accounts'[config.reserve_vault].amount \in Amounts
      BY <1>1, <3>1 DEF TokenTypeOK, Account
    <3> QED BY <3>2, AddressAssumption DEF Amounts
  <2> QED BY <1>1, <1>4, <2>2, <2>3 DEF Outflow, TokenWorld
<1> QED BY <1>2, <1>3, <1>4

LEMMA OutflowType ==
  ASSUME IInv, [Next]_vars, config.created
  PROVE  Outflow \in Int
<1>1. TypeOK'
  BY NextType DEF IInv
<1>2. /\ Vault.amount \in Int /\ config.reserve_vault \in TokenAddr
  BY EscrowOpen DEF MigrationConfig
<1>3. accounts'[config.reserve_vault].amount \in Amounts
  BY <1>1, <1>2 DEF TypeOK, TokenTypeOK, Account
<1> QED BY <1>2, <1>3, AddressAssumption DEF Outflow, Amounts

LEMMA OutflowStep ==
  ASSUME IInv, [Next]_vars, config.created,
         Outflow > 0 \/ config'.total_migrated # config.total_migrated
  PROVE  \/ \E user \in Wallets, from \in TokenAddr : ClaimOutflow(user, from)
         \/ CloseoutOutflow
<1>1. Outflow \in Int
  BY OutflowType
<1>2. ~ /\ Outflow <= 0
        /\ config'.total_migrated = config.total_migrated
  BY <1>1
<1>3. CASE Instruction
  BY <1>2, <1>3, OthersTakeNothing, MigratePaysHolder, WithdrawPaysFunder
     DEF Instruction, InitializeConfig, ConfigAccountFree
<1>4. CASE TokenWorld
  BY <1>2, <1>4, OthersTakeNothing
<1>5. CASE UNCHANGED <<accounts, config>>
  BY <1>2, <1>5, OthersTakeNothing
<1> QED BY <1>3, <1>4, <1>5 DEF Next, Tick, SetUpgradeAuthority, vars

\* Every unit that leaves the reserve was burned by its holder in the same step
\* and went to that holder, or is part of the one closeout (migrate_exact.rs and
\* withdraw_unclaimed.rs, whatever accounts the caller passes).
THEOREM OutflowAccounted == Spec => ReserveOutflow
<1> DEFINE A ==
      config.created
       /\ (Outflow > 0 \/ config'.total_migrated # config.total_migrated) =>
       \/ \E user \in Wallets, from \in TokenAddr : ClaimOutflow(user, from)
       \/ CloseoutOutflow
<1>1. IInv /\ [Next]_vars => [A]_vars
  BY OutflowStep
<1> QED BY <1>1, Invariance, PTL DEF Spec, ReserveOutflow

-----------------------------------------------------------------------------
(* What the cap covers *)

LEMMA CoverageStep ==
  ASSUME IInv, [Next]_vars, config.created
  PROVE  /\ config'.migration_cap - config'.total_migrated
              - mints'[config.source_mint].supply
            >= Remaining - mints[config.source_mint].supply
         /\ mints'[config.destination_mint].supply
              <= mints[config.destination_mint].supply
<1> DEFINE src == config.source_mint
           dst == config.destination_mint
           Goal == /\ config'.migration_cap - config'.total_migrated
                         - mints'[src].supply >= Remaining - mints[src].supply
                   /\ mints'[dst].supply <= mints[dst].supply
<1>1. /\ config \in MigrationConfig /\ src \in Mints /\ dst \in Mints
      /\ src # dst /\ Strict(src) /\ Strict(dst)
  BY EscrowOpen DEF MigrationConfig, IInv, PairAndVaultSound, PairSound
<1>2. /\ config.migration_cap \in Int /\ config.total_migrated \in Int
      /\ mints[src].supply \in Int /\ mints[dst].supply \in Int
  <2>1. config.migration_cap \in Int /\ config.total_migrated \in Int
    BY EscrowOpen
  <2>2. mints[src].supply \in Amounts /\ mints[dst].supply \in Amounts
    BY <1>1 DEF IInv, TypeOK, TokenTypeOK, Mint
  <2> QED BY <2>1, <2>2, AddressAssumption DEF Amounts
<1>3. CASE /\ UNCHANGED mints
           /\ config'.migration_cap = config.migration_cap
           /\ config'.total_migrated = config.total_migrated
  BY <1>2, <1>3 DEF Remaining
<1>4. ASSUME NEW user \in Wallets, NEW vault \in TokenAddr,
             NEW from \in TokenAddr, NEW to \in TokenAddr, NEW n \in Amounts,
             MigrateExact(user, vault, from, to, n)
      PROVE  Goal
  <2>1. /\ config'.migration_cap = config.migration_cap
        /\ config'.total_migrated = config.total_migrated + n
    BY <1>1, <1>4 DEF MigrateExact, MigrationConfig
  <2>2. /\ mints'[src].supply = mints[src].supply - n
        /\ mints'[dst].supply = mints[dst].supply
    BY <1>1, <1>4 DEF MigrateExact, SupplyBurned, IInv, TypeOK, TokenTypeOK,
                      Mint
  <2>3. n \in Int
    BY AddressAssumption DEF Amounts
  <2> QED BY <1>2, <2>1, <2>2, <2>3 DEF Remaining
<1>5. CASE TokenWorld
  <2>1. /\ mints'[src].supply <= mints[src].supply
        /\ mints'[dst].supply <= mints[dst].supply
    BY <1>1, <1>5, StrictMintKept DEF TokenWorld, IInv, TypeOK
  <2>2. mints'[src].supply \in Int
    <3>1. TokenTypeOK'
      BY <1>5, NextType DEF IInv, Next, TypeOK
    <3>2. mints'[src].supply \in Amounts
      BY <1>1, <3>1 DEF TokenTypeOK, Mint
    <3> QED BY <3>2, AddressAssumption DEF Amounts
  <2> QED BY <1>2, <1>5, <2>1, <2>2 DEF TokenWorld, Remaining
<1>6. ASSUME NEW admin \in Wallets, NEW b \in BOOLEAN, SetPause(admin, b)
      PROVE  Goal
  BY <1>1, <1>3, <1>6 DEF SetPause, Paused, MigrationConfig
<1>7. ASSUME NEW vault \in TokenAddr, NEW to \in TokenAddr,
             WithdrawUnclaimed(vault, to)
      PROVE  Goal
  BY <1>1, <1>3, <1>7 DEF WithdrawUnclaimed, MigrationConfig
<1>8. CASE Instruction
  BY <1>4, <1>6, <1>7, <1>8 DEF Instruction, InitializeConfig, ConfigAccountFree
<1>9. CASE UNCHANGED <<mints, config>>
  BY <1>3, <1>9
<1> QED BY <1>5, <1>8, <1>9 DEF Next, Tick, SetUpgradeAuthority, vars

\* A cap that covers the source supply covers it for good, and the destination
\* supply never grows (the strict mint checks of state.rs at initialisation).
THEOREM CoverageKept == Spec => CoverageStable
<1> DEFINE A ==
      config.created =>
       LET src == config.source_mint
           dst == config.destination_mint
       IN /\ config'.migration_cap - config'.total_migrated
               - mints'[src].supply
             >= Remaining - mints[src].supply
          /\ mints'[dst].supply <= mints[dst].supply
<1>1. IInv /\ [Next]_vars => [A]_vars
  BY CoverageStep
<1> QED BY <1>1, Invariance, PTL DEF Spec, CoverageStable

==============================================================================
