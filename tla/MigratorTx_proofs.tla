-------------------------- MODULE MigratorTx_proofs --------------------------
(***************************************************************************)
(* Theorems about MigratorTx.  An answer "ok" stands for the conditions of *)
(* its checks; a wire keeps its signatures with wallets and its admin with *)
(* a bounded key.  While an instruction is in flight its locks keep what   *)
(* its checks established, and its working copy is what its calls so far   *)
(* make of the accounts it names (TxInv).  So a commit is one step of      *)
(* Migrator, an answer given for good stays the right one, and what the    *)
(* builders build is accepted and completes.                               *)
(***************************************************************************)
EXTENDS MigratorTx, Supply_proofs, SequenceTheorems

-----------------------------------------------------------------------------
(* What it means that all checks pass *)

LEMMA BothOk ==
  ASSUME NEW a, NEW b
  PROVE  (a && b) = "ok" <=> a = "ok" /\ b = "ok"
BY DEF &&

LEMMA CustodyMeans ==
  ASSUME NEW k, NEW m, NEW o
  PROVE  /\ TokenAccountChecks(k, m, o) = "ok" <=>
              k \in TokenAddr /\ TokenAccountOK(accounts[k], m, o)
         /\ CustodyChecks(k, m, o) = "ok" <=>
              k \in TokenAddr /\ CustodyOK(accounts[k], m, o)
         /\ DestinationChecks(k, m, o) = "ok" <=>
              k \in TokenAddr /\ DestinationOK(k, o, m)
<1>1. AccountAt(k).state = "initialized" => k \in TokenAddr /\ TokenOwned(k)
  BY DEF AccountAt, ClosedAccount, TokenOwned
<1>2. k \in TokenAddr => AccountAt(k) = accounts[k]
  BY DEF AccountAt
<1>3. TokenAccountChecks(k, m, o) = "ok" <=>
         /\ TokenOwned(k) /\ k \in TokenAddr
         /\ AccountAt(k).state = "initialized" /\ AccountAt(k).mint = m
         /\ AccountAt(k).owner = o /\ AccountAt(k).mint # NativeMint
  BY DEF TokenAccountChecks, Check, &&
<1>4. CustodyChecks(k, m, o) = "ok" <=>
         /\ TokenAccountChecks(k, m, o) = "ok"
         /\ ~AccountAt(k).delegate /\ ~AccountAt(k).closeAuthority
  BY DEF CustodyChecks, Check, &&
<1>5. DestinationChecks(k, m, o) = "ok" <=>
         CustodyChecks(k, m, o) = "ok" /\ k = Ata(o, m)
  BY DEF DestinationChecks, Check, &&
<1> QED
  BY <1>1, <1>2, <1>3, <1>4, <1>5 DEF TokenAccountOK, CustodyOK, DestinationOK

LEMMA StrictMeans ==
  ASSUME NEW k, NEW error, error # "ok"
  PROVE  StrictMintChecks(k, error) = "ok" <=> k \in Mints /\ StrictMint(k)
<1>1. StrictMint(k) /\ k \in Mints => TokenOwned(k)
  BY DEF StrictMint, TokenOwned
<1>2. StrictMintChecks(k, error) = "ok" <=>
         TokenOwned(k) /\ k \in Mints /\ StrictMint(k)
  BY DEF StrictMintChecks, Check, &&
<1> QED BY <1>1, <1>2

\* Every check of initialize_config has passed.
InitializePassed(ix) ==
  /\ Len(ix.metas) >= 12 /\ ix.length = 24
  /\ Signs(ix, Key(ix, 1)) /\ Signs(ix, Key(ix, 2)) /\ Signs(ix, Key(ix, 3))
  /\ Key(ix, 5) = ConfigPda /\ Key(ix, 6) = VaultAuthority
  /\ Key(ix, 10) = TokenProgramId /\ Key(ix, 12) = ProgramData
  /\ Key(ix, 4) \in TokenAddr /\ Key(ix, 7) \in TokenAddr
  /\ Key(ix, 8) \in Mints /\ Key(ix, 9) \in Mints
  /\ InitializeChecks(Key(ix, 1), Key(ix, 3), Key(ix, 4), Key(ix, 7),
       Key(ix, 8), Key(ix, 9), ix.fields[1], ix.fields[2], ix.fields[3])

LEMMA InitializeMeans ==
  ASSUME NEW ix
  PROVE  InitializeConfigChecks(ix) = "ok" <=> InitializePassed(ix)
<1>1. \A k : k \in TokenAddr => AccountAt(k) = accounts[k]
  BY DEF AccountAt
<1>2. InitializeConfigChecks(ix) = "ok" <=>
       /\ Len(ix.metas) >= 12 /\ ix.length = 24
       /\ Signs(ix, Key(ix, 1)) /\ Signs(ix, Key(ix, 2)) /\ Signs(ix, Key(ix, 3))
       /\ Key(ix, 5) = ConfigPda /\ Key(ix, 6) = VaultAuthority
       /\ Key(ix, 10) = TokenProgramId /\ Key(ix, 12) = ProgramData
       /\ WindowOK(ix.fields[1], ix.fields[2]) /\ ix.fields[3] # 0
       /\ upgradeAuthority = Key(ix, 1)
       /\ Key(ix, 8) # Key(ix, 9)
       /\ StrictMintChecks(Key(ix, 8), "InvalidOldMint") = "ok"
       /\ StrictMintChecks(Key(ix, 9), "InvalidNewMint") = "ok"
       /\ mints[Key(ix, 8)].decimals = mints[Key(ix, 9)].decimals
       /\ CustodyChecks(Key(ix, 4), Key(ix, 9), Key(ix, 3)) = "ok"
       /\ CustodyChecks(Key(ix, 7), Key(ix, 9), VaultAuthority) = "ok"
       /\ AccountAt(Key(ix, 7)).amount = 0
       /\ AccountAt(Key(ix, 4)).amount >= ix.fields[3]
  BY DEF InitializeConfigChecks, InitializeShape, InitializeAddressChecks,
     InitializeReserveChecks, InitializeSigners, Check, &&
<1> QED
  BY <1>1, <1>2, CustodyMeans, StrictMeans DEF InitializePassed, InitializeChecks,
     InitializerIsUpgradeAuthority, MintPairOK, FundingOK

SetPausePassed(ix) ==
  /\ Len(ix.metas) >= 2 /\ ix.length = 1 /\ ix.fields[1] \in {0, 1}
  /\ Signs(ix, Key(ix, 1)) /\ Key(ix, 2) = ConfigPda
  /\ config.created /\ config.admin = Key(ix, 1)

MigratePassed(ix) ==
  /\ Len(ix.metas) >= 9 /\ ix.length = 8
  /\ Signs(ix, Key(ix, 1)) /\ Key(ix, 2) = ConfigPda
  /\ Key(ix, 3) = VaultAuthority /\ Key(ix, 9) = TokenProgramId
  /\ Key(ix, 4) \in TokenAddr /\ Key(ix, 5) \in TokenAddr /\ Key(ix, 6) \in TokenAddr
  /\ Key(ix, 7) = config.source_mint /\ Key(ix, 8) = config.destination_mint
  /\ Key(ix, 7) \in Mints /\ Key(ix, 8) \in Mints
  /\ MigrateChecks(Key(ix, 1), Key(ix, 4), Key(ix, 5), Key(ix, 6), ix.fields[1])

WithdrawPassed(ix) ==
  /\ Len(ix.metas) >= 6 /\ ix.length = 0
  /\ Key(ix, 1) = ConfigPda /\ Key(ix, 2) = VaultAuthority
  /\ Key(ix, 6) = TokenProgramId
  /\ Key(ix, 3) \in TokenAddr /\ Key(ix, 4) \in TokenAddr
  /\ Key(ix, 5) = config.destination_mint /\ Key(ix, 5) \in Mints
  /\ WithdrawChecks(Key(ix, 3), Key(ix, 4))

LEMMA SetPauseMeans ==
  ASSUME NEW ix
  PROVE  (SetPauseShape(ix) && SetPauseChecks(ix)) = "ok" <=> SetPausePassed(ix)
BY DEF SetPauseShape, SetPauseChecks, SetPausePassed, ConfigReadable, Check, &&

LEMMA MigrateMeans ==
  ASSUME NEW ix
  PROVE  (MigrateExactShape(ix) && MigrateExactChecks(ix)) = "ok" <=> MigratePassed(ix)
<1>1. \A k : k \in TokenAddr => AccountAt(k) = accounts[k]
  BY DEF AccountAt
<1>2. MigrateExactShape(ix) = "ok" <=>
       /\ Len(ix.metas) >= 9 /\ ix.length = 8 /\ ix.fields[1] # 0
       /\ Signs(ix, Key(ix, 1)) /\ Key(ix, 2) = ConfigPda
       /\ Key(ix, 3) = VaultAuthority /\ config.created
  BY DEF MigrateExactShape, ConfigReadable, Check, &&
<1>3. GateChecks(config) = "ok" <=>
        MigrationGate(config.paused, config.start_ts, config.end_ts, now)
  BY DEF GateChecks, MigrationGate, Check, &&
<1>4. MigrateExactChecks(ix) = "ok" <=>
       /\ GateChecks(config) = "ok"
       /\ Key(ix, 9) = TokenProgramId
       /\ Key(ix, 4) = config.reserve_vault
       /\ Key(ix, 7) = config.source_mint /\ Key(ix, 8) = config.destination_mint
       /\ StrictMintChecks(config.source_mint, "InvalidOldMint") = "ok"
       /\ StrictMintChecks(config.destination_mint, "InvalidNewMint") = "ok"
       /\ CapAllows(config.total_migrated, ix.fields[1], config.migration_cap)
       /\ CheckedTotal(config.total_migrated, ix.fields[1])
       /\ CustodyChecks(Key(ix, 4), config.destination_mint, VaultAuthority) = "ok"
       /\ TokenAccountChecks(Key(ix, 5), config.source_mint, Key(ix, 1)) = "ok"
       /\ DestinationChecks(Key(ix, 6), config.destination_mint, Key(ix, 1)) = "ok"
       /\ AccountAt(Key(ix, 4)).amount >= ix.fields[1]
  BY ZenonT(120) DEF MigrateExactChecks, Check, &&
<1> QED
  BY <1>1, <1>2, <1>3, <1>4, CustodyMeans, StrictMeans, BothOk
     DEF MigratePassed, MigrateChecks, VaultPinned, ReserveOK

LEMMA WithdrawMeans ==
  ASSUME NEW ix
  PROVE  (WithdrawShape(ix) && WithdrawUnclaimedChecks(ix)) = "ok" <=> WithdrawPassed(ix)
<1>1. \A k : k \in TokenAddr => AccountAt(k) = accounts[k]
  BY DEF AccountAt
<1>2. WithdrawShape(ix) = "ok" <=>
       /\ Len(ix.metas) >= 6 /\ ix.length = 0
       /\ Key(ix, 1) = ConfigPda /\ Key(ix, 2) = VaultAuthority /\ config.created
  BY DEF WithdrawShape, ConfigReadable, Check, &&
<1>3. WithdrawUnclaimedChecks(ix) = "ok" <=>
       /\ ~config.paused /\ WithdrawalGate(config.end_ts, now) /\ NotWithdrawn
       /\ Key(ix, 6) = TokenProgramId
       /\ Key(ix, 3) = config.reserve_vault
       /\ Key(ix, 5) = config.destination_mint
       /\ StrictMintChecks(config.destination_mint, "InvalidNewMint") = "ok"
       /\ CustodyChecks(Key(ix, 3), config.destination_mint, VaultAuthority) = "ok"
       /\ DestinationChecks(Key(ix, 4), config.destination_mint,
                            config.refund_recipient) = "ok"
       /\ AccountAt(Key(ix, 3)).amount # 0
  BY DEF WithdrawUnclaimedChecks, Check, &&
<1> QED
  BY <1>1, <1>2, <1>3, CustodyMeans, StrictMeans, BothOk
     DEF WithdrawPassed, WithdrawChecks, VaultPinned, ReserveOK,
         CloseoutAmount

\* An instruction has passed its checks.
Passed(ix) ==
  \/ ix.tag = 0 /\ InitializePassed(ix)
  \/ ix.tag = 1 /\ SetPausePassed(ix)
  \/ ix.tag = 2 /\ MigratePassed(ix)
  \/ ix.tag = 3 /\ WithdrawPassed(ix)

LEMMA AnswerMeans ==
  ASSUME NEW ix
  PROVE  Answer(ix) = "ok" <=> Passed(ix)
<1>1. \/ ix.tag = 0 \/ ix.tag = 1 \/ ix.tag = 2 \/ ix.tag = 3
      \/ ix.tag \notin {0, 1, 2, 3}
  OBVIOUS
<1> QED
  BY <1>1, InitializeMeans, SetPauseMeans, MigrateMeans, WithdrawMeans
     DEF Answer, Passed

-----------------------------------------------------------------------------
(* The wires *)

Addresses ==
  Wallets \cup TokenAddr \cup Mints \cup Substitutes
    \cup {VaultAuthority, ConfigPda, ProgramData, TokenProgramId, SystemProgramId, Stray}

Metas == [key : Addresses, signer : BOOLEAN, writable : BOOLEAN]

\* Whoever signs has a private key, and the integers are those that were asked
\* for: nothing that a client may do to a wire changes that.
FieldsOK(tag, fields) ==
  /\ tag \in 0 .. 4
  /\ tag = 0 => \E w \in Windows, cap \in Amounts : fields = <<w[1], w[2], cap>>
  /\ tag = 1 => fields \in {<<0>>, <<1>>}
  /\ tag = 2 => \E n \in Amounts : fields = <<n>>
  /\ tag = 3 => fields = <<>>

MetasOK(tag, metas) ==
  /\ metas \in Seq(Metas)
  /\ \A i \in DOMAIN metas : metas[i].signer => metas[i].key \in Wallets
  /\ tag = 0 /\ 2 \in DOMAIN metas => metas[2].key \in Admins \cup Substitutes

WireOK(ix) == FieldsOK(ix.tag, ix.fields) /\ MetasOK(ix.tag, ix.metas)

LEMMA MetaType ==
  ASSUME NEW k \in Addresses, NEW s \in BOOLEAN, NEW w \in BOOLEAN
  PROVE  /\ Meta(k, s, w) \in Metas
         /\ Meta(k, s, w).key = k /\ Meta(k, s, w).signer = s
         /\ Meta(k, s, w).writable = w
BY DEF Meta, Metas

\* What one entry of an account list says.
LEMMA MetaKinds ==
  ASSUME NEW k \in Addresses
  PROVE  /\ Signer(k) \in Metas /\ Signer(k).key = k /\ Signer(k).signer
         /\ Writable(k) \in Metas /\ Writable(k).key = k
         /\ ~Writable(k).signer /\ Writable(k).writable
         /\ ReadOnly(k) \in Metas /\ ReadOnly(k).key = k /\ ~ReadOnly(k).signer
BY MetaType DEF Signer, Writable, ReadOnly

\* The four builders, spelled out.
LEMMA InitializeWire ==
  ASSUME NEW i \in InitializeIntents
  PROVE  WireOf(i) =
           BuildInitializeConfig(i.initializer, i.opsAdmin, i.funder, i.from,
             i.vault, i.src, i.dst, i.startTs, i.endTs, i.cap)
BY DEF InitializeIntents, WireOf

LEMMA PauseWire ==
  ASSUME NEW i \in PauseIntents
  PROVE  WireOf(i) = BuildSetPause(i.admin, i.paused)
BY DEF PauseIntents, WireOf

LEMMA MigrateWire ==
  ASSUME NEW i \in MigrateIntents
  PROVE  WireOf(i) =
           BuildMigrateExact(i.user, i.vault, i.from, i.to, i.src, i.dst, i.n)
BY DEF MigrateIntents, WireOf

LEMMA WithdrawWire ==
  ASSUME NEW i \in WithdrawIntents
  PROVE  WireOf(i) = BuildWithdrawUnclaimed(i.vault, i.to, i.dst)
BY DEF WithdrawIntents, WireOf

\* An account list, entry by entry.
LEMMA TwelveEntries ==
  ASSUME NEW C, NEW a \in C, NEW b \in C, NEW c \in C, NEW d \in C, NEW e \in C,
         NEW f \in C, NEW g \in C, NEW h \in C, NEW i \in C, NEW j \in C,
         NEW k \in C, NEW l \in C
  PROVE  <<a, b, c, d, e, f, g, h, i, j, k, l>> \in Seq(C)
OBVIOUS

IsWire(ix) ==
  ix = [tag |-> ix.tag, length |-> ix.length, fields |-> ix.fields, metas |-> ix.metas]

LEMMA BuiltInitialize ==
  ASSUME NEW i \in InitializeIntents
  PROVE  IsWire(WireOf(i)) /\ WireOK(WireOf(i)) /\ 2 \in DOMAIN WireOf(i).metas
<1> DEFINE metas ==
      << Meta(i.initializer, TRUE, TRUE), Signer(i.opsAdmin), Signer(i.funder),
         Writable(i.from), Writable(ConfigPda), ReadOnly(VaultAuthority),
         Writable(i.vault), ReadOnly(i.src), ReadOnly(i.dst),
         ReadOnly(TokenProgramId), ReadOnly(SystemProgramId),
         ReadOnly(ProgramData) >>
<1>1. WireOf(i) = [tag |-> 0, length |-> 24,
                   fields |-> <<i.startTs, i.endTs, i.cap>>, metas |-> metas]
  BY InitializeWire DEF BuildInitializeConfig, Wire
<1>2. /\ i.initializer \in Wallets /\ i.opsAdmin \in Admins /\ i.funder \in Wallets
      /\ i.from \in TokenAddr /\ i.vault \in TokenAddr /\ i.src \in Mints
      /\ i.dst \in Mints /\ i.cap \in Amounts /\ <<i.startTs, i.endTs>> \in Windows
  BY DEF InitializeIntents
<1>3. /\ i.initializer \in Addresses /\ i.opsAdmin \in Addresses /\ i.funder \in Addresses
      /\ i.from \in Addresses /\ i.vault \in Addresses /\ i.src \in Addresses
      /\ i.dst \in Addresses /\ ConfigPda \in Addresses /\ VaultAuthority \in Addresses
      /\ TokenProgramId \in Addresses /\ SystemProgramId \in Addresses
      /\ ProgramData \in Addresses
  BY <1>2, MigratorAssumption DEF Addresses
<1>4. /\ metas[1] = Meta(i.initializer, TRUE, TRUE) /\ metas[2] = Signer(i.opsAdmin)
      /\ metas[3] = Signer(i.funder) /\ metas[4] = Writable(i.from)
      /\ metas[5] = Writable(ConfigPda) /\ metas[6] = ReadOnly(VaultAuthority)
      /\ metas[7] = Writable(i.vault) /\ metas[8] = ReadOnly(i.src)
      /\ metas[9] = ReadOnly(i.dst) /\ metas[10] = ReadOnly(TokenProgramId)
      /\ metas[11] = ReadOnly(SystemProgramId) /\ metas[12] = ReadOnly(ProgramData)
      /\ DOMAIN metas = 1 .. 12 /\ Len(metas) = 12
  OBVIOUS
<1>5. metas \in Seq(Metas)
  <2>1. /\ Meta(i.initializer, TRUE, TRUE) \in Metas
        /\ Signer(i.opsAdmin) \in Metas /\ Signer(i.funder) \in Metas
        /\ Writable(i.from) \in Metas /\ Writable(ConfigPda) \in Metas
        /\ ReadOnly(VaultAuthority) \in Metas /\ Writable(i.vault) \in Metas
        /\ ReadOnly(i.src) \in Metas /\ ReadOnly(i.dst) \in Metas
        /\ ReadOnly(TokenProgramId) \in Metas /\ ReadOnly(SystemProgramId) \in Metas
        /\ ReadOnly(ProgramData) \in Metas
    BY <1>3, MetaType, MetaKinds
  <2> QED BY <2>1, TwelveEntries
<1> HIDE DEF metas
<1>6. \A j \in 1 .. 12 : metas[j].signer => metas[j].key \in Wallets
  <2>1. metas[1].key = i.initializer
    BY <1>4 DEF Meta
  <2>2. metas[2].key = i.opsAdmin /\ metas[3].key = i.funder
    BY <1>3, <1>4, MetaKinds
  <2>3. /\ ~metas[4].signer /\ ~metas[5].signer /\ ~metas[6].signer
        /\ ~metas[7].signer /\ ~metas[8].signer /\ ~metas[9].signer
        /\ ~metas[10].signer /\ ~metas[11].signer /\ ~metas[12].signer
    BY <1>3, <1>4, MetaKinds
  <2> QED BY <1>2, <2>1, <2>2, <2>3, MigratorAssumption
<1>7. metas[2].key = i.opsAdmin
  BY <1>3, <1>4, MetaKinds
<1>8. MetasOK(0, metas)
  BY <1>2, <1>4, <1>5, <1>6, <1>7 DEF MetasOK
<1>9. FieldsOK(0, <<i.startTs, i.endTs, i.cap>>)
  BY <1>2 DEF FieldsOK
<1> QED BY <1>1, <1>4, <1>8, <1>9 DEF IsWire, WireOK

LEMMA BuiltPause ==
  ASSUME NEW i \in PauseIntents
  PROVE  IsWire(WireOf(i)) /\ WireOK(WireOf(i)) /\ WireOf(i).tag # 0
<1> DEFINE metas == << Signer(i.admin), Writable(ConfigPda) >>
<1>1. WireOf(i) = [tag |-> 1, length |-> 1, fields |-> <<Flag(i.paused)>>, metas |-> metas]
  BY PauseWire DEF BuildSetPause, Wire
<1>2. i.admin \in Wallets /\ i.admin \in Addresses /\ ConfigPda \in Addresses
  BY DEF PauseIntents, Addresses
<1>3. Signer(i.admin) \in Metas /\ Writable(ConfigPda) \in Metas
  BY <1>2, MetaKinds
<1>4. /\ metas \in Seq(Metas) /\ DOMAIN metas = 1 .. 2
      /\ metas[1] = Signer(i.admin) /\ metas[2] = Writable(ConfigPda)
  BY <1>3
<1> HIDE DEF metas
<1>5. \A j \in 1 .. 2 : metas[j].signer => metas[j].key \in Wallets
  <2>1. metas[1].key = i.admin /\ ~metas[2].signer
    BY <1>2, <1>4, MetaKinds
  <2> QED BY <1>2, <2>1
<1>6. MetasOK(1, metas)
  BY <1>4, <1>5 DEF MetasOK
<1>7. FieldsOK(1, <<Flag(i.paused)>>)
  BY DEF FieldsOK, Flag
<1> QED BY <1>1, <1>6, <1>7 DEF IsWire, WireOK

LEMMA BuiltMigrate ==
  ASSUME NEW i \in MigrateIntents
  PROVE  IsWire(WireOf(i)) /\ WireOK(WireOf(i)) /\ WireOf(i).tag # 0
<1> DEFINE metas ==
      << Signer(i.user), Writable(ConfigPda), ReadOnly(VaultAuthority),
         Writable(i.vault), Writable(i.from), Writable(i.to), Writable(i.src),
         ReadOnly(i.dst), ReadOnly(TokenProgramId) >>
<1>1. WireOf(i) = [tag |-> 2, length |-> 8, fields |-> <<i.n>>, metas |-> metas]
  BY MigrateWire DEF BuildMigrateExact, Wire
<1>2. /\ i.user \in Wallets /\ i.vault \in TokenAddr /\ i.from \in TokenAddr
      /\ i.to \in TokenAddr /\ i.src \in Mints /\ i.dst \in Mints /\ i.n \in Amounts
  BY DEF MigrateIntents
<1>3. /\ i.user \in Addresses /\ i.vault \in Addresses /\ i.from \in Addresses
      /\ i.to \in Addresses /\ i.src \in Addresses /\ i.dst \in Addresses
      /\ ConfigPda \in Addresses /\ VaultAuthority \in Addresses
      /\ TokenProgramId \in Addresses
  BY <1>2 DEF Addresses
<1>4. /\ metas[1] = Signer(i.user) /\ metas[2] = Writable(ConfigPda)
      /\ metas[3] = ReadOnly(VaultAuthority) /\ metas[4] = Writable(i.vault)
      /\ metas[5] = Writable(i.from) /\ metas[6] = Writable(i.to)
      /\ metas[7] = Writable(i.src) /\ metas[8] = ReadOnly(i.dst)
      /\ metas[9] = ReadOnly(TokenProgramId) /\ DOMAIN metas = 1 .. 9
  OBVIOUS
<1>5. metas \in Seq(Metas)
  <2>1. /\ Signer(i.user) \in Metas /\ Writable(ConfigPda) \in Metas
        /\ ReadOnly(VaultAuthority) \in Metas /\ Writable(i.vault) \in Metas
        /\ Writable(i.from) \in Metas /\ Writable(i.to) \in Metas
        /\ Writable(i.src) \in Metas /\ ReadOnly(i.dst) \in Metas
        /\ ReadOnly(TokenProgramId) \in Metas
    BY <1>3, MetaKinds
  <2> QED BY <2>1
<1> HIDE DEF metas
<1>6. \A j \in 1 .. 9 : metas[j].signer => metas[j].key \in Wallets
  <2>1. metas[1].key = i.user
    BY <1>3, <1>4, MetaKinds
  <2>2. /\ ~metas[2].signer /\ ~metas[3].signer /\ ~metas[4].signer
        /\ ~metas[5].signer /\ ~metas[6].signer /\ ~metas[7].signer
        /\ ~metas[8].signer /\ ~metas[9].signer
    BY <1>3, <1>4, MetaKinds
  <2> QED BY <1>2, <2>1, <2>2
<1>7. MetasOK(2, metas)
  BY <1>4, <1>5, <1>6 DEF MetasOK
<1>8. FieldsOK(2, <<i.n>>)
  BY <1>2 DEF FieldsOK
<1> QED BY <1>1, <1>7, <1>8 DEF IsWire, WireOK

LEMMA BuiltWithdraw ==
  ASSUME NEW i \in WithdrawIntents
  PROVE  IsWire(WireOf(i)) /\ WireOK(WireOf(i)) /\ WireOf(i).tag # 0
<1> DEFINE metas ==
      << Writable(ConfigPda), ReadOnly(VaultAuthority), Writable(i.vault),
         Writable(i.to), ReadOnly(i.dst), ReadOnly(TokenProgramId) >>
<1>1. WireOf(i) = [tag |-> 3, length |-> 0, fields |-> <<>>, metas |-> metas]
  BY WithdrawWire DEF BuildWithdrawUnclaimed, Wire
<1>2. /\ i.vault \in Addresses /\ i.to \in Addresses /\ i.dst \in Addresses
      /\ ConfigPda \in Addresses /\ VaultAuthority \in Addresses
      /\ TokenProgramId \in Addresses
  BY DEF WithdrawIntents, Addresses
<1>3. /\ metas[1] = Writable(ConfigPda) /\ metas[2] = ReadOnly(VaultAuthority)
      /\ metas[3] = Writable(i.vault) /\ metas[4] = Writable(i.to)
      /\ metas[5] = ReadOnly(i.dst) /\ metas[6] = ReadOnly(TokenProgramId)
      /\ DOMAIN metas = 1 .. 6
  OBVIOUS
<1>4. metas \in Seq(Metas)
  <2>1. /\ Writable(ConfigPda) \in Metas /\ ReadOnly(VaultAuthority) \in Metas
        /\ Writable(i.vault) \in Metas /\ Writable(i.to) \in Metas
        /\ ReadOnly(i.dst) \in Metas /\ ReadOnly(TokenProgramId) \in Metas
    BY <1>2, MetaKinds
  <2> QED BY <2>1
<1> HIDE DEF metas
<1>5. \A j \in 1 .. 6 : ~metas[j].signer
  <2>1. /\ ~metas[1].signer /\ ~metas[2].signer /\ ~metas[3].signer
        /\ ~metas[4].signer /\ ~metas[5].signer /\ ~metas[6].signer
    BY <1>2, <1>3, MetaKinds
  <2> QED BY <2>1
<1>6. MetasOK(3, metas)
  BY <1>3, <1>4, <1>5 DEF MetasOK
<1>7. FieldsOK(3, <<>>)
  BY DEF FieldsOK
<1> QED BY <1>1, <1>6, <1>7 DEF IsWire, WireOK

\* An alteration of the account list leaves signatures with wallets and the
\* ops admin inside the bounds.
LEMMA EntryChanged ==
  ASSUME NEW tag, NEW metas, MetasOK(tag, metas), NEW i \in DOMAIN metas, NEW m \in Metas,
         m.signer => m.key \in Wallets,
         m.key = metas[i].key \/ m.key \in Substitutes
  PROVE  MetasOK(tag, [metas EXCEPT ![i] = m])
<1> DEFINE new == [metas EXCEPT ![i] = m]
<1>1. metas \in Seq(Metas) /\ i \in 1 .. Len(metas) /\ DOMAIN metas = 1 .. Len(metas)
  BY LenProperties DEF MetasOK
<1>2. new \in Seq(Metas)
  BY <1>1, ExceptSeq
<1>3. DOMAIN new = DOMAIN metas /\ \A j \in DOMAIN metas : new[j] = IF j = i THEN m ELSE metas[j]
  OBVIOUS
<1> HIDE DEF new
<1> QED BY <1>2, <1>3 DEF MetasOK, new

LEMMA ListShortened ==
  ASSUME NEW tag, NEW metas, MetasOK(tag, metas)
  PROVE  MetasOK(tag, Front(metas))
<1>1. /\ metas \in Seq(Metas) /\ DOMAIN metas = 1 .. Len(metas) /\ Len(metas) \in Nat
      /\ \A i \in 1 .. Len(metas) - 1 : metas[i] \in Metas
  BY LenProperties, ElementOfSeq DEF MetasOK
<1>2. /\ Front(metas) \in Seq(Metas)
      /\ Len(Front(metas)) = IF 1 <= Len(metas) - 1 THEN Len(metas) - 1 ELSE 0
      /\ \A i \in 1 .. Len(metas) - 1 : Front(metas)[i] = metas[i]
  BY <1>1, SubSeqProperties DEF Front
<1>3. DOMAIN Front(metas) = 1 .. Len(Front(metas))
  BY <1>2, LenProperties
<1>4. \A i \in DOMAIN Front(metas) : i \in DOMAIN metas /\ Front(metas)[i] = metas[i]
  <2> SUFFICES ASSUME NEW i \in DOMAIN Front(metas)
               PROVE  i \in DOMAIN metas /\ Front(metas)[i] = metas[i]
    OBVIOUS
  <2> DEFINE n == Len(metas)
  <2>1. n \in Nat /\ i \in 1 .. (IF 1 <= n - 1 THEN n - 1 ELSE 0)
    BY <1>1, <1>2, <1>3
  <2> HIDE DEF n
  <2>2. i \in 1 .. n - 1 /\ i \in 1 .. n
    BY <2>1
  <2> QED BY <1>1, <1>2, <2>2 DEF n
<1> QED BY <1>2, <1>4 DEF MetasOK

LEMMA ListExtended ==
  ASSUME NEW tag, NEW metas, MetasOK(tag, metas), NEW m \in Metas,
         ~m.signer, m.key = Stray, tag = 0 => 2 \in DOMAIN metas
  PROVE  MetasOK(tag, Append(metas, m))
<1>1. metas \in Seq(Metas) /\ DOMAIN metas = 1 .. Len(metas) /\ Len(metas) \in Nat
  BY LenProperties DEF MetasOK
<1>2. /\ Append(metas, m) \in Seq(Metas)
      /\ Len(Append(metas, m)) = Len(metas) + 1
      /\ \A i \in 1 .. Len(metas) : Append(metas, m)[i] = metas[i]
      /\ Append(metas, m)[Len(metas) + 1] = m
  BY <1>1, AppendProperties
<1>3. DOMAIN Append(metas, m) = 1 .. Len(metas) + 1
  BY <1>2, LenProperties
<1>4. \A i \in DOMAIN Append(metas, m) :
        \/ i \in DOMAIN metas /\ Append(metas, m)[i] = metas[i]
        \/ Append(metas, m)[i] = m
  BY <1>1, <1>2, <1>3
<1>5. \A i \in DOMAIN metas : Append(metas, m)[i] = metas[i]
  BY <1>1, <1>2
<1> DEFINE new == Append(metas, m)
<1>6. new \in Seq(Metas)
  BY <1>2
<1> HIDE DEF new
<1>7. \A i \in DOMAIN new : new[i].signer => new[i].key \in Wallets
  BY <1>4 DEF MetasOK, new
<1>8. tag = 0 => new[2].key \in Admins \cup Substitutes
  BY <1>5 DEF MetasOK, new
<1> QED BY <1>6, <1>7, <1>8 DEF MetasOK, new

LEMMA BuiltOK ==
  ASSUME NEW i \in Intents
  PROVE  /\ IsWire(WireOf(i)) /\ WireOK(WireOf(i))
         /\ WireOf(i).tag = 0 => 2 \in DOMAIN WireOf(i).metas
<1>1. \/ i \in InitializeIntents \/ i \in PauseIntents
      \/ i \in MigrateIntents \/ i \in WithdrawIntents
  BY TxAssumption
<1> QED BY <1>1, BuiltInitialize, BuiltPause, BuiltMigrate, BuiltWithdraw

LEMMA ReplacedOK ==
  ASSUME NEW ix, IsWire(ix), WireOK(ix), NEW i \in DOMAIN ix.metas, NEW k, NEW s, NEW w,
         s \in BOOLEAN, w \in BOOLEAN, s => k \in Wallets,
         k = ix.metas[i].key \/ k \in Substitutes
  PROVE  WireOK(Replaced(ix, i, Meta(k, s, w)))
<1>1. FieldsOK(ix.tag, ix.fields) /\ MetasOK(ix.tag, ix.metas)
  BY DEF WireOK
<1>2. k \in Addresses
  <2>1. ix.metas[i] \in Metas
    BY <1>1 DEF MetasOK
  <2> QED BY <2>1 DEF Metas, Addresses
<1> DEFINE m == Meta(k, s, w)
<1>3. m \in Metas /\ m.key = k /\ m.signer = s
  BY <1>2, MetaType
<1> HIDE DEF m
<1>4. MetasOK(ix.tag, [ix.metas EXCEPT ![i] = m])
  BY <1>1, <1>3, EntryChanged
<1>5. /\ Replaced(ix, i, m).tag = ix.tag /\ Replaced(ix, i, m).fields = ix.fields
      /\ Replaced(ix, i, m).metas = [ix.metas EXCEPT ![i] = m]
  BY DEF Replaced, IsWire
<1>6. WireOK(Replaced(ix, i, m))
  BY <1>1, <1>4, <1>5 DEF WireOK
<1> QED BY <1>6 DEF m

LEMMA MisshapenOK ==
  ASSUME NEW ix, IsWire(ix), WireOK(ix), ix.tag = 0 => 2 \in DOMAIN ix.metas,
         NEW jx \in Misshapen(ix)
  PROVE  WireOK(jx)
<1>1. FieldsOK(ix.tag, ix.fields) /\ MetasOK(ix.tag, ix.metas)
  BY DEF WireOK
<1>2. ASSUME NEW m, MetasOK(ix.tag, m), jx = [ix EXCEPT !.metas = m]
      PROVE  WireOK(jx)
  <2>1. jx.tag = ix.tag /\ jx.fields = ix.fields /\ jx.metas = m
    BY <1>2 DEF IsWire
  <2> QED BY <1>1, <1>2, <2>1 DEF WireOK
<1>3. CASE jx = [ix EXCEPT !.metas = Front(ix.metas)]
  BY <1>1, <1>2, <1>3, ListShortened
<1>4. CASE jx = [ix EXCEPT !.metas = Append(ix.metas, ReadOnly(Stray))]
  <2>1. /\ ReadOnly(Stray) \in Metas /\ ReadOnly(Stray).key = Stray
        /\ ~ReadOnly(Stray).signer
    BY MetaKinds DEF Addresses
  <2> QED BY <1>1, <1>2, <1>4, <2>1, ListExtended
<1>5. CASE jx = [ix EXCEPT !.length = ix.length + 1]
  <2>1. jx.tag = ix.tag /\ jx.fields = ix.fields /\ jx.metas = ix.metas
    BY <1>5 DEF IsWire
  <2> QED BY <1>1, <2>1 DEF WireOK
<1>6. CASE jx = [ix EXCEPT !.tag = 4]
  <2>1. jx.tag = 4 /\ jx.metas = ix.metas
    BY <1>6 DEF IsWire
  <2> QED BY <1>1, <2>1 DEF WireOK, FieldsOK, MetasOK
<1> QED BY <1>3, <1>4, <1>5, <1>6, Zenon DEF Misshapen

LEMMA AlteredOK ==
  ASSUME NEW ix, IsWire(ix), WireOK(ix), ix.tag = 0 => 2 \in DOMAIN ix.metas,
         NEW jx \in Altered(ix)
  PROVE  WireOK(jx)
<1>1. \A i \in DOMAIN ix.metas :
        /\ ix.metas[i].signer \in BOOLEAN /\ ix.metas[i].writable \in BOOLEAN
        /\ ix.metas[i].signer => ix.metas[i].key \in Wallets
  <2>1. \A i \in DOMAIN ix.metas : ix.metas[i] \in Metas
    BY DEF WireOK, MetasOK
  <2> QED BY <2>1 DEF WireOK, MetasOK, Metas
<1>2. ASSUME NEW i \in DOMAIN ix.metas,
             jx = Replaced(ix, i, Meta(ix.metas[i].key, FALSE, ix.metas[i].writable))
      PROVE  WireOK(jx)
  <2> DEFINE s == FALSE
  <2>1. s \in BOOLEAN /\ ~s
    OBVIOUS
  <2>2. jx = Replaced(ix, i, Meta(ix.metas[i].key, s, ix.metas[i].writable))
    BY <1>2
  <2> HIDE DEF s
  <2> QED BY <1>1, <2>1, <2>2, ReplacedOK
<1>3. ASSUME NEW i \in DOMAIN ix.metas,
             jx = Replaced(ix, i, Meta(ix.metas[i].key, ix.metas[i].signer, FALSE))
      PROVE  WireOK(jx)
  <2> DEFINE w == FALSE
  <2>1. w \in BOOLEAN
    OBVIOUS
  <2>2. jx = Replaced(ix, i, Meta(ix.metas[i].key, ix.metas[i].signer, w))
    BY <1>3
  <2> HIDE DEF w
  <2> QED BY <1>1, <2>1, <2>2, ReplacedOK
<1>4. ASSUME NEW i \in DOMAIN ix.metas, NEW k \in Substitutes,
             jx = Replaced(ix, i, Meta(k, ix.metas[i].signer /\ k \in Wallets,
                                       ix.metas[i].writable))
      PROVE  WireOK(jx)
  <2> DEFINE s == ix.metas[i].signer /\ k \in Wallets
  <2>1. s \in BOOLEAN /\ (s => k \in Wallets)
    OBVIOUS
  <2>2. jx = Replaced(ix, i, Meta(k, s, ix.metas[i].writable))
    BY <1>4
  <2> HIDE DEF s
  <2> QED BY <1>1, <2>1, <2>2, ReplacedOK
<1>5. CASE jx \in FlagDropped(ix)
  BY <1>2, <1>3, <1>5, Zenon DEF FlagDropped
<1>6. CASE jx \in KeyExchanged(ix)
  <2>1. PICK i \in DOMAIN ix.metas, k \in Substitutes :
          jx = Replaced(ix, i, Meta(k, ix.metas[i].signer /\ k \in Wallets,
                                    ix.metas[i].writable))
    BY <1>6 DEF KeyExchanged
  <2> QED BY <1>4, <2>1
<1>7. CASE jx \in Misshapen(ix)
  BY <1>7, MisshapenOK
<1> QED BY <1>5, <1>6, <1>7 DEF Altered

\* What every instruction in flight has in common.
LEMMA WiresOK == \A ix \in Wires : WireOK(ix)
<1> SUFFICES ASSUME NEW ix \in Wires PROVE WireOK(ix)
  OBVIOUS
<1>1. CASE \E i \in Intents : ix = WireOf(i)
  BY <1>1, BuiltOK
<1>2. CASE \E i \in Intents : ix \in Altered(WireOf(i))
  BY <1>2, BuiltOK, AlteredOK
<1> QED BY <1>1, <1>2 DEF Wires

-----------------------------------------------------------------------------
(* Who is named and who has signed *)

LEMMA KeysNamed ==
  ASSUME NEW ix, WireOK(ix), NEW i \in Nat, 1 <= i, i <= Len(ix.metas)
  PROVE  Names(ix, Key(ix, i))
<1>1. i \in DOMAIN ix.metas
  BY LenProperties DEF WireOK, MetasOK
<1> QED BY <1>1 DEF Names, Key

LEMMA SignersAreWallets ==
  ASSUME NEW ix, WireOK(ix), NEW k, Signs(ix, k)
  PROVE  k \in Wallets
BY DEF WireOK, MetasOK, Signs

LEMMA AdminIsAdmin ==
  ASSUME NEW ix, WireOK(ix), ix.tag = 0, Len(ix.metas) >= 12,
         Signs(ix, Key(ix, 2))
  PROVE  Key(ix, 2) \in Admins
<1>1. 2 \in DOMAIN ix.metas
  BY LenProperties DEF WireOK, MetasOK
<1>2. Key(ix, 2) = ix.metas[2].key
  BY <1>1 DEF Key
<1>3. ix.metas[2].key \in Admins \cup Substitutes
  BY <1>1 DEF WireOK, MetasOK
<1> QED BY <1>2, <1>3, SignersAreWallets, TxAssumption

\* What the types are of what an instruction that has passed its checks names.
LEMMA PassedInitialize ==
  ASSUME NEW ix, WireOK(ix), ix.tag = 0, InitializePassed(ix)
  PROVE  /\ Key(ix, 1) \in Wallets /\ Key(ix, 2) \in Admins /\ Key(ix, 3) \in Wallets
         /\ Key(ix, 4) \in TokenAddr /\ Key(ix, 7) \in TokenAddr
         /\ Key(ix, 8) \in Mints /\ Key(ix, 9) \in Mints
         /\ <<ix.fields[1], ix.fields[2]>> \in Windows /\ ix.fields[3] \in Amounts
         /\ \A i \in {4, 7, 8, 9, 12} : Names(ix, Key(ix, i))
<1>1. <<ix.fields[1], ix.fields[2]>> \in Windows /\ ix.fields[3] \in Amounts
  <2>1. PICK w \in Windows, cap \in Amounts : ix.fields = <<w[1], w[2], cap>>
    BY DEF WireOK, FieldsOK
  <2>2. w = <<w[1], w[2]>>
    BY MigratorAssumption
  <2> QED BY <2>1, <2>2
<1>2. /\ Signs(ix, Key(ix, 1)) /\ Signs(ix, Key(ix, 2)) /\ Signs(ix, Key(ix, 3))
      /\ Len(ix.metas) >= 12
      /\ Key(ix, 4) \in TokenAddr /\ Key(ix, 7) \in TokenAddr
      /\ Key(ix, 8) \in Mints /\ Key(ix, 9) \in Mints
  BY DEF InitializePassed
<1>3. Len(ix.metas) \in Nat
  BY LenProperties DEF WireOK, MetasOK
<1>4. \A i \in {4, 7, 8, 9, 12} : Names(ix, Key(ix, i))
  <2> SUFFICES ASSUME NEW i \in {4, 7, 8, 9, 12} PROVE Names(ix, Key(ix, i))
    OBVIOUS
  <2>1. i \in Nat /\ 1 <= i /\ i <= Len(ix.metas)
    BY <1>2, <1>3
  <2> QED BY <2>1, KeysNamed
<1> QED BY <1>1, <1>2, <1>4, SignersAreWallets, AdminIsAdmin

LEMMA PassedSetPause ==
  ASSUME NEW ix, WireOK(ix), ix.tag = 1, SetPausePassed(ix)
  PROVE  Key(ix, 1) \in Wallets /\ Key(ix, 1) = config.admin /\ config.created
BY SignersAreWallets DEF SetPausePassed

LEMMA PassedMigrate ==
  ASSUME NEW ix, WireOK(ix), ix.tag = 2, MigratePassed(ix)
  PROVE  /\ Key(ix, 1) \in Wallets
         /\ Key(ix, 4) \in TokenAddr /\ Key(ix, 5) \in TokenAddr
         /\ Key(ix, 6) \in TokenAddr
         /\ Key(ix, 7) \in Mints /\ Key(ix, 8) \in Mints
         /\ Key(ix, 7) = config.source_mint /\ Key(ix, 8) = config.destination_mint
         /\ ix.fields[1] \in Amounts /\ config.created
         /\ \A i \in {4, 5, 6, 7, 8} : Names(ix, Key(ix, i))
<1>1. ix.fields[1] \in Amounts
  BY DEF WireOK, FieldsOK
<1>2. /\ Signs(ix, Key(ix, 1)) /\ Len(ix.metas) >= 9
      /\ Key(ix, 4) \in TokenAddr /\ Key(ix, 5) \in TokenAddr
      /\ Key(ix, 6) \in TokenAddr
      /\ Key(ix, 7) \in Mints /\ Key(ix, 8) \in Mints
      /\ Key(ix, 7) = config.source_mint /\ Key(ix, 8) = config.destination_mint
      /\ config.created
  BY DEF MigratePassed, MigrateChecks
<1>3. Len(ix.metas) \in Nat
  BY LenProperties DEF WireOK, MetasOK
<1>4. \A i \in {4, 5, 6, 7, 8} : Names(ix, Key(ix, i))
  <2> SUFFICES ASSUME NEW i \in {4, 5, 6, 7, 8} PROVE Names(ix, Key(ix, i))
    OBVIOUS
  <2>1. i \in Nat /\ 1 <= i /\ i <= Len(ix.metas)
    BY <1>2, <1>3
  <2> QED BY <2>1, KeysNamed
<1> QED BY <1>1, <1>2, <1>4, SignersAreWallets

LEMMA PassedWithdraw ==
  ASSUME NEW ix, WireOK(ix), ix.tag = 3, WithdrawPassed(ix)
  PROVE  /\ Key(ix, 3) \in TokenAddr /\ Key(ix, 4) \in TokenAddr
         /\ Key(ix, 5) \in Mints /\ Key(ix, 5) = config.destination_mint
         /\ config.created
         /\ \A i \in {3, 4, 5} : Names(ix, Key(ix, i))
<1>2. /\ Len(ix.metas) >= 6
      /\ Key(ix, 3) \in TokenAddr /\ Key(ix, 4) \in TokenAddr
      /\ Key(ix, 5) \in Mints /\ Key(ix, 5) = config.destination_mint
      /\ config.created
  BY DEF WithdrawPassed, WithdrawChecks
<1>3. Len(ix.metas) \in Nat
  BY LenProperties DEF WireOK, MetasOK
<1>4. \A i \in {3, 4, 5} : Names(ix, Key(ix, i))
  <2> SUFFICES ASSUME NEW i \in {3, 4, 5} PROVE Names(ix, Key(ix, i))
    OBVIOUS
  <2>1. i \in Nat /\ 1 <= i /\ i <= Len(ix.metas)
    BY <1>2, <1>3
  <2> QED BY <2>1, KeysNamed
<1> QED BY <1>2, <1>4

-----------------------------------------------------------------------------
(* What the calls make of given accounts and mints *)

After(pc, ix, ac) ==
  CASE pc = "store terms" ->
         Transferred(ac, Key(ix, 4), Key(ix, 7), ix.fields[3])
    [] pc = "pay" -> Burned(ac, Key(ix, 5), ix.fields[1])
    [] pc = "count" ->
         Transferred(Burned(ac, Key(ix, 5), ix.fields[1]),
                     Key(ix, 4), Key(ix, 6), ix.fields[1])
    [] pc = "close out" ->
         Transferred(ac, Key(ix, 3), Key(ix, 4), ac[Key(ix, 3)].amount)
    [] OTHER -> ac

MintsAfter(pc, ix, ms) ==
  IF pc \in {"pay", "count"} THEN SupplyBurned(ms, Key(ix, 7), ix.fields[1]) ELSE ms

LEMMA SoFarIsAfter ==
  /\ AccountsSoFar = After(tx.pc, tx.ix, accounts)
  /\ AccountsSoFar' = After(tx'.pc, tx'.ix, accounts')
  /\ MintsSoFar = MintsAfter(tx.pc, tx.ix, mints)
  /\ MintsSoFar' = MintsAfter(tx'.pc, tx'.ix, mints')
<1>1. AccountsSoFar = After(tx.pc, tx.ix, accounts)
  BY DEF AccountsSoFar, After, CloseoutAmount
<1>2. AccountsSoFar' = After(tx'.pc, tx'.ix, accounts')
  BY DEF AccountsSoFar, After, CloseoutAmount
<1>3. MintsSoFar = MintsAfter(tx.pc, tx.ix, mints)
  BY DEF MintsSoFar, MintsAfter
<1>4. MintsSoFar' = MintsAfter(tx'.pc, tx'.ix, mints')
  BY DEF MintsSoFar, MintsAfter
<1> QED BY <1>1, <1>2, <1>3, <1>4

\* A transfer and a burn look at the two accounts, and change no other.
LEMMA TransferredAt ==
  ASSUME NEW ac, NEW bc, ac = [a \in TokenAddr |-> ac[a]],
         bc = [a \in TokenAddr |-> bc[a]],
         NEW from \in TokenAddr, NEW to \in TokenAddr, NEW n,
         NEW a \in TokenAddr, ac[a] = bc[a]
  PROVE  /\ Transferred(ac, from, to, n)[a] = Transferred(bc, from, to, n)[a]
         /\ a # from /\ a # to => Transferred(ac, from, to, n)[a] = ac[a]
         /\ Transferred(ac, from, to, n)
              = [b \in TokenAddr |-> Transferred(ac, from, to, n)[b]]
BY DEF Transferred

LEMMA BurnedAt ==
  ASSUME NEW ac, NEW bc, ac = [a \in TokenAddr |-> ac[a]],
         bc = [a \in TokenAddr |-> bc[a]],
         NEW from \in TokenAddr, NEW n, NEW a \in TokenAddr, ac[a] = bc[a]
  PROVE  /\ Burned(ac, from, n)[a] = Burned(bc, from, n)[a]
         /\ a # from => Burned(ac, from, n)[a] = ac[a]
         /\ Burned(ac, from, n) = [b \in TokenAddr |-> Burned(ac, from, n)[b]]
         /\ Burned(bc, from, n) = [b \in TokenAddr |-> Burned(bc, from, n)[b]]
BY DEF Burned

LEMMA SupplyBurnedAt ==
  ASSUME NEW ms \in [Mints -> Mint], NEW ns \in [Mints -> Mint],
         NEW k \in Mints, NEW n, NEW m \in Mints, ms[m] = ns[m]
  PROVE  /\ SupplyBurned(ms, k, n)[m] = SupplyBurned(ns, k, n)[m]
         /\ m # k => SupplyBurned(ms, k, n)[m] = ms[m]
BY DEF SupplyBurned

LEMMA AfterNamed ==
  ASSUME NEW ix, WireOK(ix), Passed(ix), NEW pc, Fits(pc, ix.tag),
         NEW ac \in [TokenAddr -> Account], NEW bc \in [TokenAddr -> Account],
         \A a \in TokenAddr : Names(ix, a) => ac[a] = bc[a]
  PROVE  /\ \A a \in TokenAddr :
              Names(ix, a) => After(pc, ix, ac)[a] = After(pc, ix, bc)[a]
         /\ \A a \in TokenAddr : ~Names(ix, a) => After(pc, ix, ac)[a] = ac[a]
         /\ After(pc, ix, ac) = [a \in TokenAddr |-> After(pc, ix, ac)[a]]
<1>1. CASE pc = "store terms"
  <2>1. ix.tag = 0
    BY <1>1 DEF Fits
  <2>2. /\ Key(ix, 4) \in TokenAddr /\ Key(ix, 7) \in TokenAddr
        /\ Names(ix, Key(ix, 4)) /\ Names(ix, Key(ix, 7))
    <3>1. InitializePassed(ix)
      BY <2>1 DEF Passed
    <3> QED BY <2>1, <3>1, PassedInitialize
  <2>3. \A cc : After(pc, ix, cc) = Transferred(cc, Key(ix, 4), Key(ix, 7), ix.fields[3])
    BY <1>1 DEF After
  <2>4. \A a \in TokenAddr : ~Names(ix, a) => a # Key(ix, 4) /\ a # Key(ix, 7)
    BY <2>2
  <2>5. Transferred(ac, Key(ix, 4), Key(ix, 7), ix.fields[3])
          = [a \in TokenAddr |-> Transferred(ac, Key(ix, 4), Key(ix, 7), ix.fields[3])[a]]
    BY <2>2 DEF Transferred
  <2> QED BY <2>2, <2>3, <2>4, <2>5, TransferredAt
<1>2. CASE pc = "pay"
  <2>1. ix.tag = 2
    BY <1>2 DEF Fits
  <2>2. Key(ix, 5) \in TokenAddr /\ Names(ix, Key(ix, 5))
    BY <2>1, PassedMigrate DEF Passed
  <2>3. \A cc : After(pc, ix, cc) = Burned(cc, Key(ix, 5), ix.fields[1])
    BY <1>2 DEF After
  <2>4. Burned(ac, Key(ix, 5), ix.fields[1])
          = [a \in TokenAddr |-> Burned(ac, Key(ix, 5), ix.fields[1])[a]]
    BY <2>2 DEF Burned
  <2> QED BY <2>2, <2>3, <2>4, BurnedAt
<1>3. CASE pc = "count"
  <2>1. ix.tag = 2
    BY <1>3 DEF Fits
  <2>2. /\ Key(ix, 4) \in TokenAddr /\ Key(ix, 5) \in TokenAddr
        /\ Key(ix, 6) \in TokenAddr /\ Names(ix, Key(ix, 4))
        /\ Names(ix, Key(ix, 5)) /\ Names(ix, Key(ix, 6))
    BY <2>1, PassedMigrate DEF Passed
  <2>3. \A cc : After(pc, ix, cc) =
           Transferred(Burned(cc, Key(ix, 5), ix.fields[1]),
                       Key(ix, 4), Key(ix, 6), ix.fields[1])
    BY <1>3 DEF After
  <2> DEFINE ab == Burned(ac, Key(ix, 5), ix.fields[1])
             bb == Burned(bc, Key(ix, 5), ix.fields[1])
  <2>4. /\ ab = [a \in TokenAddr |-> ab[a]] /\ bb = [a \in TokenAddr |-> bb[a]]
        /\ \A a \in TokenAddr : Names(ix, a) => ab[a] = bb[a]
        /\ \A a \in TokenAddr : ~Names(ix, a) => ab[a] = ac[a]
    BY <2>2, BurnedAt
  <2>5. /\ After(pc, ix, ac) = Transferred(ab, Key(ix, 4), Key(ix, 6), ix.fields[1])
        /\ After(pc, ix, bc) = Transferred(bb, Key(ix, 4), Key(ix, 6), ix.fields[1])
    BY <2>3
  <2>6. \A a \in TokenAddr : ~Names(ix, a) => a # Key(ix, 4) /\ a # Key(ix, 6)
    BY <2>2
  <2> DEFINE n == ix.fields[1]
  <2> HIDE DEF ab, bb, n
  <2>7. /\ \A a \in TokenAddr : Names(ix, a) =>
             Transferred(ab, Key(ix, 4), Key(ix, 6), n)[a]
               = Transferred(bb, Key(ix, 4), Key(ix, 6), n)[a]
        /\ \A a \in TokenAddr : ~Names(ix, a) =>
             Transferred(ab, Key(ix, 4), Key(ix, 6), n)[a] = ab[a]
    BY SMTT(30), <2>2, <2>4, <2>6, TransferredAt
  <2>8. Transferred(ab, Key(ix, 4), Key(ix, 6), n)
          = [a \in TokenAddr |-> Transferred(ab, Key(ix, 4), Key(ix, 6), n)[a]]
    BY <2>2, <2>4 DEF Transferred
  <2> QED BY <2>4, <2>5, <2>7, <2>8 DEF n
<1>4. CASE pc = "close out"
  <2>1. ix.tag = 3
    BY <1>4 DEF Fits
  <2>2. /\ Key(ix, 3) \in TokenAddr /\ Key(ix, 4) \in TokenAddr
        /\ Names(ix, Key(ix, 3)) /\ Names(ix, Key(ix, 4))
    BY <2>1, PassedWithdraw DEF Passed
  <2>3. \A cc : After(pc, ix, cc) =
           Transferred(cc, Key(ix, 3), Key(ix, 4), cc[Key(ix, 3)].amount)
    BY <1>4 DEF After
  <2>4. ac[Key(ix, 3)].amount = bc[Key(ix, 3)].amount
    BY <2>2
  <2>5. \A a \in TokenAddr : ~Names(ix, a) => a # Key(ix, 3) /\ a # Key(ix, 4)
    BY <2>2
  <2>6. Transferred(ac, Key(ix, 3), Key(ix, 4), ac[Key(ix, 3)].amount)
          = [a \in TokenAddr |->
               Transferred(ac, Key(ix, 3), Key(ix, 4), ac[Key(ix, 3)].amount)[a]]
    BY <2>2 DEF Transferred
  <2> QED BY SMTT(30), <2>2, <2>3, <2>4, <2>5, <2>6, TransferredAt
<1>5. CASE pc \notin {"store terms", "pay", "count", "close out"}
  <2>1. \A cc : After(pc, ix, cc) = cc
    BY <1>5 DEF After
  <2> QED BY <2>1
<1> QED BY <1>1, <1>2, <1>3, <1>4, <1>5

LEMMA MintsAfterNamed ==
  ASSUME NEW ix, WireOK(ix), Passed(ix), NEW pc, Fits(pc, ix.tag),
         NEW ms \in [Mints -> Mint], NEW ns \in [Mints -> Mint],
         \A m \in Mints : Names(ix, m) => ms[m] = ns[m]
  PROVE  /\ \A m \in Mints :
              Names(ix, m) => MintsAfter(pc, ix, ms)[m] = MintsAfter(pc, ix, ns)[m]
         /\ \A m \in Mints : ~Names(ix, m) => MintsAfter(pc, ix, ms)[m] = ms[m]
         /\ MintsAfter(pc, ix, ms) = [m \in Mints |-> MintsAfter(pc, ix, ms)[m]]
<1>1. CASE pc \in {"pay", "count"}
  <2>1. ix.tag = 2
    BY <1>1 DEF Fits
  <2>2. Key(ix, 7) \in Mints /\ Names(ix, Key(ix, 7))
    BY <2>1, PassedMigrate DEF Passed
  <2>3. \A os : MintsAfter(pc, ix, os) = SupplyBurned(os, Key(ix, 7), ix.fields[1])
    BY <1>1 DEF MintsAfter
  <2>4. SupplyBurned(ms, Key(ix, 7), ix.fields[1])
          = [m \in Mints |-> SupplyBurned(ms, Key(ix, 7), ix.fields[1])[m]]
    BY <2>2 DEF SupplyBurned
  <2> QED BY <2>2, <2>3, <2>4, SupplyBurnedAt
<1>2. CASE pc \notin {"pay", "count"}
  <2>1. \A os : MintsAfter(pc, ix, os) = os
    BY <1>2 DEF MintsAfter
  <2> QED BY <2>1
<1> QED BY <1>1, <1>2

-----------------------------------------------------------------------------
(* The locks: what others do meanwhile *)

LEMMA PassedStays ==
  ASSUME NEW ix, WireOK(ix), Passed(ix), config' = config, now' = now,
         \A k \in TokenAddr : Names(ix, k) => accounts'[k] = accounts[k],
         \A k \in Mints : Names(ix, k) => mints'[k] = mints[k],
         Names(ix, ProgramData) => upgradeAuthority' = upgradeAuthority
  PROVE  Passed(ix)'
<1>1. CASE ix.tag = 0 /\ InitializePassed(ix)
  <2>1. /\ Key(ix, 4) \in TokenAddr /\ Key(ix, 7) \in TokenAddr
        /\ Key(ix, 8) \in Mints /\ Key(ix, 9) \in Mints
        /\ Names(ix, Key(ix, 4)) /\ Names(ix, Key(ix, 7)) /\ Names(ix, Key(ix, 8))
        /\ Names(ix, Key(ix, 9)) /\ Names(ix, Key(ix, 12))
    BY <1>1, PassedInitialize
  <2>2. Key(ix, 12) = ProgramData
    BY <1>1 DEF InitializePassed
  <2>3. /\ accounts'[Key(ix, 4)] = accounts[Key(ix, 4)]
        /\ accounts'[Key(ix, 7)] = accounts[Key(ix, 7)]
        /\ mints'[Key(ix, 8)] = mints[Key(ix, 8)]
        /\ mints'[Key(ix, 9)] = mints[Key(ix, 9)]
        /\ upgradeAuthority' = upgradeAuthority
    BY <2>1, <2>2
  <2>4. InitializePassed(ix)'
    BY <1>1, <2>3 DEF InitializePassed, InitializeChecks, WindowOK,
       InitializerIsUpgradeAuthority, MintPairOK, StrictMint, FundingOK,
       CustodyOK,
       TokenAccountOK
  <2> QED BY <1>1, <2>4 DEF Passed
<1>2. CASE ix.tag = 1 /\ SetPausePassed(ix)
  <2>1. SetPausePassed(ix)'
    BY <1>2 DEF SetPausePassed
  <2> QED BY <1>2, <2>1 DEF Passed
<1>3. CASE ix.tag = 2 /\ MigratePassed(ix)
  <2>1. /\ Key(ix, 4) \in TokenAddr /\ Key(ix, 5) \in TokenAddr
        /\ Key(ix, 6) \in TokenAddr /\ Key(ix, 7) \in Mints /\ Key(ix, 8) \in Mints
        /\ Names(ix, Key(ix, 4)) /\ Names(ix, Key(ix, 5)) /\ Names(ix, Key(ix, 6))
        /\ Names(ix, Key(ix, 7)) /\ Names(ix, Key(ix, 8))
        /\ Key(ix, 7) = config.source_mint /\ Key(ix, 8) = config.destination_mint
    BY <1>3, PassedMigrate
  <2>2. /\ accounts'[Key(ix, 4)] = accounts[Key(ix, 4)]
        /\ accounts'[Key(ix, 5)] = accounts[Key(ix, 5)]
        /\ accounts'[Key(ix, 6)] = accounts[Key(ix, 6)]
        /\ mints'[config.source_mint] = mints[config.source_mint]
        /\ mints'[config.destination_mint] = mints[config.destination_mint]
    BY <2>1
  <2>3. MigratePassed(ix)'
    BY <1>3, <2>2 DEF MigratePassed, MigrateChecks, MigrationGate, VaultPinned,
       StrictMint, CapAllows, CheckedTotal, ReserveOK, DestinationOK, CustodyOK,
       TokenAccountOK
  <2> QED BY <1>3, <2>3 DEF Passed
<1>4. CASE ix.tag = 3 /\ WithdrawPassed(ix)
  <2>1. /\ Key(ix, 3) \in TokenAddr /\ Key(ix, 4) \in TokenAddr
        /\ Key(ix, 5) \in Mints
        /\ Names(ix, Key(ix, 3)) /\ Names(ix, Key(ix, 4)) /\ Names(ix, Key(ix, 5))
        /\ Key(ix, 5) = config.destination_mint
    BY <1>4, PassedWithdraw
  <2>2. /\ accounts'[Key(ix, 3)] = accounts[Key(ix, 3)]
        /\ accounts'[Key(ix, 4)] = accounts[Key(ix, 4)]
        /\ mints'[config.destination_mint] = mints[config.destination_mint]
    BY <2>1
  <2>3. WithdrawPassed(ix)'
    BY <1>4, <2>2 DEF WithdrawPassed, WithdrawChecks, WithdrawalGate,
                      NotWithdrawn,
       VaultPinned, StrictMint, ReserveOK, DestinationOK, CustodyOK,
       TokenAccountOK, CloseoutAmount
  <2> QED BY <1>4, <2>3 DEF Passed
<1> QED BY <1>1, <1>2, <1>3, <1>4 DEF Passed

LEMMA AnswerMeansNext ==
  (\A ix : Answer(ix) = "ok" <=> Passed(ix))'
<1>1. \A ix : Answer(ix) = "ok" <=> Passed(ix)
  BY AnswerMeans
<1> QED BY <1>1, PTL

LEMMA LocksMean ==
  ASSUME tx # Idle, LocksHeld
  PROVE  /\ \A k \in TokenAddr : Names(tx.ix, k) => accounts'[k] = accounts[k]
         /\ \A k \in Mints : Names(tx.ix, k) => mints'[k] = mints[k]
         /\ Names(tx.ix, ProgramData) => upgradeAuthority' = upgradeAuthority
BY DEF LocksHeld, Names

\* Where an instruction stands says which handler runs.
LEMMA PassedWhere ==
  ASSUME NEW ix, Passed(ix), NEW pc, Fits(pc, ix.tag)
  PROVE  /\ pc \in {"create", "fund", "store terms"} =>
              ix.tag = 0 /\ InitializePassed(ix)
         /\ pc = "store pause" => ix.tag = 1 /\ SetPausePassed(ix)
         /\ pc \in {"burn", "pay", "count"} => ix.tag = 2 /\ MigratePassed(ix)
         /\ pc \in {"sweep", "close out"} => ix.tag = 3 /\ WithdrawPassed(ix)
<1>1. /\ pc \in {"create", "fund", "store terms"} => ix.tag = 0
      /\ pc = "store pause" => ix.tag = 1
      /\ pc \in {"burn", "pay", "count"} => ix.tag = 2
      /\ pc \in {"sweep", "close out"} => ix.tag = 3
  BY DEF Fits
<1>2. /\ ix.tag = 0 => InitializePassed(ix)
      /\ ix.tag = 1 => SetPausePassed(ix)
      /\ ix.tag = 2 => MigratePassed(ix)
      /\ ix.tag = 3 => WithdrawPassed(ix)
  BY DEF Passed
<1> QED BY <1>1, <1>2

LEMMA CallsStay ==
  ASSUME NEW ix, WireOK(ix), Passed(ix), ix = tx.ix, tx' = tx,
         Fits(tx.pc, ix.tag), config' = config, CallsStillOK,
         accounts \in [TokenAddr -> Account], accounts' \in [TokenAddr -> Account],
         \A k \in TokenAddr : Names(ix, k) => accounts'[k] = accounts[k],
         \A k \in Mints : Names(ix, k) => mints'[k] = mints[k]
  PROVE  CallsStillOK'
<1> DEFINE n == ix.fields[1]
<1>1. CASE tx.pc = "fund"
  BY <1>1 DEF CallsStillOK, ConfigAccountFree
<1>2. CASE tx.pc = "store terms"
  <2>1. ix.tag = 0 /\ InitializePassed(ix)
    BY <1>2, PassedWhere
  <2>2. /\ accounts'[Key(ix, 4)] = accounts[Key(ix, 4)]
        /\ accounts'[Key(ix, 7)] = accounts[Key(ix, 7)]
    BY <2>1, PassedInitialize
  <2>3. TransferOK(accounts, Key(ix, 4), Key(ix, 7), ix.fields[3])
    BY <1>2 DEF CallsStillOK
  <2>4. TransferOK(accounts', Key(ix, 4), Key(ix, 7), ix.fields[3])
    BY <2>2, <2>3 DEF TransferOK
  <2>5. ConfigAccountFree'
    BY <1>2 DEF CallsStillOK, ConfigAccountFree
  <2> QED BY <1>2, <2>4, <2>5 DEF CallsStillOK
<1>3. CASE tx.pc \in {"pay", "count"}
  <2>1. ix.tag = 2 /\ MigratePassed(ix)
    BY <1>3, PassedWhere
  <2>2. /\ Key(ix, 4) \in TokenAddr /\ Key(ix, 5) \in TokenAddr
        /\ Key(ix, 6) \in TokenAddr /\ Key(ix, 7) \in Mints
        /\ accounts'[Key(ix, 4)] = accounts[Key(ix, 4)]
        /\ accounts'[Key(ix, 5)] = accounts[Key(ix, 5)]
        /\ accounts'[Key(ix, 6)] = accounts[Key(ix, 6)]
        /\ mints'[Key(ix, 7)] = mints[Key(ix, 7)]
        /\ Key(ix, 7) = config.source_mint
    BY <2>1, PassedMigrate
  <2>3. BurnOK(accounts, mints, Key(ix, 5), Key(ix, 7), n)
    BY <1>3, <2>2 DEF CallsStillOK, MigrateCallsOK
  <2>4. BurnOK(accounts', mints', Key(ix, 5), Key(ix, 7), n)
    BY <2>2, <2>3 DEF BurnOK
  <2>5. CASE tx.pc = "pay"
    BY <2>4, <2>5 DEF CallsStillOK
  <2>6. CASE tx.pc = "count"
    <3> DEFINE ab == Burned(accounts, Key(ix, 5), n)
               bb == Burned(accounts', Key(ix, 5), n)
    <3>1. TransferOK(ab, Key(ix, 4), Key(ix, 6), n)
      BY <2>6 DEF CallsStillOK, MigrateCallsOK
    <3>2. ab[Key(ix, 4)] = bb[Key(ix, 4)] /\ ab[Key(ix, 6)] = bb[Key(ix, 6)]
      BY <2>2 DEF Burned
    <3> HIDE DEF ab, bb
    <3>3. TransferOK(bb, Key(ix, 4), Key(ix, 6), n)
      BY <3>1, <3>2 DEF TransferOK
    <3>4. MigrateCallsOK(Key(ix, 4), Key(ix, 5), Key(ix, 6), n)'
      BY <2>2, <2>4, <3>3 DEF MigrateCallsOK, bb
    <3> QED BY <2>6, <3>4 DEF CallsStillOK
  <2> QED BY <1>3, <2>5, <2>6
<1>4. CASE tx.pc = "close out"
  <2>1. ix.tag = 3 /\ WithdrawPassed(ix)
    BY <1>4, PassedWhere
  <2>2. /\ accounts'[Key(ix, 3)] = accounts[Key(ix, 3)]
        /\ accounts'[Key(ix, 4)] = accounts[Key(ix, 4)]
    BY <2>1, PassedWithdraw
  <2>3. WithdrawCallsOK(Key(ix, 3), Key(ix, 4))
    BY <1>4 DEF CallsStillOK
  <2>4. WithdrawCallsOK(Key(ix, 3), Key(ix, 4))'
    BY <2>2, <2>3 DEF WithdrawCallsOK, TransferOK, CloseoutAmount
  <2> QED BY <1>4, <2>4 DEF CallsStillOK
<1>5. CASE tx.pc \notin {"fund", "store terms", "pay", "count", "close out"}
  BY <1>5 DEF CallsStillOK
<1> QED BY <1>1, <1>2, <1>3, <1>4, <1>5

\* While the locks hold, the working copy stays sound.
LEMMA LocksKeep ==
  ASSUME TypeOK, TypeOK', TxInv, LocksHeld,
         UNCHANGED txVars, config' = config, now' = now
  PROVE  TxInv'
<1>1. /\ tx' = tx /\ lamports' = lamports /\ told' = told
      /\ config' = config /\ now' = now
  BY DEF txVars
<1>2. TxTypeOK'
  BY <1>1 DEF TxInv, TxTypeOK
<1>3. ToldTrue'
  BY <1>1 DEF TxInv, ToldTrue, Expired, Remaining
<1>4. WorkingCopySound'
  <2> SUFFICES ASSUME tx # Idle
               PROVE  /\ (Answer(tx.ix) = "ok" /\ CallsStillOK)'
                      /\ tx'.config = config' /\ tx'.read = config'
                      /\ \A a \in TokenAddr : Names(tx.ix, a) =>
                            tx.accounts[a] = AccountsSoFar'[a]
                      /\ \A m \in Mints : Names(tx.ix, m) =>
                            tx.mints[m] = MintsSoFar'[m]
    BY <1>1 DEF WorkingCopySound
  <2>1. PICK ix \in Wires : ix = tx.ix /\ Fits(tx.pc, ix.tag)
    BY DEF TxInv, TxTypeOK, InFlight
  <2>2. WireOK(ix)
    BY <2>1, WiresOK
  <2>3. Passed(ix)
    BY <2>1, AnswerMeans DEF TxInv, WorkingCopySound
  <2>4. /\ \A k \in TokenAddr : Names(ix, k) => accounts'[k] = accounts[k]
        /\ \A k \in Mints : Names(ix, k) => mints'[k] = mints[k]
        /\ Names(ix, ProgramData) => upgradeAuthority' = upgradeAuthority
    BY <2>1, LocksMean
  <2>5. Passed(ix)'
    BY <1>1, <2>2, <2>3, <2>4, PassedStays
  <2>6. Answer(tx.ix)' = "ok"
    BY <1>1, <2>1, <2>5, AnswerMeansNext
  <2>7. /\ accounts \in [TokenAddr -> Account] /\ accounts' \in [TokenAddr -> Account]
        /\ mints \in [Mints -> Mint] /\ mints' \in [Mints -> Mint]
    BY DEF TypeOK, TokenTypeOK
  <2>8. \A a \in TokenAddr : Names(tx.ix, a) => AccountsSoFar'[a] = AccountsSoFar[a]
    BY <1>1, <2>1, <2>2, <2>3, <2>4, <2>7, AfterNamed, SoFarIsAfter
  <2>9. \A m \in Mints : Names(tx.ix, m) => MintsSoFar'[m] = MintsSoFar[m]
    BY <1>1, <2>1, <2>2, <2>3, <2>4, <2>7, MintsAfterNamed, SoFarIsAfter
  <2>10. CallsStillOK'
    BY <1>1, <2>1, <2>2, <2>3, <2>4, <2>7, CallsStay DEF TxInv, WorkingCopySound
  <2> QED BY <1>1, <2>1, <2>6, <2>8, <2>9, <2>10 DEF TxInv, WorkingCopySound
<1> QED BY <1>2, <1>3, <1>4 DEF TxInv

-----------------------------------------------------------------------------
(* The commit *)

\* What is known of an instruction in flight.
LEMMA FlightFacts ==
  ASSUME TxInv, tx # Idle
  PROVE  \E ix \in Wires :
           /\ ix = tx.ix /\ WireOK(ix) /\ Fits(tx.pc, ix.tag) /\ Passed(ix)
           /\ tx.config = config /\ tx.read = config /\ CallsStillOK
           /\ tx.accounts \in [TokenAddr -> Account] /\ tx.mints \in [Mints -> Mint]
           /\ \A a \in TokenAddr :
                Names(ix, a) => tx.accounts[a] = After(tx.pc, ix, accounts)[a]
           /\ \A m \in Mints :
                Names(ix, m) => tx.mints[m] = MintsAfter(tx.pc, ix, mints)[m]
<1>1. PICK ix \in Wires : ix = tx.ix
  BY DEF TxInv, TxTypeOK, InFlight
<1>2. WireOK(ix)
  BY <1>1, WiresOK
<1>3. Fits(tx.pc, ix.tag)
  BY <1>1 DEF TxInv, TxTypeOK
<1>4. Passed(ix)
  BY <1>1, AnswerMeans DEF TxInv, WorkingCopySound
<1>5. tx.config = config /\ tx.read = config /\ CallsStillOK
  BY DEF TxInv, WorkingCopySound
<1>6. tx.accounts \in [TokenAddr -> Account] /\ tx.mints \in [Mints -> Mint]
  BY DEF TxInv, TxTypeOK, InFlight
<1>7. /\ \A a \in TokenAddr :
           Names(ix, a) => tx.accounts[a] = After(tx.pc, ix, accounts)[a]
      /\ \A m \in Mints :
           Names(ix, m) => tx.mints[m] = MintsAfter(tx.pc, ix, mints)[m]
  BY <1>1, SoFarIsAfter DEF TxInv, WorkingCopySound
<1> QED BY <1>1, <1>2, <1>3, <1>4, <1>5, <1>6, <1>7

\* What a commit makes of everything.
LEMMA CommitMeans ==
  ASSUME TypeOK, TxInv, Commit
  PROVE  /\ tx # Idle
         /\ tx.pc \in {"store terms", "store pause", "count", "close out"}
         /\ \E ix \in Wires :
              /\ ix = tx.ix /\ WireOK(ix) /\ Fits(tx.pc, ix.tag) /\ Passed(ix)
              /\ tx.config = config /\ tx.read = config /\ CallsStillOK
              /\ accounts' = After(tx.pc, ix, accounts)
              /\ mints' = MintsAfter(tx.pc, ix, mints)
              /\ config' = StoredConfigAfter(ix)
              /\ UNCHANGED <<now, upgradeAuthority>>
<1>1. tx # Idle /\ tx.pc \in {"store terms", "store pause", "count", "close out"}
  <2>1. tx.pc \in {"store terms", "store pause", "count", "close out"}
    BY DEF Commit, AtStore
  <2>2. Idle.pc = "idle"
    BY DEF Idle
  <2> QED BY <2>1, <2>2
<1>2. PICK ix \in Wires :
        /\ ix = tx.ix /\ WireOK(ix) /\ Fits(tx.pc, ix.tag) /\ Passed(ix)
        /\ tx.config = config /\ tx.read = config /\ CallsStillOK
        /\ \A a \in TokenAddr :
             Names(ix, a) => tx.accounts[a] = After(tx.pc, ix, accounts)[a]
        /\ \A m \in Mints :
             Names(ix, m) => tx.mints[m] = MintsAfter(tx.pc, ix, mints)[m]
  BY <1>1, FlightFacts
<1>3. /\ accounts \in [TokenAddr -> Account] /\ mints \in [Mints -> Mint]
  BY DEF TypeOK, TokenTypeOK
<1>4. accounts' = After(tx.pc, ix, accounts)
  <2>1. accounts' = [a \in TokenAddr |->
           IF Names(ix, a) THEN tx.accounts[a] ELSE accounts[a]]
    BY <1>2 DEF Commit
  <2>2. \A a \in TokenAddr :
           (IF Names(ix, a) THEN tx.accounts[a] ELSE accounts[a])
             = After(tx.pc, ix, accounts)[a]
    BY <1>2, <1>3, AfterNamed
  <2>3. After(tx.pc, ix, accounts) = [a \in TokenAddr |-> After(tx.pc, ix, accounts)[a]]
    BY <1>2, <1>3, AfterNamed
  <2> QED BY <2>1, <2>2, <2>3
<1>5. mints' = MintsAfter(tx.pc, ix, mints)
  <2>1. mints' = [m \in Mints |->
           IF Names(ix, m) THEN tx.mints[m] ELSE mints[m]]
    BY <1>2 DEF Commit
  <2>2. \A m \in Mints :
           (IF Names(ix, m) THEN tx.mints[m] ELSE mints[m])
             = MintsAfter(tx.pc, ix, mints)[m]
    BY <1>2, <1>3, MintsAfterNamed
  <2>3. MintsAfter(tx.pc, ix, mints)
          = [m \in Mints |-> MintsAfter(tx.pc, ix, mints)[m]]
    BY <1>2, <1>3, MintsAfterNamed
  <2> QED BY <2>1, <2>2, <2>3
<1>6. config' = StoredConfigAfter(ix) /\ UNCHANGED <<now, upgradeAuthority>>
  BY <1>2 DEF Commit
<1> QED BY <1>1, <1>2, <1>4, <1>5, <1>6

LEMMA CommitIsInstruction ==
  ASSUME TypeOK, TxInv, Commit
  PROVE  Instruction
<1>1. tx.pc \in {"store terms", "store pause", "count", "close out"}
  BY CommitMeans
<1>2. PICK ix \in Wires :
        /\ ix = tx.ix /\ WireOK(ix) /\ Fits(tx.pc, ix.tag) /\ Passed(ix)
        /\ tx.config = config /\ tx.read = config /\ CallsStillOK
        /\ accounts' = After(tx.pc, ix, accounts)
        /\ mints' = MintsAfter(tx.pc, ix, mints)
        /\ config' = StoredConfigAfter(ix)
        /\ UNCHANGED <<now, upgradeAuthority>>
  BY CommitMeans
<1>3. /\ accounts \in [TokenAddr -> Account] /\ mints \in [Mints -> Mint]
  BY DEF TypeOK, TokenTypeOK
<1>4. accounts' = After(tx.pc, ix, accounts)
  BY <1>2
<1>5. mints' = MintsAfter(tx.pc, ix, mints)
  BY <1>2
<1>6. config' = StoredConfigAfter(ix) /\ UNCHANGED <<now, upgradeAuthority>>
  BY <1>2
<1>7. CASE tx.pc = "store terms"
  <2> DEFINE w == <<ix.fields[1], ix.fields[2]>>
  <2>1. ix.tag = 0 /\ InitializePassed(ix)
    BY <1>2, <1>7, PassedWhere
  <2>2. /\ Key(ix, 1) \in Wallets /\ Key(ix, 2) \in Admins /\ Key(ix, 3) \in Wallets
        /\ Key(ix, 4) \in TokenAddr /\ Key(ix, 7) \in TokenAddr
        /\ Key(ix, 8) \in Mints /\ Key(ix, 9) \in Mints
        /\ w \in Windows /\ ix.fields[3] \in Amounts
    BY <1>2, <2>1, PassedInitialize
  <2>3. accounts' = Transferred(accounts, Key(ix, 4), Key(ix, 7), ix.fields[3])
    BY <1>4, <1>7 DEF After
  <2>4. mints' = mints
    BY <1>5, <1>7 DEF MintsAfter
  <2>5. config' = InitialConfig(Key(ix, 2), Key(ix, 3), Key(ix, 7), Key(ix, 8),
                                Key(ix, 9), w[1], w[2], ix.fields[3])
    BY <1>6, <1>7 DEF StoredConfigAfter
  <2>6. /\ ConfigAccountFree
        /\ TransferOK(accounts, Key(ix, 4), Key(ix, 7), ix.fields[3])
    BY <1>2, <1>7 DEF CallsStillOK
  <2>7. InitializeChecks(Key(ix, 1), Key(ix, 3), Key(ix, 4), Key(ix, 7),
          Key(ix, 8), Key(ix, 9), w[1], w[2], ix.fields[3])
    BY <2>1 DEF InitializePassed
  <2>8. InitializeConfig(Key(ix, 1), Key(ix, 2), Key(ix, 3), Key(ix, 4), Key(ix, 7),
          Key(ix, 8), Key(ix, 9), w[1], w[2], ix.fields[3])
    BY <1>6, <2>3, <2>4, <2>5, <2>6, <2>7 DEF InitializeConfig
  <2> HIDE DEF w
  <2>9. \E initializer, funder \in Wallets, opsAdmin \in Admins,
          from, vault \in TokenAddr, src, dst \in Mints, v \in Windows,
          cap \in Amounts :
          InitializeConfig(initializer, opsAdmin, funder, from, vault, src, dst,
                           v[1], v[2], cap)
    BY <2>2, <2>8
  <2> QED BY <2>9 DEF Instruction
<1>8. CASE tx.pc = "store pause"
  <2>1. ix.tag = 1 /\ SetPausePassed(ix)
    BY <1>2, <1>8, PassedWhere
  <2>2. Key(ix, 1) \in Wallets /\ Key(ix, 1) = config.admin /\ config.created
    BY <1>2, <2>1, PassedSetPause
  <2>3. accounts' = accounts /\ mints' = mints
    BY <1>4, <1>5, <1>8 DEF After, MintsAfter
  <2> DEFINE b == ix.fields[1] = 1
  <2>4. config' = Paused(b)
    BY <1>2, <1>6, <1>8 DEF StoredConfigAfter, Paused
  <2>5. b \in BOOLEAN
    OBVIOUS
  <2> HIDE DEF b
  <2>6. SetPause(Key(ix, 1), b)
    BY <1>6, <2>2, <2>3, <2>4 DEF SetPause
  <2> QED BY <2>2, <2>5, <2>6 DEF Instruction
<1>9. CASE tx.pc = "count"
  <2> DEFINE n == ix.fields[1]
  <2>1. ix.tag = 2 /\ MigratePassed(ix)
    BY <1>2, <1>9, PassedWhere
  <2>2. /\ Key(ix, 1) \in Wallets
        /\ Key(ix, 4) \in TokenAddr /\ Key(ix, 5) \in TokenAddr
        /\ Key(ix, 6) \in TokenAddr /\ n \in Amounts
        /\ Key(ix, 7) = config.source_mint
    BY <1>2, <2>1, PassedMigrate
  <2>3. accounts' = Transferred(Burned(accounts, Key(ix, 5), n),
                                Key(ix, 4), Key(ix, 6), n)
    BY <1>4, <1>9 DEF After
  <2>4. mints' = SupplyBurned(mints, config.source_mint, n)
    BY <1>5, <1>9, <2>2 DEF MintsAfter
  <2>5. config' = [config EXCEPT !.total_migrated = @ + n]
    BY <1>2, <1>6, <1>9 DEF StoredConfigAfter, StoredTotal
  <2>6. MigrateChecks(Key(ix, 1), Key(ix, 4), Key(ix, 5), Key(ix, 6), n)
    BY <2>1 DEF MigratePassed
  <2>7. MigrateCallsOK(Key(ix, 4), Key(ix, 5), Key(ix, 6), n)
    BY <1>2, <1>9 DEF CallsStillOK
  <2> HIDE DEF n
  <2>8. MigrateExact(Key(ix, 1), Key(ix, 4), Key(ix, 5), Key(ix, 6), n)
    BY <1>6, <2>3, <2>4, <2>5, <2>6, <2>7 DEF MigrateExact
  <2> QED BY <2>2, <2>8 DEF Instruction
<1>10. CASE tx.pc = "close out"
  <2>1. ix.tag = 3 /\ WithdrawPassed(ix)
    BY <1>2, <1>10, PassedWhere
  <2>2. Key(ix, 3) \in TokenAddr /\ Key(ix, 4) \in TokenAddr
    BY <1>2, <2>1, PassedWithdraw
  <2>3. accounts' = Transferred(accounts, Key(ix, 3), Key(ix, 4),
                                CloseoutAmount(Key(ix, 3)))
    BY <1>4, <1>10 DEF After, CloseoutAmount
  <2>4. mints' = mints
    BY <1>5, <1>10 DEF MintsAfter
  <2>5. config' = [config EXCEPT !.unclaimed_withdrawn = TRUE]
    BY <1>2, <1>6, <1>10 DEF StoredConfigAfter, StoredCloseout
  <2>6. WithdrawChecks(Key(ix, 3), Key(ix, 4))
    BY <2>1 DEF WithdrawPassed
  <2>7. WithdrawCallsOK(Key(ix, 3), Key(ix, 4))
    BY <1>2, <1>10 DEF CallsStillOK
  <2>8. WithdrawUnclaimed(Key(ix, 3), Key(ix, 4))
    BY <1>6, <2>3, <2>4, <2>5, <2>6, <2>7 DEF WithdrawUnclaimed
  <2> QED BY <2>2, <2>8 DEF Instruction
<1> QED BY <1>1, <1>7, <1>8, <1>9, <1>10

\* Every step of TxSpec is a step of Migrator or changes nothing there.
LEMMA StepImplements ==
  ASSUME TypeOK, TxInv, [TxNext]_allVars
  PROVE  [Next]_vars
<1>1. ASSUME NEW ix \in Wires, Begin(ix) \/ Reject(ix) PROVE UNCHANGED vars
  BY <1>1 DEF Begin, Reject
<1>2. CASE CreateConfigAccount \/ PayerShort \/ Fund \/ BurnSource
             \/ AllowanceShort \/ PayOut \/ Sweep \/ StoreRefused
  BY <1>2 DEF CreateConfigAccount, PayerShort, Fund, BurnSource, AllowanceShort,
     PayOut, Sweep, StoreRefused, Call
<1>3. CASE Commit
  BY <1>3, CommitIsInstruction DEF Next
<1>4. CASE Elsewhere
  BY <1>4 DEF Elsewhere, Next
<1>5. CASE NextSlot
  BY <1>5 DEF NextSlot, Next
<1>6. CASE SendLamports
  BY <1>6 DEF SendLamports
<1>7. CASE UNCHANGED allVars
  BY <1>7 DEF allVars, vars
<1> QED BY <1>1, <1>2, <1>3, <1>4, <1>5, <1>6, <1>7 DEF TxNext

-----------------------------------------------------------------------------
(* The working copy stays sound *)

LEMMA TxInvStarts == TxInit => TxInv
BY DEF TxInit, TxInv, TxTypeOK, WorkingCopySound, ToldTrue

\* An instruction that is over, or a step that leaves the rest alone.
LEMMA IdleSound ==
  ASSUME TxInv, tx' = Idle, lamports' \in Nat, ToldTrue'
  PROVE  TxInv'
BY DEF TxInv, TxTypeOK, WorkingCopySound

LEMMA BeginKeeps ==
  ASSUME TypeOK, TxInv, NEW ix \in Wires, Begin(ix)
  PROVE  TxInv'
<1>1. /\ tx' = [pc |-> FirstCall[ix.tag + 1], ix |-> ix, accounts |-> accounts,
                mints |-> mints, config |-> config, read |-> config,
                lamports |-> lamports]
      /\ accounts' = accounts /\ mints' = mints /\ config' = config /\ now' = now
      /\ upgradeAuthority' = upgradeAuthority
      /\ lamports' = lamports /\ told' = told /\ Answer(ix) = "ok"
  BY DEF Begin, vars
<1>2. /\ tx'.pc = FirstCall[ix.tag + 1] /\ tx'.ix = ix /\ tx'.accounts = accounts
      /\ tx'.mints = mints /\ tx'.config = config /\ tx'.read = config
      /\ tx'.lamports = lamports
  BY <1>1
<1>3. WireOK(ix) /\ Passed(ix)
  BY <1>1, WiresOK, AnswerMeans
<1>4. /\ Fits(tx'.pc, ix.tag)
      /\ tx'.pc \in {"create", "store pause", "burn", "sweep"}
  <2>1. ix.tag = 0 \/ ix.tag = 1 \/ ix.tag = 2 \/ ix.tag = 3
    BY <1>3 DEF Passed
  <2>2. /\ FirstCall[1] = "create" /\ FirstCall[2] = "store pause"
        /\ FirstCall[3] = "burn" /\ FirstCall[4] = "sweep"
    BY DEF FirstCall
  <2> DEFINE pc == tx'.pc
  <2>3. /\ ix.tag = 0 => pc = "create"
        /\ ix.tag = 1 => pc = "store pause"
        /\ ix.tag = 2 => pc = "burn"
        /\ ix.tag = 3 => pc = "sweep"
    <3>1. /\ ix.tag = 0 => ix.tag + 1 = 1
          /\ ix.tag = 1 => ix.tag + 1 = 2
          /\ ix.tag = 2 => ix.tag + 1 = 3
          /\ ix.tag = 3 => ix.tag + 1 = 4
      OBVIOUS
    <3> DEFINE k == ix.tag + 1
    <3>2. pc = FirstCall[k]
      BY <1>2
    <3> HIDE DEF pc, k
    <3>3. /\ k = 1 => pc = "create"
          /\ k = 2 => pc = "store pause"
          /\ k = 3 => pc = "burn"
          /\ k = 4 => pc = "sweep"
      BY <2>2, <3>2
    <3> QED BY <3>1, <3>3 DEF k
  <2> HIDE DEF pc
  <2>4. Fits(pc, ix.tag) /\ pc \in {"create", "store pause", "burn", "sweep"}
    BY <2>1, <2>3 DEF Fits
  <2> QED BY <2>4 DEF pc
<1>5. Answer(ix)' = "ok"
  <2>1. Passed(ix)'
    BY <1>1, <1>3, PassedStays
  <2> QED BY <2>1, AnswerMeansNext
<1>6. AccountsSoFar' = accounts /\ MintsSoFar' = mints /\ CallsStillOK'
  BY <1>1, <1>4 DEF AccountsSoFar, MintsSoFar, CallsStillOK
<1>7. TxTypeOK'
  <2>1. Fits(tx'.pc, tx'.ix.tag) /\ tx'.lamports = lamports' /\ lamports' \in Nat
    BY <1>1, <1>2, <1>4 DEF TxInv, TxTypeOK
  <2>2. tx' \in InFlight
    BY <1>1, <1>4 DEF TxInv, TxTypeOK, TypeOK, TokenTypeOK, InFlight
  <2> QED BY <2>1, <2>2 DEF TxTypeOK
<1>8. WorkingCopySound'
  BY <1>1, <1>2, <1>5, <1>6 DEF WorkingCopySound
<1>9. ToldTrue'
  BY <1>1 DEF TxInv, ToldTrue, Expired, Remaining
<1> QED BY <1>7, <1>8, <1>9 DEF TxInv

LEMMA ToldKept ==
  ASSUME ToldTrue, told' = told, config' = config, now' = now
  PROVE  ToldTrue'
BY DEF ToldTrue, Expired, Remaining

\* A call that has succeeded.
LEMMA AfterCall ==
  ASSUME TypeOK, TxInv, tx # Idle, UNCHANGED <<vars, lamports, told>>,
         tx' \in InFlight, tx'.ix = tx.ix, tx'.config = tx.config, tx'.read = tx.read,
         Fits(tx'.pc, tx.ix.tag), tx'.pc # "create", CallsStillOK',
         \A a \in TokenAddr : Names(tx.ix, a) =>
            tx'.accounts[a] = After(tx'.pc, tx.ix, accounts)[a],
         \A m \in Mints : Names(tx.ix, m) =>
            tx'.mints[m] = MintsAfter(tx'.pc, tx.ix, mints)[m]
  PROVE  TxInv'
<1>1. /\ accounts' = accounts /\ mints' = mints /\ config' = config /\ now' = now
      /\ upgradeAuthority' = upgradeAuthority /\ lamports' = lamports /\ told' = told
  BY DEF vars
<1>2. PICK ix \in Wires : ix = tx.ix /\ WireOK(ix) /\ Passed(ix)
                            /\ tx.config = config /\ tx.read = config
  BY FlightFacts
<1>3. Answer(tx.ix)' = "ok"
  <2>1. Passed(ix)'
    BY <1>1, <1>2, PassedStays
  <2>2. Answer(ix)' = "ok"
    BY <2>1, AnswerMeansNext
  <2>3. tx'.ix = ix
    BY <1>2
  <2> QED BY <2>2, <2>3
<1>4. TxTypeOK'
  BY <1>1 DEF TxInv, TxTypeOK
<1>5. WorkingCopySound'
  <2>1. Answer(tx.ix)' = "ok" /\ CallsStillOK'
    BY <1>3
  <2>2. /\ \A a \in TokenAddr : Names(tx'.ix, a) => tx'.accounts[a] = AccountsSoFar'[a]
        /\ \A m \in Mints : Names(tx'.ix, m) => tx'.mints[m] = MintsSoFar'[m]
    BY <1>1, SoFarIsAfter
  <2> QED BY <1>1, <1>2, <2>1, <2>2 DEF WorkingCopySound
<1>6. ToldTrue'
  BY <1>1, ToldKept DEF TxInv
<1> QED BY <1>4, <1>5, <1>6 DEF TxInv

LEMMA CreateKeeps ==
  ASSUME TypeOK, TxInv, CreateConfigAccount
  PROVE  TxInv'
<1>1. tx.pc = "create" /\ UNCHANGED <<vars, lamports, told>>
  BY DEF CreateConfigAccount, Call
<1>2. tx # Idle
  BY <1>1 DEF Idle
<1>3. CASE tx' = Idle
  BY <1>1, <1>3, IdleSound, ToldKept DEF TxInv, TxTypeOK, vars
<1>4. CASE CreateOK(tx.ix) /\ tx' = [tx EXCEPT !.pc = "fund", !.lamports = @ + Missing]
  <2> DEFINE l == tx.lamports + Missing
  <2>1. tx \in InFlight /\ Fits("create", tx.ix.tag)
    BY <1>1, <1>2 DEF TxInv, TxTypeOK
  <2>2. l \in Nat
    <3>1. tx.lamports \in Nat
      BY <2>1 DEF InFlight
    <3> QED BY <3>1, TxAssumption DEF Missing
  <2>3. tx' = [tx EXCEPT !.pc = "fund", !.lamports = l]
    BY <1>4
  <2> HIDE DEF l
  <2>4. /\ tx' \in InFlight /\ tx'.pc = "fund" /\ tx'.ix = tx.ix
        /\ tx'.config = tx.config /\ tx'.read = tx.read
        /\ tx'.accounts = tx.accounts /\ tx'.mints = tx.mints
    <3>1. tx' \in InFlight
      BY <2>1, <2>2, <2>3 DEF InFlight
    <3>2. /\ tx'.pc = "fund" /\ tx'.ix = tx.ix
          /\ tx'.config = tx.config /\ tx'.read = tx.read
          /\ tx'.accounts = tx.accounts /\ tx'.mints = tx.mints
      BY <2>1, <2>2, <2>3 DEF InFlight
    <3> QED BY <3>1, <3>2
  <2>5. Fits("fund", tx.ix.tag)
    BY <2>1 DEF Fits
  <2>6. CallsStillOK'
    <3>1. ~config.created
      BY <1>2, <1>4, FlightFacts DEF CreateOK
    <3> QED BY <1>1, <2>4, <3>1 DEF CallsStillOK, ConfigAccountFree, vars
  <2>7. /\ \A pc, ac : pc \in {"create", "fund"} => After(pc, tx.ix, ac) = ac
        /\ \A pc, ms : pc \in {"create", "fund"} => MintsAfter(pc, tx.ix, ms) = ms
    BY DEF After, MintsAfter
  <2> QED BY <1>1, <1>2, <2>4, <2>5, <2>6, <2>7, FlightFacts, AfterCall
<1> QED BY <1>3, <1>4 DEF CreateConfigAccount, Call

\* A call that moves tokens between two named accounts: it succeeds on the
\* working copy when it would on the accounts as they are, and does the same.
LEMMA TransferAgrees ==
  ASSUME NEW ix, NEW ac \in [TokenAddr -> Account], NEW bc,
         bc = [a \in TokenAddr |-> bc[a]],
         \A a \in TokenAddr : Names(ix, a) => ac[a] = bc[a],
         NEW from \in TokenAddr, NEW to \in TokenAddr, NEW n \in Amounts,
         Names(ix, from), Names(ix, to)
  PROVE  /\ TransferOK(ac, from, to, n) <=> TransferOK(bc, from, to, n)
         /\ \A a \in TokenAddr : Names(ix, a) =>
              Transferred(ac, from, to, n)[a] = Transferred(bc, from, to, n)[a]
<1>1. ac = [a \in TokenAddr |-> ac[a]]
  OBVIOUS
<1>2. ac[from] = bc[from] /\ ac[to] = bc[to]
  OBVIOUS
<1>3. TransferOK(ac, from, to, n) <=> TransferOK(bc, from, to, n)
  BY <1>2 DEF TransferOK
<1>4. \A a \in TokenAddr : Names(ix, a) =>
        Transferred(ac, from, to, n)[a] = Transferred(bc, from, to, n)[a]
  BY <1>1, TransferredAt
<1> QED BY <1>3, <1>4

LEMMA FundKeeps ==
  ASSUME TypeOK, TxInv, Fund
  PROVE  TxInv'
<1> DEFINE from == Key(tx.ix, 4)
           vault == Key(tx.ix, 7)
           cap == tx.ix.fields[3]
           moved == Transferred(tx.accounts, from, vault, cap)
<1>1. tx.pc = "fund" /\ UNCHANGED <<vars, lamports, told>>
  BY DEF Fund, Call
<1>2. tx # Idle
  BY <1>1 DEF Idle
<1>3. CASE tx' = Idle
  BY <1>1, <1>3, IdleSound, ToldKept DEF TxInv, TxTypeOK, vars
<1>4. CASE /\ TransferOK(tx.accounts, from, vault, cap)
           /\ tx' = [tx EXCEPT !.pc = "store terms", !.accounts = moved]
  <2>1. PICK ix \in Wires :
          /\ ix = tx.ix /\ WireOK(ix) /\ Fits(tx.pc, ix.tag) /\ Passed(ix)
          /\ CallsStillOK
          /\ tx.accounts \in [TokenAddr -> Account] /\ tx.mints \in [Mints -> Mint]
          /\ \A a \in TokenAddr :
               Names(ix, a) => tx.accounts[a] = After(tx.pc, ix, accounts)[a]
          /\ \A m \in Mints :
               Names(ix, m) => tx.mints[m] = MintsAfter(tx.pc, ix, mints)[m]
    BY <1>2, FlightFacts
  <2>2. ix.tag = 0 /\ InitializePassed(ix)
    BY <1>1, <2>1, PassedWhere
  <2>3. /\ from \in TokenAddr /\ vault \in TokenAddr /\ cap \in Amounts
        /\ Names(ix, from) /\ Names(ix, vault)
    BY <2>1, <2>2, PassedInitialize
  <2>4. /\ After(tx.pc, ix, accounts) = accounts /\ MintsAfter(tx.pc, ix, mints) = mints
        /\ After("store terms", ix, accounts) = Transferred(accounts, from, vault, cap)
        /\ MintsAfter("store terms", ix, mints) = mints
    BY <1>1, <2>1 DEF After, MintsAfter
  <2>5. /\ accounts \in [TokenAddr -> Account]
        /\ accounts = [a \in TokenAddr |-> accounts[a]]
    BY DEF TypeOK, TokenTypeOK
  <2>6. /\ TransferOK(accounts, from, vault, cap)
        /\ \A a \in TokenAddr : Names(ix, a) =>
             moved[a] = Transferred(accounts, from, vault, cap)[a]
    <3>1. \A a \in TokenAddr : Names(ix, a) => tx.accounts[a] = accounts[a]
      BY <2>1, <2>4
    <3>2. TransferOK(tx.accounts, from, vault, cap)
      BY <1>4
    <3>3. tx.accounts \in [TokenAddr -> Account]
      BY <2>1
    <3> HIDE DEF from, vault, cap
    <3> QED BY <2>3, <2>5, <3>1, <3>2, <3>3, TransferAgrees
  <2>7. moved \in [TokenAddr -> Account]
    BY <1>4, <2>1, <2>3, TransferredType
  <2>8. tx \in InFlight
    BY <1>2 DEF TxInv, TxTypeOK
  <2>9. /\ tx' \in InFlight /\ tx'.pc = "store terms" /\ tx'.ix = tx.ix
        /\ tx'.config = tx.config /\ tx'.read = tx.read
        /\ tx'.accounts = moved /\ tx'.mints = tx.mints
    <3>1. tx' = [tx EXCEPT !.pc = "store terms", !.accounts = moved]
      BY <1>4
    <3> HIDE DEF moved
    <3>2. tx' \in InFlight
      BY <2>7, <2>8, <3>1 DEF InFlight
    <3>3. /\ tx'.pc = "store terms" /\ tx'.ix = tx.ix
          /\ tx'.config = tx.config /\ tx'.read = tx.read
          /\ tx'.accounts = moved /\ tx'.mints = tx.mints
      BY <2>7, <2>8, <3>1 DEF InFlight
    <3> QED BY <3>2, <3>3
  <2> HIDE DEF moved
  <2>10. Fits("store terms", tx.ix.tag)
    BY <2>1, <2>2 DEF Fits
  <2>11. CallsStillOK'
    <3>1. ConfigAccountFree'
      BY <1>1, <2>1 DEF CallsStillOK, ConfigAccountFree, vars
    <3>2. TransferOK(accounts', from, vault, cap)
      BY <1>1, <2>6 DEF vars
    <3> QED BY <2>9, <3>1, <3>2 DEF CallsStillOK
  <2> QED BY ZenonT(120), <1>1, <1>2, <2>1, <2>4, <2>6, <2>9, <2>10, <2>11, AfterCall
<1> QED BY <1>3, <1>4 DEF Fund, Call, MayTransfer

LEMMA BurnKeeps ==
  ASSUME TypeOK, TxInv, BurnSource
  PROVE  TxInv'
<1> DEFINE from == Key(tx.ix, 5)
           src == Key(tx.ix, 7)
           n == tx.ix.fields[1]
           burned == Burned(tx.accounts, from, n)
           supply == SupplyBurned(tx.mints, src, n)
<1>1. tx.pc = "burn" /\ UNCHANGED <<vars, lamports, told>>
  BY DEF BurnSource, Call
<1>2. tx # Idle
  BY <1>1 DEF Idle
<1>3. CASE tx' = Idle
  BY <1>1, <1>3, IdleSound, ToldKept DEF TxInv, TxTypeOK, vars
<1>4. CASE /\ BurnOK(tx.accounts, tx.mints, from, src, n)
           /\ tx' = [tx EXCEPT !.pc = "pay", !.accounts = burned, !.mints = supply]
  <2>1. PICK ix \in Wires :
          /\ ix = tx.ix /\ WireOK(ix) /\ Fits(tx.pc, ix.tag) /\ Passed(ix)
          /\ tx.accounts \in [TokenAddr -> Account] /\ tx.mints \in [Mints -> Mint]
          /\ \A a \in TokenAddr :
               Names(ix, a) => tx.accounts[a] = After(tx.pc, ix, accounts)[a]
          /\ \A m \in Mints :
               Names(ix, m) => tx.mints[m] = MintsAfter(tx.pc, ix, mints)[m]
    BY <1>2, FlightFacts
  <2>2. ix.tag = 2 /\ MigratePassed(ix)
    BY <1>1, <2>1, PassedWhere
  <2>3. /\ from \in TokenAddr /\ src \in Mints /\ n \in Amounts
        /\ Names(ix, from) /\ Names(ix, src)
    BY <2>1, <2>2, PassedMigrate
  <2>4. /\ After(tx.pc, ix, accounts) = accounts /\ MintsAfter(tx.pc, ix, mints) = mints
        /\ After("pay", ix, accounts) = Burned(accounts, from, n)
        /\ MintsAfter("pay", ix, mints) = SupplyBurned(mints, src, n)
    BY <1>1, <2>1 DEF After, MintsAfter
  <2>5. /\ accounts \in [TokenAddr -> Account]
        /\ accounts = [a \in TokenAddr |-> accounts[a]]
        /\ mints \in [Mints -> Mint]
    BY DEF TypeOK, TokenTypeOK
  <2>6. /\ BurnOK(accounts, mints, from, src, n)
        /\ \A a \in TokenAddr : Names(ix, a) => burned[a] = Burned(accounts, from, n)[a]
        /\ \A m \in Mints : Names(ix, m) => supply[m] = SupplyBurned(mints, src, n)[m]
    <3>1. /\ \A a \in TokenAddr : Names(ix, a) => tx.accounts[a] = accounts[a]
          /\ \A m \in Mints : Names(ix, m) => tx.mints[m] = mints[m]
          /\ tx.accounts = [a \in TokenAddr |-> tx.accounts[a]]
      BY <2>1, <2>4
    <3>2. tx.mints \in [Mints -> Mint] /\ BurnOK(tx.accounts, tx.mints, from, src, n)
      BY <1>4, <2>1
    <3> HIDE DEF from, src, n
    <3>3. BurnOK(accounts, mints, from, src, n)
      BY <2>3, <3>1, <3>2 DEF BurnOK
    <3>4. \A a \in TokenAddr : Names(ix, a) => burned[a] = Burned(accounts, from, n)[a]
      BY <2>3, <2>5, <3>1, BurnedAt
    <3>5. \A m \in Mints : Names(ix, m) => supply[m] = SupplyBurned(mints, src, n)[m]
      BY <2>3, <2>5, <3>1, <3>2, SupplyBurnedAt
    <3> QED BY <3>3, <3>4, <3>5
  <2>7. burned \in [TokenAddr -> Account] /\ supply \in [Mints -> Mint]
    BY <1>4, <2>1, <2>3, BurnedType
  <2>8. tx \in InFlight
    BY <1>2 DEF TxInv, TxTypeOK
  <2>9. /\ tx' \in InFlight /\ tx'.pc = "pay" /\ tx'.ix = tx.ix
        /\ tx'.config = tx.config /\ tx'.read = tx.read
        /\ tx'.accounts = burned /\ tx'.mints = supply
    <3>1. tx' = [tx EXCEPT !.pc = "pay", !.accounts = burned, !.mints = supply]
      BY <1>4
    <3> HIDE DEF burned, supply
    <3>2. tx' \in InFlight
      BY <2>7, <2>8, <3>1 DEF InFlight
    <3>3. /\ tx'.pc = "pay" /\ tx'.ix = tx.ix
          /\ tx'.config = tx.config /\ tx'.read = tx.read
          /\ tx'.accounts = burned /\ tx'.mints = supply
      BY <2>7, <2>8, <3>1 DEF InFlight
    <3> QED BY <3>2, <3>3
  <2> HIDE DEF burned, supply
  <2>10. Fits("pay", tx.ix.tag)
    BY <2>1, <2>2 DEF Fits
  <2>11. CallsStillOK'
    <3>1. BurnOK(accounts', mints', from, src, n)
      BY <1>1, <2>6 DEF vars
    <3> QED BY <2>9, <3>1 DEF CallsStillOK
  <2> QED BY <1>1, <1>2, <2>1, <2>4, <2>6, <2>9, <2>10, <2>11, AfterCall
<1> QED BY <1>3, <1>4 DEF BurnSource, Call

LEMMA PayOutKeeps ==
  ASSUME TypeOK, TxInv, PayOut
  PROVE  TxInv'
<1> DEFINE vault == Key(tx.ix, 4)
           from == Key(tx.ix, 5)
           to == Key(tx.ix, 6)
           n == tx.ix.fields[1]
           paid == Transferred(tx.accounts, vault, to, n)
           burned == Burned(accounts, from, n)
<1>1. tx.pc = "pay" /\ UNCHANGED <<vars, lamports, told>>
  BY DEF PayOut, Call
<1>2. tx # Idle
  BY <1>1 DEF Idle
<1>3. CASE tx' = Idle
  BY <1>1, <1>3, IdleSound, ToldKept DEF TxInv, TxTypeOK, vars
<1>4. CASE /\ TransferOK(tx.accounts, vault, to, n)
           /\ tx' = [tx EXCEPT !.pc = "count", !.accounts = paid]
  <2>1. PICK ix \in Wires :
          /\ ix = tx.ix /\ WireOK(ix) /\ Fits(tx.pc, ix.tag) /\ Passed(ix)
          /\ CallsStillOK
          /\ tx.accounts \in [TokenAddr -> Account] /\ tx.mints \in [Mints -> Mint]
          /\ \A a \in TokenAddr :
               Names(ix, a) => tx.accounts[a] = After(tx.pc, ix, accounts)[a]
          /\ \A m \in Mints :
               Names(ix, m) => tx.mints[m] = MintsAfter(tx.pc, ix, mints)[m]
    BY <1>2, FlightFacts
  <2>2. ix.tag = 2 /\ MigratePassed(ix)
    BY <1>1, <2>1, PassedWhere
  <2>3. /\ vault \in TokenAddr /\ from \in TokenAddr /\ to \in TokenAddr
        /\ n \in Amounts /\ Names(ix, vault) /\ Names(ix, to)
        /\ Key(ix, 7) = config.source_mint
    BY <2>1, <2>2, PassedMigrate
  <2>4. /\ After(tx.pc, ix, accounts) = burned
        /\ After("count", ix, accounts) = Transferred(burned, vault, to, n)
        /\ MintsAfter("count", ix, mints) = MintsAfter(tx.pc, ix, mints)
    BY <1>1, <2>1 DEF After, MintsAfter
  <2>5. burned = [a \in TokenAddr |-> burned[a]]
    <3>1. /\ accounts \in [TokenAddr -> Account]
          /\ accounts = [a \in TokenAddr |-> accounts[a]]
      BY DEF TypeOK, TokenTypeOK
    <3> HIDE DEF from, n
    <3> QED BY <2>3, <3>1, BurnedAt
  <2>6. /\ TransferOK(burned, vault, to, n)
        /\ \A a \in TokenAddr : Names(ix, a) =>
             paid[a] = Transferred(burned, vault, to, n)[a]
    <3>1. \A a \in TokenAddr : Names(ix, a) => tx.accounts[a] = burned[a]
      BY <2>1, <2>4
    <3>2. TransferOK(tx.accounts, vault, to, n) /\ tx.accounts \in [TokenAddr -> Account]
      BY <1>4, <2>1
    <3> HIDE DEF vault, to, n, burned
    <3> QED BY <2>3, <2>5, <3>1, <3>2, TransferAgrees
  <2>7. paid \in [TokenAddr -> Account]
    BY <1>4, <2>1, <2>3, TransferredType
  <2>8. tx \in InFlight
    BY <1>2 DEF TxInv, TxTypeOK
  <2>9. /\ tx' \in InFlight /\ tx'.pc = "count" /\ tx'.ix = tx.ix
        /\ tx'.config = tx.config /\ tx'.read = tx.read
        /\ tx'.accounts = paid /\ tx'.mints = tx.mints
    <3>1. tx' = [tx EXCEPT !.pc = "count", !.accounts = paid]
      BY <1>4
    <3> HIDE DEF paid
    <3>2. tx' \in InFlight
      BY <2>7, <2>8, <3>1 DEF InFlight
    <3>3. /\ tx'.pc = "count" /\ tx'.ix = tx.ix
          /\ tx'.config = tx.config /\ tx'.read = tx.read
          /\ tx'.accounts = paid /\ tx'.mints = tx.mints
      BY <2>7, <2>8, <3>1 DEF InFlight
    <3> QED BY <3>2, <3>3
  <2>10. Fits("count", tx.ix.tag)
    BY <2>1, <2>2 DEF Fits
  <2>11. CallsStillOK'
    <3>1. BurnOK(accounts, mints, from, config.source_mint, n)
      BY <1>1, <2>1, <2>3 DEF CallsStillOK
    <3>2. MigrateCallsOK(vault, from, to, n)
      BY <2>6, <3>1 DEF MigrateCallsOK
    <3>3. MigrateCallsOK(vault, from, to, n)'
      BY <1>1, <2>9, <3>2 DEF MigrateCallsOK, vars
    <3> QED BY <2>9, <3>3 DEF CallsStillOK
  <2> HIDE DEF paid, burned
  <2> QED BY <1>1, <1>2, <2>1, <2>4, <2>6, <2>9, <2>10, <2>11, AfterCall
<1> QED BY <1>3, <1>4 DEF PayOut, Call, MayTransfer

LEMMA SweepKeeps ==
  ASSUME TypeOK, TxInv, Sweep
  PROVE  TxInv'
<1> DEFINE vault == Key(tx.ix, 3)
           to == Key(tx.ix, 4)
           n == tx.accounts[vault].amount
           swept == Transferred(tx.accounts, vault, to, n)
<1>1. tx.pc = "sweep" /\ UNCHANGED <<vars, lamports, told>>
  BY DEF Sweep, Call
<1>2. tx # Idle
  BY <1>1 DEF Idle
<1>3. CASE tx' = Idle
  BY <1>1, <1>3, IdleSound, ToldKept DEF TxInv, TxTypeOK, vars
<1>4. CASE /\ TransferOK(tx.accounts, vault, to, n)
           /\ tx' = [tx EXCEPT !.pc = "close out", !.accounts = swept]
  <2>1. PICK ix \in Wires :
          /\ ix = tx.ix /\ WireOK(ix) /\ Fits(tx.pc, ix.tag) /\ Passed(ix)
          /\ tx.accounts \in [TokenAddr -> Account] /\ tx.mints \in [Mints -> Mint]
          /\ \A a \in TokenAddr :
               Names(ix, a) => tx.accounts[a] = After(tx.pc, ix, accounts)[a]
          /\ \A m \in Mints :
               Names(ix, m) => tx.mints[m] = MintsAfter(tx.pc, ix, mints)[m]
    BY <1>2, FlightFacts
  <2>2. ix.tag = 3 /\ WithdrawPassed(ix)
    BY <1>1, <2>1, PassedWhere
  <2>3. /\ vault \in TokenAddr /\ to \in TokenAddr
        /\ Names(ix, vault) /\ Names(ix, to)
    BY <2>1, <2>2, PassedWithdraw
  <2>4. /\ After(tx.pc, ix, accounts) = accounts /\ MintsAfter(tx.pc, ix, mints) = mints
        /\ After("close out", ix, accounts)
             = Transferred(accounts, vault, to, accounts[vault].amount)
        /\ MintsAfter("close out", ix, mints) = mints
    BY <1>1, <2>1 DEF After, MintsAfter
  <2>5. /\ accounts \in [TokenAddr -> Account]
        /\ accounts = [a \in TokenAddr |-> accounts[a]]
    BY DEF TypeOK, TokenTypeOK
  <2>6. n = accounts[vault].amount /\ n \in Amounts
    BY <2>1, <2>3, <2>4, <2>5 DEF Account
  <2>7. /\ TransferOK(accounts, vault, to, n)
        /\ \A a \in TokenAddr : Names(ix, a) =>
             swept[a] = Transferred(accounts, vault, to, n)[a]
    <3>1. \A a \in TokenAddr : Names(ix, a) => tx.accounts[a] = accounts[a]
      BY <2>1, <2>4
    <3>2. TransferOK(tx.accounts, vault, to, n) /\ tx.accounts \in [TokenAddr -> Account]
      BY <1>4, <2>1
    <3> HIDE DEF vault, to, n
    <3> QED BY <2>3, <2>5, <2>6, <3>1, <3>2, TransferAgrees
  <2>8. swept \in [TokenAddr -> Account]
    BY <1>4, <2>1, <2>3, <2>6, TransferredType
  <2>9. tx \in InFlight
    BY <1>2 DEF TxInv, TxTypeOK
  <2>10. /\ tx' \in InFlight /\ tx'.pc = "close out" /\ tx'.ix = tx.ix
         /\ tx'.config = tx.config /\ tx'.read = tx.read
         /\ tx'.accounts = swept /\ tx'.mints = tx.mints
    <3>1. tx' = [tx EXCEPT !.pc = "close out", !.accounts = swept]
      BY <1>4
    <3> HIDE DEF swept
    <3>2. tx' \in InFlight
      BY <2>8, <2>9, <3>1 DEF InFlight
    <3>3. /\ tx'.pc = "close out" /\ tx'.ix = tx.ix
          /\ tx'.config = tx.config /\ tx'.read = tx.read
          /\ tx'.accounts = swept /\ tx'.mints = tx.mints
      BY <2>8, <2>9, <3>1 DEF InFlight
    <3> QED BY <3>2, <3>3
  <2>11. Fits("close out", tx.ix.tag)
    BY <2>1, <2>2 DEF Fits
  <2>12. CallsStillOK'
    <3>1. WithdrawCallsOK(vault, to)
      BY <2>6, <2>7 DEF WithdrawCallsOK, CloseoutAmount
    <3>2. WithdrawCallsOK(vault, to)'
      BY <1>1, <2>10, <3>1 DEF WithdrawCallsOK, CloseoutAmount, vars
    <3> QED BY <2>10, <3>2 DEF CallsStillOK
  <2>13. /\ \A a \in TokenAddr : Names(ix, a) =>
              tx'.accounts[a] = After("close out", ix, accounts)[a]
         /\ \A m \in Mints : Names(ix, m) =>
              tx'.mints[m] = MintsAfter("close out", ix, mints)[m]
    <3>1. After("close out", ix, accounts) = Transferred(accounts, vault, to, n)
      BY <2>4, <2>6
    <3> HIDE DEF swept, n, vault, to
    <3> QED BY ZenonT(60), <2>1, <2>4, <2>7, <2>10, <3>1
  <2> QED BY <1>1, <1>2, <2>1, <2>10, <2>11, <2>12, <2>13, AfterCall
<1> QED BY <1>3, <1>4 DEF Sweep, Call, MayTransfer

-----------------------------------------------------------------------------
(* Standing answers *)

\* What was told for good stays true: the terms do not change, the total does
\* not fall, the clock does not run backwards.
LEMMA ToldLasts ==
  ASSUME IInv, [Next]_vars, ToldTrue, told' = told
  PROVE  ToldTrue'
<1>1. CASE told = {}
  BY <1>1 DEF ToldTrue
<1>2. CASE told # {}
  <2>1. config.created
    BY <1>2 DEF ToldTrue
  <2>2. /\ config'.created /\ UNCHANGED Terms
        /\ config'.total_migrated >= config.total_migrated
        /\ config.unclaimed_withdrawn => config'.unclaimed_withdrawn
    BY <2>1, TermsKept
  <2>3. config'.end_ts = config.end_ts /\ config'.migration_cap = config.migration_cap
    BY <2>2 DEF Terms
  <2>4. now \in Int /\ now' \in Int /\ now' >= now
    <3>1. now \in Int
      BY DEF IInv, TypeOK
    <3>2. now' = now \/ now' = now + 1
      BY DEF Next, Instruction, InitializeConfig, SetPause, MigrateExact,
         WithdrawUnclaimed, TokenWorld, Tick, SetUpgradeAuthority, vars
    <3> QED BY <3>1, <3>2
  <2>5. /\ config.end_ts \in Int /\ config.migration_cap \in Int
        /\ config.total_migrated \in Int /\ config'.total_migrated \in Int
    <3>1. config \in MigrationConfig
      BY <2>1, ConfigCreated DEF IInv
    <3>2. TypeOK'
      BY NextType DEF IInv
    <3>3. config' \in MigrationConfig
      BY <2>2, <3>2 DEF TypeOK, NoConfig
    <3> QED BY <3>1, <3>3, AddressAssumption DEF MigrationConfig, Amounts
  <2>6. Expired => Expired'
    BY <2>3, <2>4, <2>5 DEF Expired
  <2>7. ASSUME NEW n \in Int, n > Remaining
        PROVE  n > Remaining'
    BY <2>2, <2>3, <2>5, <2>7 DEF Remaining
  <2> QED BY <2>2, <2>6, <2>7 DEF ToldTrue
<1> QED BY <1>1, <1>2

\* The errors that stand come from the gates of the two handlers that move
\* tokens out of the reserve.
LEMMA MintErrors ==
  ASSUME NEW k
  PROVE  /\ StrictMintChecks(k, "InvalidOldMint") \notin StandingErrors
         /\ StrictMintChecks(k, "InvalidNewMint") \notin StandingErrors
BY DEF StrictMintChecks, Check, &&, StandingErrors

LEMMA TokenErrors ==
  ASSUME NEW k, NEW m, NEW o
  PROVE  /\ TokenAccountChecks(k, m, o) \notin StandingErrors
         /\ CustodyChecks(k, m, o) \notin StandingErrors
         /\ DestinationChecks(k, m, o) \notin StandingErrors
<1>1. TokenAccountChecks(k, m, o) \notin StandingErrors
  BY DEF TokenAccountChecks, Check, &&, StandingErrors
<1>2. CustodyChecks(k, m, o) \notin StandingErrors
  BY <1>1 DEF CustodyChecks, Check, &&, StandingErrors
<1>3. DestinationChecks(k, m, o) \notin StandingErrors
  BY <1>2 DEF DestinationChecks, Check, &&, StandingErrors
<1> QED BY <1>1, <1>2, <1>3

LEMMA InitializeErrors ==
  ASSUME NEW ix
  PROVE  InitializeConfigChecks(ix) \notin StandingErrors
<1>1. InitializeShape(ix) \notin StandingErrors
  BY DEF InitializeShape, InitializeSigners, Check, &&, StandingErrors
<1>2. InitializeAddressChecks(ix) \notin StandingErrors
  BY DEF InitializeAddressChecks, Check, &&, StandingErrors
<1>3. InitializeReserveChecks(ix) \notin StandingErrors
  BY TokenErrors, MintErrors DEF InitializeReserveChecks, Check, &&, StandingErrors
<1> QED BY <1>1, <1>2, <1>3 DEF InitializeConfigChecks, &&

LEMMA PauseErrors ==
  ASSUME NEW ix
  PROVE  (SetPauseShape(ix) && SetPauseChecks(ix)) \notin StandingErrors
BY DEF SetPauseShape, SetPauseChecks, ConfigReadable, Check, &&, StandingErrors

LEMMA MigrateErrors ==
  ASSUME NEW ix, (MigrateExactShape(ix) && MigrateExactChecks(ix)) \in StandingErrors
  PROVE  /\ config.created
         /\ \/ /\ (MigrateExactShape(ix) && MigrateExactChecks(ix)) = "MigrationClosed"
               /\ ~(now <= config.end_ts)
            \/ /\ (MigrateExactShape(ix) && MigrateExactChecks(ix))
                    = "MigrationCapExceeded"
               /\ ~CapAllows(config.total_migrated, ix.fields[1], config.migration_cap)
<1>1. MigrateExactShape(ix) \notin StandingErrors
  BY DEF MigrateExactShape, ConfigReadable, Check, &&, StandingErrors
<1>2. MigrateExactShape(ix) = "ok" => config.created
  BY DEF MigrateExactShape, ConfigReadable, Check, &&
<1>3. MigrateExactShape(ix) = "ok" /\ MigrateExactChecks(ix) \in StandingErrors
  BY <1>1 DEF &&
<1>4. /\ GateChecks(config) \in StandingErrors =>
           GateChecks(config) = "MigrationClosed" /\ ~(now <= config.end_ts)
  BY DEF GateChecks, Check, &&, StandingErrors
<1>5. \/ MigrateExactChecks(ix) = GateChecks(config) /\ GateChecks(config) \in StandingErrors
      \/ /\ MigrateExactChecks(ix) = "MigrationCapExceeded"
         /\ ~CapAllows(config.total_migrated, ix.fields[1], config.migration_cap)
  <2> DEFINE gates ==
        GateChecks(config)
        && Check(Key(ix, 9) = TokenProgramId, "InvalidTokenProgram")
        && Check(Key(ix, 4) = config.reserve_vault, "InvalidVault")
        && Check(Key(ix, 7) = config.source_mint, "InvalidOldMint")
        && Check(Key(ix, 8) = config.destination_mint, "InvalidNewMint")
        && StrictMintChecks(config.source_mint, "InvalidOldMint")
        && StrictMintChecks(config.destination_mint, "InvalidNewMint")
      capped ==
        gates && Check(CapAllows(config.total_migrated, ix.fields[1],
                                 config.migration_cap), "MigrationCapExceeded")
  <2>1. gates \in StandingErrors => gates = GateChecks(config)
    BY MintErrors DEF Check, &&, StandingErrors
  <2>2. MigrateExactChecks(ix) =
          capped
          && Check(CheckedTotal(config.total_migrated, ix.fields[1]), "MathOverflow")
          && CustodyChecks(Key(ix, 4), config.destination_mint, VaultAuthority)
          && TokenAccountChecks(Key(ix, 5), config.source_mint, Key(ix, 1))
          && DestinationChecks(Key(ix, 6), config.destination_mint, Key(ix, 1))
          && Check(AccountAt(Key(ix, 4)).amount >= ix.fields[1],
                   "InsufficientVaultLiquidity")
    BY DEF MigrateExactChecks
  <2> HIDE DEF gates
  <2>3. capped \in StandingErrors =>
          \/ gates \in StandingErrors /\ capped = gates
          \/ /\ capped = "MigrationCapExceeded"
             /\ ~CapAllows(config.total_migrated, ix.fields[1], config.migration_cap)
    BY DEF Check, &&, StandingErrors
  <2> HIDE DEF capped
  <2>4. capped \in StandingErrors /\ MigrateExactChecks(ix) = capped
    BY <1>3, <2>2, TokenErrors DEF Check, &&, StandingErrors
  <2> QED BY <2>1, <2>3, <2>4
<1> QED BY <1>2, <1>3, <1>4, <1>5 DEF &&

LEMMA WithdrawErrors ==
  ASSUME NEW ix, (WithdrawShape(ix) && WithdrawUnclaimedChecks(ix)) \in StandingErrors
  PROVE  /\ config.created /\ config.unclaimed_withdrawn
         /\ (WithdrawShape(ix) && WithdrawUnclaimedChecks(ix))
              = "UnclaimedAlreadyWithdrawn"
<1>1. WithdrawShape(ix) \notin StandingErrors
  BY DEF WithdrawShape, ConfigReadable, Check, &&, StandingErrors
<1>2. WithdrawShape(ix) = "ok" => config.created
  BY DEF WithdrawShape, ConfigReadable, Check, &&
<1>3. WithdrawShape(ix) = "ok" /\ WithdrawUnclaimedChecks(ix) \in StandingErrors
  BY <1>1 DEF &&
<1>4. WithdrawUnclaimedChecks(ix) = "UnclaimedAlreadyWithdrawn" /\ ~NotWithdrawn
  BY ZenonT(60), <1>3, TokenErrors, MintErrors DEF WithdrawUnclaimedChecks, Check, &&, StandingErrors
<1> QED BY <1>2, <1>3, <1>4 DEF &&, NotWithdrawn

LEMMA RejectKeeps ==
  ASSUME IInv, TxInv, NEW ix \in Wires, Reject(ix)
  PROVE  TxInv'
<1> DEFINE amount == IF ix.fields = <<>> THEN 0 ELSE ix.fields[1]
<1>1. /\ accounts' = accounts /\ mints' = mints /\ config' = config /\ now' = now
      /\ tx' = Idle /\ lamports' = lamports
      /\ told' = {<<Answer(ix), amount>>} /\ Answer(ix) \in StandingErrors
  BY DEF Reject, vars
<1>2. WireOK(ix)
  BY WiresOK
<1>3. /\ ix.tag = 2 \/ ix.tag = 3
      /\ ix.tag = 2 => Answer(ix) = (MigrateExactShape(ix) && MigrateExactChecks(ix))
      /\ ix.tag = 3 => Answer(ix) = (WithdrawShape(ix) && WithdrawUnclaimedChecks(ix))
  <2>1. \/ ix.tag = 0 \/ ix.tag = 1 \/ ix.tag = 2 \/ ix.tag = 3
        \/ ix.tag \notin {0, 1, 2, 3}
    OBVIOUS
  <2>2. "InvalidInstructionData" \notin StandingErrors
    BY DEF StandingErrors
  <2> QED BY <1>1, <2>1, <2>2, InitializeErrors, PauseErrors DEF Answer
<1>4. amount \in Int /\ (ix.tag = 2 => amount = ix.fields[1])
  <2>1. ix.tag = 2 => \E n \in Amounts : ix.fields = <<n>>
    BY <1>2 DEF WireOK, FieldsOK
  <2>2. ix.tag = 3 => ix.fields = <<>>
    BY <1>2 DEF WireOK, FieldsOK
  <2>3. ASSUME NEW n \in Amounts, ix.fields = <<n>>
        PROVE  amount \in Int /\ amount = ix.fields[1]
    BY <2>3, AddressAssumption DEF Amounts
  <2> QED BY <1>3, <2>1, <2>2, <2>3
<1> HIDE DEF amount
<1>5. CASE ix.tag = 2
  <2>1. /\ config.created
        /\ \/ Answer(ix) = "MigrationClosed" /\ ~(now <= config.end_ts)
           \/ /\ Answer(ix) = "MigrationCapExceeded"
              /\ ~CapAllows(config.total_migrated, amount, config.migration_cap)
    BY <1>1, <1>3, <1>4, <1>5, MigrateErrors
  <2>2. /\ now \in Int /\ config.end_ts \in Int
        /\ config.total_migrated \in Int /\ config.migration_cap \in Int
    <3>1. config \in MigrationConfig /\ now \in Int
      BY <2>1, ConfigCreated DEF IInv, TypeOK
    <3> QED BY <3>1, AddressAssumption DEF MigrationConfig, Amounts
  <2>3. Answer(ix) = "MigrationClosed" => Expired
    BY <2>1, <2>2 DEF Expired
  <2>4. Answer(ix) = "MigrationCapExceeded" => amount > Remaining
    <3>1. Remaining >= 0
      BY <2>1 DEF IInv, ReserveCoversClaims
    <3> QED BY <1>4, <2>1, <2>2, <3>1 DEF CapAllows, Remaining
  <2>5. ToldTrue'
    BY <1>1, <1>4, <2>1, <2>3, <2>4 DEF ToldTrue, Expired, Remaining
  <2> QED BY <1>1, <2>5, IdleSound DEF TxInv, TxTypeOK
<1>6. CASE ix.tag = 3
  <2>1. /\ config.created /\ config.unclaimed_withdrawn
        /\ Answer(ix) = "UnclaimedAlreadyWithdrawn"
    BY <1>1, <1>3, <1>6, WithdrawErrors
  <2>2. ToldTrue'
    BY <1>1, <1>4, <2>1 DEF ToldTrue, StandingErrors
  <2> QED BY <1>1, <2>2, IdleSound DEF TxInv, TxTypeOK
<1> QED BY <1>3, <1>5, <1>6

LEMMA TxStepKeeps ==
  ASSUME IInv, TxInv, [TxNext]_allVars
  PROVE  TxInv'
<1> TypeOK
  BY DEF IInv
<1>1. [Next]_vars
  BY StepImplements
<1>2. TypeOK'
  BY <1>1, NextType
<1>3. CASE \E ix \in Wires : Begin(ix)
  BY <1>3, BeginKeeps
<1>4. CASE \E ix \in Wires : Reject(ix)
  BY <1>4, RejectKeeps
<1>5. CASE CreateConfigAccount
  BY <1>5, CreateKeeps
<1>6. CASE Fund
  BY <1>6, FundKeeps
<1>7. CASE BurnSource
  BY <1>7, BurnKeeps
<1>8. CASE PayOut
  BY <1>8, PayOutKeeps
<1>9. CASE Sweep
  BY <1>9, SweepKeeps
<1>10. CASE PayerShort \/ AllowanceShort \/ StoreRefused
  <2>1. tx' = Idle /\ lamports' = lamports /\ told' = told
    BY <1>10 DEF PayerShort, AllowanceShort, StoreRefused
  <2>2. ToldTrue'
    BY <1>1, <2>1, ToldLasts DEF TxInv
  <2> QED BY <2>1, <2>2, IdleSound DEF TxInv, TxTypeOK
<1>11. CASE Commit
  <2>1. tx' = Idle /\ lamports' = tx.lamports /\ told' = told
    BY <1>11 DEF Commit
  <2>2. tx # Idle
    <3>1. tx.pc # "idle" /\ Idle.pc = "idle"
      BY <1>11 DEF Commit, AtStore, Idle
    <3> QED BY <3>1
  <2>3. lamports' \in Nat
    BY <2>1, <2>2 DEF TxInv, TxTypeOK, InFlight
  <2>4. ToldTrue'
    BY <1>1, <2>1, ToldLasts DEF TxInv
  <2> QED BY <2>1, <2>3, <2>4, IdleSound
<1>12. CASE Elsewhere
  <2>1. LocksHeld /\ UNCHANGED txVars /\ config' = config /\ now' = now
    BY <1>12 DEF Elsewhere, TokenWorld, SetUpgradeAuthority
  <2> QED BY <1>2, <2>1, LocksKeep
<1>13. CASE NextSlot
  <2>1. tx' = Idle /\ lamports' = lamports /\ told' = told
    BY <1>13 DEF NextSlot, txVars
  <2>2. ToldTrue'
    BY <1>1, <2>1, ToldLasts DEF TxInv
  <2> QED BY <2>1, <2>2, IdleSound DEF TxInv, TxTypeOK
<1>14. CASE SendLamports
  <2>1. tx' = Idle /\ lamports' = lamports + 1 /\ told' = told
    BY <1>14 DEF SendLamports
  <2>2. ToldTrue'
    BY <1>1, <2>1, ToldLasts DEF TxInv
  <2> QED BY <2>1, <2>2, IdleSound DEF TxInv, TxTypeOK
<1>15. CASE UNCHANGED allVars
  <2>1. LocksHeld /\ UNCHANGED txVars /\ config' = config /\ now' = now
    BY <1>15 DEF allVars, txVars, LocksHeld
  <2> QED BY <1>2, <2>1, LocksKeep
<1> QED
  BY <1>3, <1>4, <1>5, <1>6, <1>7, <1>8, <1>9, <1>10, <1>11, <1>12, <1>13,
     <1>14,
     <1>15 DEF TxNext

-----------------------------------------------------------------------------
(* Theorems *)

\* The two inductive invariants hold together, and every step is one of
\* Migrator.
LEMMA TxSteps ==
  ASSUME IInv, TxInv, [TxNext]_allVars
  PROVE  IInv' /\ TxInv' /\ [Next]_vars
<1>1. [Next]_vars
  BY StepImplements DEF IInv
<1>2. TxInv'
  BY TxStepKeeps
<1>3. IInv'
  BY <1>1, NextKeeps
<1> QED BY <1>1, <1>2, <1>3

LEMMA TxInvariance == TxSpec => [](IInv /\ TxInv)
<1>1. Init /\ TxInit => IInv /\ TxInv
  <2>1. Init => IInv
    BY DEF Init, TokenInit, NoConfig, IInv, TypeOK, PairAndVaultSound,
       CloseoutAfterDeadline, ReserveCoversClaims
  <2> QED BY <2>1, TxInvStarts
<1>2. IInv /\ TxInv /\ [TxNext]_allVars => (IInv /\ TxInv)'
  BY TxSteps
<1> QED BY <1>1, <1>2, PTL DEF TxSpec

\* An instruction in flight has a working copy worth committing, whatever
\* everybody else does, and what a client has been told for good stays true.
THEOREM WorkingCopyWorth == TxSpec => []TxInv
<1>1. IInv /\ TxInv => TxInv
  OBVIOUS
<1> QED BY <1>1, TxInvariance, PTL

\* Checks, calls, both reads of the config and the commit are together one step
\* of Migrator: process_instruction is atomic to everybody else.
THEOREM OneStep == TxSpec => ImplementsMigrator
<1>1. IInv /\ TxInv /\ [TxNext]_allVars => [Next]_vars
  BY TxSteps
<1> QED BY <1>1, TxInvariance, PTL DEF TxSpec, ImplementsMigrator


-----------------------------------------------------------------------------
(* Answers that stand *)

\* What a remembered answer forbids, no step does.
LEMMA AnswersKept ==
  ASSUME IInv, TxInv, [TxNext]_allVars, NEW t \in told
  PROVE  /\ config.created
         /\ t[1] = "MigrationClosed" =>
              config'.total_migrated = config.total_migrated
         /\ t[1] = "MigrationCapExceeded" =>
              config'.total_migrated < config.total_migrated + t[2]
         /\ t[1] = "UnclaimedAlreadyWithdrawn" => Outflow <= 0
<1>1. IInv' /\ [Next]_vars
  BY TxSteps
<1>2. /\ t[2] \in Int /\ config.created
      /\ t[1] = "MigrationClosed" => Expired
      /\ t[1] = "MigrationCapExceeded" => t[2] > Remaining
      /\ t[1] = "UnclaimedAlreadyWithdrawn" => config.unclaimed_withdrawn
  BY DEF TxInv, ToldTrue
<1>3. t[1] = "MigrationClosed" => config'.total_migrated = config.total_migrated
  BY <1>1, <1>2, ExpiredStops
<1>4. t[1] = "MigrationCapExceeded" =>
        config'.total_migrated < config.total_migrated + t[2]
  <2>1. config'.created /\ UNCHANGED Terms
    BY <1>1, <1>2, TermsKept
  <2>2. config'.migration_cap = config.migration_cap
    BY <2>1 DEF Terms
  <2>3. /\ config.migration_cap \in Int /\ config.total_migrated \in Int
    BY <1>2, EscrowOpen
  <2>4. config'.total_migrated \in Int
    <3>1. config' \in MigrationConfig
      BY <1>1, <2>1 DEF IInv, TypeOK, NoConfig
    <3>2. \A x \in Amounts : x \in Int
      BY AddressAssumption DEF Amounts
    <3> QED BY <3>1, <3>2 DEF MigrationConfig
  <2>5. config'.migration_cap - config'.total_migrated >= 0
    BY <1>1, <2>1 DEF IInv, ReserveCoversClaims, Remaining
  <2> QED BY <1>2, <2>2, <2>3, <2>4, <2>5 DEF Remaining
<1>5. t[1] = "UnclaimedAlreadyWithdrawn" => Outflow <= 0
  <2> SUFFICES ASSUME config.unclaimed_withdrawn PROVE Outflow <= 0
    BY <1>2
  <2>1. Expired
    BY <1>2 DEF IInv, CloseoutAfterDeadline
  <2>2. /\ now \in Int /\ config.end_ts \in Int
    BY <1>2, ConfigCreated DEF IInv, TypeOK, MigrationConfig
  <2>3. ~ WindowOpen
    BY <2>1, <2>2 DEF Expired, WindowOpen
  <2>4. ~ (Outflow > 0)
    BY <1>1, <1>2, <2>3, OutflowStep DEF ClaimOutflow, CloseoutOutflow
  <2>5. Outflow \in Int
    BY <1>1, <1>2, OutflowType
  <2> QED BY <2>4, <2>5
<1> QED BY <1>2, <1>3, <1>4, <1>5


\* A client that was told MigrationClosed, MigrationCapExceeded or
\* UnclaimedAlreadyWithdrawn (require_migration_open, require_cap, the closeout
\* flag of withdraw_unclaimed) need never ask again.
THEOREM AnswersStandForGood == TxSpec => AnswersStand
<1> DEFINE A == \A t \in told :
       /\ config.created
       /\ t[1] = "MigrationClosed" =>
            config'.total_migrated = config.total_migrated
       /\ t[1] = "MigrationCapExceeded" =>
            config'.total_migrated < config.total_migrated + t[2]
       /\ t[1] = "UnclaimedAlreadyWithdrawn" => Outflow <= 0
<1>1. IInv /\ TxInv /\ [TxNext]_allVars => [A]_allVars
  BY AnswersKept
<1> QED BY <1>1, TxInvariance, PTL DEF TxSpec, AnswersStand


-----------------------------------------------------------------------------
(* Signatures *)

\* What loses units in a transfer or in a burn that pays out.
LEMMA Losers ==
  ASSUME NEW ac \in [TokenAddr -> Account], NEW from \in TokenAddr,
         NEW to \in TokenAddr, NEW burned \in TokenAddr, NEW n \in Amounts,
         NEW a \in TokenAddr
  PROVE  /\ Transferred(ac, from, to, n)[a].amount < ac[a].amount => a = from
         /\ Transferred(Burned(ac, burned, n), from, to, n)[a].amount < ac[a].amount
              => a \in {from, burned}
<1>1. /\ ac[a].amount \in Int /\ n \in Int /\ n >= 0
      /\ ac[a].amount + n >= ac[a].amount
      /\ ~ ac[a].amount < ac[a].amount
  BY AddressAssumption DEF Account, Amounts
<1>2. Transferred(ac, from, to, n)[a].amount < ac[a].amount => a = from
  BY <1>1 DEF Transferred, Account
<1>3. ASSUME a \notin {from, burned}
      PROVE  ~ Transferred(Burned(ac, burned, n), from, to, n)[a].amount < ac[a].amount
  <2>1. Burned(ac, burned, n)[a] = ac[a]
    BY <1>3 DEF Burned
  <2>2. DOMAIN Burned(ac, burned, n) = TokenAddr
    BY DEF Burned
  <2>3. \/ Transferred(Burned(ac, burned, n), from, to, n)[a] = ac[a]
        \/ Transferred(Burned(ac, burned, n), from, to, n)[a]
             = [ac[a] EXCEPT !.amount = @ + n]
    BY <1>3, <2>1, <2>2 DEF Transferred
  <2> QED BY <1>1, <2>3 DEF Account
<1> QED BY <1>2, <1>3

\* A step that changes the config has the signatures it needs.
LEMMA SignaturesNeeded ==
  ASSUME IInv, TxInv, [TxNext]_allVars, config' # config
  PROVE  /\ ~config.created =>
              /\ Signed(upgradeAuthority)
              /\ Signed(config'.admin) /\ Signed(config'.refund_recipient)
         /\ config.created /\ config'.paused # config.paused =>
              Signed(config.admin)
         /\ \A a \in TokenAddr :
              /\ accounts'[a].amount < accounts[a].amount
              /\ accounts[a].owner \in Wallets
              => Signed(accounts[a].owner)
<1>1. Commit
  BY DEF TxNext, Begin, Reject, CreateConfigAccount, PayerShort, Fund,
     BurnSource, AllowanceShort, PayOut, Sweep, StoreRefused, Call, Elsewhere, TokenWorld,
     SetUpgradeAuthority,
     NextSlot, Tick, SendLamports, allVars, vars
<1>2. TypeOK
  BY DEF IInv
<1>3. tx # Idle /\ tx.pc \in {"store terms", "store pause", "count", "close out"}
  BY <1>1, <1>2, CommitMeans
<1>4. PICK ix \in Wires :
        /\ ix = tx.ix /\ WireOK(ix) /\ Fits(tx.pc, ix.tag) /\ Passed(ix)
        /\ tx.config = config /\ tx.read = config /\ CallsStillOK
        /\ accounts' = After(tx.pc, ix, accounts)
        /\ config' = StoredConfigAfter(ix)
  BY <1>1, <1>2, CommitMeans
<1>5. \A w : Signs(ix, w) => Signed(w)
  BY <1>3, <1>4 DEF Signed
<1>6. accounts \in [TokenAddr -> Account] /\ VaultAuthority \notin Wallets
  BY <1>2, AddressAssumption DEF TypeOK, TokenTypeOK
<1>8. CASE tx.pc = "store terms"
  <2>1. ix.tag = 0 /\ InitializePassed(ix)
    BY <1>4, <1>8, PassedWhere
  <2>2. /\ Key(ix, 4) \in TokenAddr /\ Key(ix, 7) \in TokenAddr
        /\ ix.fields[3] \in Amounts
    BY <1>4, <2>1, PassedInitialize
  <2>3. /\ Signs(ix, Key(ix, 1)) /\ Signs(ix, Key(ix, 2)) /\ Signs(ix, Key(ix, 3))
        /\ upgradeAuthority = Key(ix, 1)
        /\ accounts[Key(ix, 4)].owner = Key(ix, 3)
    BY <2>1 DEF InitializePassed, InitializeChecks,
                InitializerIsUpgradeAuthority,
       FundingOK, CustodyOK, TokenAccountOK
  <2>4. accounts' = Transferred(accounts, Key(ix, 4), Key(ix, 7), ix.fields[3])
    BY <1>4, <1>8 DEF After
  <2>5. config'.admin = Key(ix, 2) /\ config'.refund_recipient = Key(ix, 3)
    BY <1>4, <1>8 DEF StoredConfigAfter, InitialConfig
  <2>6. ~config.created
    BY <1>4, <1>8 DEF CallsStillOK, ConfigAccountFree
  <2>7. \A a \in TokenAddr : accounts'[a].amount < accounts[a].amount => a = Key(ix, 4)
    BY <1>6, <2>2, <2>4, Losers
  <2> QED BY <1>5, <2>3, <2>5, <2>6, <2>7
<1>9. CASE tx.pc = "store pause"
  <2>1. ix.tag = 1 /\ SetPausePassed(ix)
    BY <1>4, <1>9, PassedWhere
  <2>2. Signs(ix, Key(ix, 1)) /\ config.admin = Key(ix, 1) /\ config.created
    BY <2>1 DEF SetPausePassed
  <2>3. accounts' = accounts
    BY <1>4, <1>9 DEF After
  <2>4. \A a \in TokenAddr : ~ accounts'[a].amount < accounts[a].amount
    <3>1. \A a \in TokenAddr : accounts[a].amount \in Int
      BY <1>6, AddressAssumption DEF Account, Amounts
    <3> QED BY <2>3, <3>1
  <2> QED BY <1>5, <2>2, <2>4
<1>10. CASE tx.pc = "count"
  <2>1. ix.tag = 2 /\ MigratePassed(ix)
    BY <1>4, <1>10, PassedWhere
  <2>2. /\ Key(ix, 4) \in TokenAddr /\ Key(ix, 5) \in TokenAddr
        /\ Key(ix, 6) \in TokenAddr /\ ix.fields[1] \in Amounts /\ config.created
    BY <1>4, <2>1, PassedMigrate
  <2>3. /\ Signs(ix, Key(ix, 1))
        /\ accounts[Key(ix, 5)].owner = Key(ix, 1)
        /\ accounts[Key(ix, 4)].owner = VaultAuthority
    BY <2>1 DEF MigratePassed, MigrateChecks, ReserveOK, CustodyOK,
                TokenAccountOK
  <2>4. accounts' = Transferred(Burned(accounts, Key(ix, 5), ix.fields[1]),
                                Key(ix, 4), Key(ix, 6), ix.fields[1])
    BY <1>4, <1>10 DEF After
  <2>5. config'.paused = config.paused
    <3>1. config' = [config EXCEPT !.total_migrated = config.total_migrated + ix.fields[1]]
      BY <1>4, <1>10 DEF StoredConfigAfter, StoredTotal
    <3>2. config \in MigrationConfig
      BY <1>2, <2>2, ConfigCreated
    <3> QED BY <3>1, <3>2 DEF MigrationConfig
  <2>6. \A a \in TokenAddr : accounts'[a].amount < accounts[a].amount =>
           a \in {Key(ix, 4), Key(ix, 5)}
    BY <1>6, <2>2, <2>4, Losers
  <2> QED BY <1>5, <1>6, <2>2, <2>3, <2>5, <2>6
<1>11. CASE tx.pc = "close out"
  <2>1. ix.tag = 3 /\ WithdrawPassed(ix)
    BY <1>4, <1>11, PassedWhere
  <2>2. Key(ix, 3) \in TokenAddr /\ Key(ix, 4) \in TokenAddr /\ config.created
    BY <1>4, <2>1, PassedWithdraw
  <2>3. accounts[Key(ix, 3)].owner = VaultAuthority
    BY <2>1 DEF WithdrawPassed, WithdrawChecks, ReserveOK, CustodyOK,
                TokenAccountOK
  <2>4. /\ accounts' = Transferred(accounts, Key(ix, 3), Key(ix, 4),
                                   accounts[Key(ix, 3)].amount)
        /\ accounts[Key(ix, 3)].amount \in Amounts
    BY <1>4, <1>6, <1>11, <2>2 DEF After, Account
  <2>5. config'.paused = config.paused
    <3>1. config' = [config EXCEPT !.unclaimed_withdrawn = TRUE]
      BY <1>4, <1>11 DEF StoredConfigAfter, StoredCloseout
    <3>2. config \in MigrationConfig
      BY <1>2, <2>2, ConfigCreated
    <3> QED BY <3>1, <3>2 DEF MigrationConfig
  <2>6. \A a \in TokenAddr : accounts'[a].amount < accounts[a].amount => a = Key(ix, 3)
    BY <1>6, <2>2, <2>4, Losers
  <2> QED BY <1>5, <1>6, <2>2, <2>3, <2>5, <2>6
<1> QED BY <1>3, <1>8, <1>9, <1>10, <1>11

\* Whatever flags and accounts a caller sends: nothing happens in the name of the
\* upgrade authority, the admin, the funder or a holder without a signature (the
\* signer checks of the four processors).
THEOREM SignaturesBind == TxSpec => SignedFor
<1> DEFINE A == config' # config =>
       /\ ~config.created =>
            /\ Signed(upgradeAuthority)
            /\ Signed(config'.admin) /\ Signed(config'.refund_recipient)
       /\ config.created /\ config'.paused # config.paused =>
            Signed(config.admin)
       /\ \A a \in TokenAddr :
            /\ accounts'[a].amount < accounts[a].amount
            /\ accounts[a].owner \in Wallets
            => Signed(accounts[a].owner)
<1>1. IInv /\ TxInv /\ [TxNext]_allVars => [A]_allVars
  BY SignaturesNeeded
<1> QED BY <1>1, TxInvariance, PTL DEF TxSpec, SignedFor


-----------------------------------------------------------------------------
(* What the SDK builds *)

LEMMA EntryMeans ==
  ASSUME NEW ix, NEW j \in DOMAIN ix.metas
  PROVE  /\ Key(ix, j) = ix.metas[j].key /\ Names(ix, ix.metas[j].key)
         /\ ix.metas[j].signer => Signs(ix, Key(ix, j))
         /\ ix.metas[j].writable => Writes(ix, Key(ix, j))
BY DEF Key, Names, Signs, Writes

\* Keys, signatures and writable flags that each builder puts where its handler
\* looks for them.
LEMMA InitializeBuilt ==
  ASSUME NEW i \in InitializeIntents, NEW ix, ix = WireOf(i)
  PROVE  /\ ix.tag = 0 /\ ix.length = 24 /\ Len(ix.metas) = 12
         /\ ix.fields[1] = i.startTs /\ ix.fields[2] = i.endTs /\ ix.fields[3] = i.cap
         /\ Key(ix, 1) = i.initializer /\ Key(ix, 3) = i.funder
         /\ Key(ix, 4) = i.from /\ Key(ix, 5) = ConfigPda
         /\ Key(ix, 6) = VaultAuthority /\ Key(ix, 7) = i.vault
         /\ Key(ix, 8) = i.src /\ Key(ix, 9) = i.dst
         /\ Key(ix, 10) = TokenProgramId /\ Key(ix, 12) = ProgramData
         /\ Signs(ix, Key(ix, 1)) /\ Signs(ix, Key(ix, 2)) /\ Signs(ix, Key(ix, 3))
         /\ Writes(ix, Key(ix, 1)) /\ Writes(ix, Key(ix, 4)) /\ Writes(ix, Key(ix, 7))
         /\ Writes(ix, ConfigPda) /\ Names(ix, SystemProgramId)
<1> DEFINE metas ==
      << Meta(i.initializer, TRUE, TRUE), Signer(i.opsAdmin), Signer(i.funder),
         Writable(i.from), Writable(ConfigPda), ReadOnly(VaultAuthority),
         Writable(i.vault), ReadOnly(i.src), ReadOnly(i.dst),
         ReadOnly(TokenProgramId), ReadOnly(SystemProgramId),
         ReadOnly(ProgramData) >>
<1>1. ix = [tag |-> 0, length |-> 24,
            fields |-> <<i.startTs, i.endTs, i.cap>>, metas |-> metas]
  BY InitializeWire DEF BuildInitializeConfig, Wire
<1>2. /\ metas[1] = Meta(i.initializer, TRUE, TRUE) /\ metas[2] = Signer(i.opsAdmin)
      /\ metas[3] = Signer(i.funder) /\ metas[4] = Writable(i.from)
      /\ metas[5] = Writable(ConfigPda) /\ metas[6] = ReadOnly(VaultAuthority)
      /\ metas[7] = Writable(i.vault) /\ metas[8] = ReadOnly(i.src)
      /\ metas[9] = ReadOnly(i.dst) /\ metas[10] = ReadOnly(TokenProgramId)
      /\ metas[11] = ReadOnly(SystemProgramId) /\ metas[12] = ReadOnly(ProgramData)
      /\ DOMAIN metas = 1 .. 12 /\ Len(metas) = 12
  OBVIOUS
<1> HIDE DEF metas
<1>3. /\ ix.metas = metas /\ DOMAIN ix.metas = 1 .. 12 /\ Len(ix.metas) = 12
      /\ ix.tag = 0 /\ ix.length = 24
      /\ ix.fields[1] = i.startTs /\ ix.fields[2] = i.endTs /\ ix.fields[3] = i.cap
  BY <1>1, <1>2
<1>4. /\ metas[1].key = i.initializer /\ metas[1].signer /\ metas[1].writable
      /\ metas[2].signer /\ metas[3].key = i.funder /\ metas[3].signer
      /\ metas[4].key = i.from /\ metas[4].writable
      /\ metas[5].key = ConfigPda /\ metas[5].writable
      /\ metas[6].key = VaultAuthority
      /\ metas[7].key = i.vault /\ metas[7].writable
      /\ metas[8].key = i.src /\ metas[9].key = i.dst
      /\ metas[10].key = TokenProgramId /\ metas[11].key = SystemProgramId
      /\ metas[12].key = ProgramData
  BY <1>2 DEF Meta, Signer, Writable, ReadOnly
<1>5. /\ Key(ix, 1) = metas[1].key /\ Key(ix, 3) = metas[3].key
      /\ Key(ix, 4) = metas[4].key /\ Key(ix, 5) = metas[5].key
      /\ Key(ix, 6) = metas[6].key /\ Key(ix, 7) = metas[7].key
      /\ Key(ix, 8) = metas[8].key /\ Key(ix, 9) = metas[9].key
      /\ Key(ix, 10) = metas[10].key /\ Key(ix, 12) = metas[12].key
      /\ Names(ix, metas[11].key)
  BY <1>3, EntryMeans
<1>6. /\ Signs(ix, Key(ix, 1)) /\ Signs(ix, Key(ix, 2)) /\ Signs(ix, Key(ix, 3))
      /\ Writes(ix, Key(ix, 1)) /\ Writes(ix, Key(ix, 4)) /\ Writes(ix, Key(ix, 7))
      /\ Writes(ix, Key(ix, 5))
  BY <1>3, <1>4, EntryMeans
<1> QED BY <1>3, <1>4, <1>5, <1>6

LEMMA PauseBuilt ==
  ASSUME NEW i \in PauseIntents, NEW ix, ix = WireOf(i)
  PROVE  /\ ix.tag = 1 /\ ix.length = 1 /\ Len(ix.metas) = 2
         /\ ix.fields[1] \in {0, 1}
         /\ Key(ix, 1) = i.admin /\ Key(ix, 2) = ConfigPda
         /\ Signs(ix, Key(ix, 1)) /\ Writes(ix, ConfigPda)
<1> DEFINE metas == << Signer(i.admin), Writable(ConfigPda) >>
<1>1. ix = [tag |-> 1, length |-> 1, fields |-> <<Flag(i.paused)>>, metas |-> metas]
  BY PauseWire DEF BuildSetPause, Wire
<1>2. /\ metas[1] = Signer(i.admin) /\ metas[2] = Writable(ConfigPda)
      /\ DOMAIN metas = 1 .. 2 /\ Len(metas) = 2
  OBVIOUS
<1> HIDE DEF metas
<1>3. /\ ix.metas = metas /\ DOMAIN ix.metas = 1 .. 2 /\ Len(ix.metas) = 2
      /\ ix.tag = 1 /\ ix.length = 1 /\ ix.fields[1] \in {0, 1}
  BY <1>1, <1>2 DEF Flag
<1>4. /\ metas[1].key = i.admin /\ metas[1].signer
      /\ metas[2].key = ConfigPda /\ metas[2].writable
  BY <1>2 DEF Meta, Signer, Writable
<1>5. /\ Key(ix, 1) = metas[1].key /\ Key(ix, 2) = metas[2].key
      /\ Signs(ix, Key(ix, 1)) /\ Writes(ix, Key(ix, 2))
  BY <1>3, <1>4, EntryMeans
<1> QED BY <1>3, <1>4, <1>5

LEMMA MigrateBuilt ==
  ASSUME NEW i \in MigrateIntents, NEW ix, ix = WireOf(i)
  PROVE  /\ ix.tag = 2 /\ ix.length = 8 /\ Len(ix.metas) = 9
         /\ ix.fields[1] = i.n
         /\ Key(ix, 1) = i.user /\ Key(ix, 2) = ConfigPda
         /\ Key(ix, 3) = VaultAuthority /\ Key(ix, 4) = i.vault
         /\ Key(ix, 5) = i.from /\ Key(ix, 6) = i.to
         /\ Key(ix, 7) = i.src /\ Key(ix, 8) = i.dst /\ Key(ix, 9) = TokenProgramId
         /\ Signs(ix, Key(ix, 1)) /\ Writes(ix, ConfigPda)
         /\ Writes(ix, Key(ix, 4)) /\ Writes(ix, Key(ix, 5))
         /\ Writes(ix, Key(ix, 6)) /\ Writes(ix, Key(ix, 7))
<1> DEFINE metas ==
      << Signer(i.user), Writable(ConfigPda), ReadOnly(VaultAuthority),
         Writable(i.vault), Writable(i.from), Writable(i.to), Writable(i.src),
         ReadOnly(i.dst), ReadOnly(TokenProgramId) >>
<1>1. ix = [tag |-> 2, length |-> 8, fields |-> <<i.n>>, metas |-> metas]
  BY MigrateWire DEF BuildMigrateExact, Wire
<1>2. /\ metas[1] = Signer(i.user) /\ metas[2] = Writable(ConfigPda)
      /\ metas[3] = ReadOnly(VaultAuthority) /\ metas[4] = Writable(i.vault)
      /\ metas[5] = Writable(i.from) /\ metas[6] = Writable(i.to)
      /\ metas[7] = Writable(i.src) /\ metas[8] = ReadOnly(i.dst)
      /\ metas[9] = ReadOnly(TokenProgramId)
      /\ DOMAIN metas = 1 .. 9 /\ Len(metas) = 9
  OBVIOUS
<1> HIDE DEF metas
<1>3. /\ ix.metas = metas /\ DOMAIN ix.metas = 1 .. 9 /\ Len(ix.metas) = 9
      /\ ix.tag = 2 /\ ix.length = 8 /\ ix.fields[1] = i.n
  BY <1>1, <1>2
<1>4. /\ metas[1].key = i.user /\ metas[1].signer
      /\ metas[2].key = ConfigPda /\ metas[2].writable
      /\ metas[3].key = VaultAuthority
      /\ metas[4].key = i.vault /\ metas[4].writable
      /\ metas[5].key = i.from /\ metas[5].writable
      /\ metas[6].key = i.to /\ metas[6].writable
      /\ metas[7].key = i.src /\ metas[7].writable
      /\ metas[8].key = i.dst /\ metas[9].key = TokenProgramId
  BY <1>2 DEF Meta, Signer, Writable, ReadOnly
<1>5. /\ Key(ix, 1) = metas[1].key /\ Key(ix, 2) = metas[2].key
      /\ Key(ix, 3) = metas[3].key /\ Key(ix, 4) = metas[4].key
      /\ Key(ix, 5) = metas[5].key /\ Key(ix, 6) = metas[6].key
      /\ Key(ix, 7) = metas[7].key /\ Key(ix, 8) = metas[8].key
      /\ Key(ix, 9) = metas[9].key
  BY <1>3, EntryMeans
<1>6. /\ Signs(ix, Key(ix, 1)) /\ Writes(ix, Key(ix, 2))
      /\ Writes(ix, Key(ix, 4)) /\ Writes(ix, Key(ix, 5))
      /\ Writes(ix, Key(ix, 6)) /\ Writes(ix, Key(ix, 7))
  BY <1>3, <1>4, EntryMeans
<1> QED BY <1>3, <1>4, <1>5, <1>6

LEMMA WithdrawBuilt ==
  ASSUME NEW i \in WithdrawIntents, NEW ix, ix = WireOf(i)
  PROVE  /\ ix.tag = 3 /\ ix.length = 0 /\ Len(ix.metas) = 6
         /\ Key(ix, 1) = ConfigPda /\ Key(ix, 2) = VaultAuthority
         /\ Key(ix, 3) = i.vault /\ Key(ix, 4) = i.to
         /\ Key(ix, 5) = i.dst /\ Key(ix, 6) = TokenProgramId
         /\ Writes(ix, ConfigPda) /\ Writes(ix, Key(ix, 3)) /\ Writes(ix, Key(ix, 4))
<1> DEFINE metas ==
      << Writable(ConfigPda), ReadOnly(VaultAuthority), Writable(i.vault),
         Writable(i.to), ReadOnly(i.dst), ReadOnly(TokenProgramId) >>
<1>1. ix = [tag |-> 3, length |-> 0, fields |-> <<>>, metas |-> metas]
  BY WithdrawWire DEF BuildWithdrawUnclaimed, Wire
<1>2. /\ metas[1] = Writable(ConfigPda) /\ metas[2] = ReadOnly(VaultAuthority)
      /\ metas[3] = Writable(i.vault) /\ metas[4] = Writable(i.to)
      /\ metas[5] = ReadOnly(i.dst) /\ metas[6] = ReadOnly(TokenProgramId)
      /\ DOMAIN metas = 1 .. 6 /\ Len(metas) = 6
  OBVIOUS
<1> HIDE DEF metas
<1>3. /\ ix.metas = metas /\ DOMAIN ix.metas = 1 .. 6 /\ Len(ix.metas) = 6
      /\ ix.tag = 3 /\ ix.length = 0
  BY <1>1, <1>2
<1>4. /\ metas[1].key = ConfigPda /\ metas[1].writable
      /\ metas[2].key = VaultAuthority
      /\ metas[3].key = i.vault /\ metas[3].writable
      /\ metas[4].key = i.to /\ metas[4].writable
      /\ metas[5].key = i.dst /\ metas[6].key = TokenProgramId
  BY <1>2 DEF Meta, Writable, ReadOnly
<1>5. /\ Key(ix, 1) = metas[1].key /\ Key(ix, 2) = metas[2].key
      /\ Key(ix, 3) = metas[3].key /\ Key(ix, 4) = metas[4].key
      /\ Key(ix, 5) = metas[5].key /\ Key(ix, 6) = metas[6].key
      /\ Writes(ix, Key(ix, 1)) /\ Writes(ix, Key(ix, 3)) /\ Writes(ix, Key(ix, 4))
  BY <1>3, <1>4, EntryMeans
<1> QED BY <1>3, <1>4, <1>5

\* What is possible passes the checks when the SDK has built it.
LEMMA PossibleAnswered ==
  ASSUME NEW i \in Intents, Possible(i)
  PROVE  Answer(WireOf(i)) = "ok"
<1>0. PICK ix : ix = WireOf(i)
  OBVIOUS
<1>1. i \in InitializeIntents \cup PauseIntents \cup MigrateIntents \cup WithdrawIntents
  BY TxAssumption
<1>2. CASE i \in InitializeIntents
  <2>1. /\ i.from \in TokenAddr /\ i.vault \in TokenAddr /\ i.src \in Mints
        /\ i.dst \in Mints
    BY <1>2 DEF InitializeIntents
  <2>2. InitializeChecks(i.initializer, i.funder, i.from, i.vault, i.src,
                         i.dst, i.startTs, i.endTs, i.cap)
    BY <1>2 DEF InitializeIntents, Possible
  <2>3. /\ ix.tag = 0 /\ ix.length = 24 /\ Len(ix.metas) = 12
        /\ ix.fields[1] = i.startTs /\ ix.fields[2] = i.endTs /\ ix.fields[3] = i.cap
        /\ Key(ix, 1) = i.initializer /\ Key(ix, 3) = i.funder
        /\ Key(ix, 4) = i.from /\ Key(ix, 5) = ConfigPda
        /\ Key(ix, 6) = VaultAuthority /\ Key(ix, 7) = i.vault
        /\ Key(ix, 8) = i.src /\ Key(ix, 9) = i.dst
        /\ Key(ix, 10) = TokenProgramId /\ Key(ix, 12) = ProgramData
        /\ Signs(ix, Key(ix, 1)) /\ Signs(ix, Key(ix, 2)) /\ Signs(ix, Key(ix, 3))
    BY <1>0, <1>2, InitializeBuilt
  <2>4. InitializePassed(ix)
    BY <2>1, <2>2, <2>3 DEF InitializePassed
  <2> QED BY <1>0, <2>3, <2>4, AnswerMeans DEF Passed
<1>3. CASE i \in PauseIntents
  <2>1. config.created /\ config.admin = i.admin
    BY <1>3 DEF PauseIntents, Possible
  <2>2. ix.tag = 1 /\ SetPausePassed(ix)
    BY <1>0, <1>3, <2>1, PauseBuilt DEF SetPausePassed
  <2> QED BY <1>0, <2>2, AnswerMeans DEF Passed
<1>4. CASE i \in MigrateIntents
  <2>1. /\ i.from \in TokenAddr /\ i.vault \in TokenAddr /\ i.to \in TokenAddr
        /\ i.src \in Mints /\ i.dst \in Mints
    BY <1>4 DEF MigrateIntents
  <2>2. /\ MigrateChecks(i.user, i.vault, i.from, i.to, i.n)
        /\ i.src = config.source_mint /\ i.dst = config.destination_mint
    BY <1>4 DEF MigrateIntents, Possible
  <2>3. /\ ix.tag = 2 /\ ix.length = 8 /\ Len(ix.metas) = 9
        /\ ix.fields[1] = i.n
        /\ Key(ix, 1) = i.user /\ Key(ix, 2) = ConfigPda
        /\ Key(ix, 3) = VaultAuthority /\ Key(ix, 4) = i.vault
        /\ Key(ix, 5) = i.from /\ Key(ix, 6) = i.to
        /\ Key(ix, 7) = i.src /\ Key(ix, 8) = i.dst /\ Key(ix, 9) = TokenProgramId
        /\ Signs(ix, Key(ix, 1))
    BY <1>0, <1>4, MigrateBuilt
  <2>4. MigratePassed(ix)
    BY <2>1, <2>2, <2>3 DEF MigratePassed
  <2> QED BY <1>0, <2>3, <2>4, AnswerMeans DEF Passed
<1>5. CASE i \in WithdrawIntents
  <2>1. i.vault \in TokenAddr /\ i.to \in TokenAddr /\ i.dst \in Mints
    BY <1>5 DEF WithdrawIntents
  <2>2. WithdrawChecks(i.vault, i.to) /\ i.dst = config.destination_mint
    BY <1>5 DEF WithdrawIntents, Possible
  <2>3. /\ ix.tag = 3 /\ ix.length = 0 /\ Len(ix.metas) = 6
        /\ Key(ix, 1) = ConfigPda /\ Key(ix, 2) = VaultAuthority
        /\ Key(ix, 3) = i.vault /\ Key(ix, 4) = i.to
        /\ Key(ix, 5) = i.dst /\ Key(ix, 6) = TokenProgramId
    BY <1>0, <1>5, WithdrawBuilt
  <2>4. WithdrawPassed(ix)
    BY <2>1, <2>2, <2>3 DEF WithdrawPassed
  <2> QED BY <1>0, <2>3, <2>4, AnswerMeans DEF Passed
<1> QED BY <1>1, <1>2, <1>3, <1>4, <1>5

\* The account lists, flags and data of the SDK's four builders are what the
\* program's handlers expect: whatever the program can do, asked for by way of
\* the SDK, passes the checks (src/sdk/src/index.ts and the four processors).
THEOREM BuildersFit == TxSpec => []BuiltAccepted
<1>1. BuiltAccepted
  BY PossibleAnswered DEF BuiltAccepted
<1> QED BY <1>1, PTL


-----------------------------------------------------------------------------
(* What the SDK builds runs to its commit *)

\* The flags of the built wires, by the instruction they are for.
LEMMA BuiltFlags ==
  ASSUME NEW i \in Intents, NEW ix, ix = WireOf(i)
  PROVE  /\ Writes(ix, ConfigPda)
         /\ ix.tag = 0 =>
              /\ Names(ix, SystemProgramId)
              /\ Signs(ix, Key(ix, 1)) /\ Signs(ix, Key(ix, 3))
              /\ Writes(ix, Key(ix, 1)) /\ Writes(ix, Key(ix, 4))
              /\ Writes(ix, Key(ix, 7))
         /\ ix.tag = 2 =>
              /\ Signs(ix, Key(ix, 1)) /\ Writes(ix, Key(ix, 4))
              /\ Writes(ix, Key(ix, 5)) /\ Writes(ix, Key(ix, 6))
              /\ Writes(ix, Key(ix, 7))
         /\ ix.tag = 3 => Writes(ix, Key(ix, 3)) /\ Writes(ix, Key(ix, 4))
<1>1. i \in InitializeIntents \cup PauseIntents \cup MigrateIntents \cup WithdrawIntents
  BY TxAssumption
<1>2. CASE i \in InitializeIntents
  BY <1>2, InitializeBuilt
<1>3. CASE i \in PauseIntents
  BY <1>3, PauseBuilt
<1>4. CASE i \in MigrateIntents
  BY <1>4, MigrateBuilt
<1>5. CASE i \in WithdrawIntents
  BY <1>5, WithdrawBuilt
<1> QED BY <1>1, <1>2, <1>3, <1>4, <1>5

\* A running instruction that ends is at one of its steps.
LEMMA EndsWhere ==
  ASSUME tx # Idle, tx' = Idle, [TxNext]_allVars
  PROVE  \/ CreateConfigAccount \/ PayerShort \/ Fund \/ BurnSource
         \/ AllowanceShort \/ PayOut \/ Sweep \/ Commit \/ StoreRefused
<1>1. ASSUME NEW ix \in Wires, Begin(ix) \/ Reject(ix) PROVE FALSE
  BY <1>1 DEF Begin, Reject
<1>2. ~Elsewhere /\ ~NextSlot /\ ~SendLamports /\ ~UNCHANGED allVars
  BY DEF Elsewhere, NextSlot, SendLamports, txVars, allVars
<1> QED BY <1>1, <1>2 DEF TxNext

\* A call that goes on does not end the instruction.
LEMMA CallRefused ==
  ASSUME NEW pc, NEW ok \in BOOLEAN, NEW after, Call(pc, ok, after), tx' = Idle,
         after.pc # "idle"
  PROVE  ~ok
<1>1. Idle.pc = "idle"
  BY DEF Idle
<1> QED BY <1>1 DEF Call

LEMMA BuiltCompletes ==
  ASSUME IInv, TxInv, HoldingsBacked, [TxNext]_allVars, tx # Idle, tx' = Idle,
         NEW i \in Intents, tx.ix = WireOf(i)
  PROVE  \/ AtStore /\ config' = StoredConfigAfter(tx.ix)
         \/ tx.pc = "create" /\ (config.created \/ lamports < Rent)
         \/ /\ tx.pc = "burn"
            /\ \/ accounts[Key(tx.ix, 5)].amount < tx.ix.fields[1]
               \/ accounts[Key(tx.ix, 5)].delegate
<1>0. Idle.pc = "idle"
  BY DEF Idle
<1>1. PICK ix \in Wires :
           /\ ix = tx.ix /\ WireOK(ix) /\ Fits(tx.pc, ix.tag) /\ Passed(ix)
           /\ tx.config = config /\ CallsStillOK
           /\ tx.accounts \in [TokenAddr -> Account] /\ tx.mints \in [Mints -> Mint]
           /\ \A a \in TokenAddr :
                Names(ix, a) => tx.accounts[a] = After(tx.pc, ix, accounts)[a]
           /\ \A m \in Mints :
                Names(ix, m) => tx.mints[m] = MintsAfter(tx.pc, ix, mints)[m]
  BY FlightFacts
<1>2. /\ Writes(ix, ConfigPda)
      /\ ix.tag = 0 =>
           /\ Names(ix, SystemProgramId)
           /\ Signs(ix, Key(ix, 1)) /\ Signs(ix, Key(ix, 3))
           /\ Writes(ix, Key(ix, 1)) /\ Writes(ix, Key(ix, 4)) /\ Writes(ix, Key(ix, 7))
      /\ ix.tag = 2 =>
           /\ Signs(ix, Key(ix, 1)) /\ Writes(ix, Key(ix, 4))
           /\ Writes(ix, Key(ix, 5)) /\ Writes(ix, Key(ix, 6)) /\ Writes(ix, Key(ix, 7))
      /\ ix.tag = 3 => Writes(ix, Key(ix, 3)) /\ Writes(ix, Key(ix, 4))
  BY <1>1, BuiltFlags
<1>3. tx \in InFlight /\ (tx.pc = "create" => tx.lamports = lamports)
  BY DEF TxInv, TxTypeOK
<1>4. CASE CreateConfigAccount
  <2>1. tx.pc = "create" /\ ~CreateOK(ix)
    <3>1. [tx EXCEPT !.pc = "fund", !.lamports = @ + Missing].pc = "fund"
      BY <1>3 DEF InFlight
    <3>2. CreateOK(tx.ix) \in BOOLEAN
      BY DEF CreateOK
    <3> QED BY <1>1, <1>4, <3>1, <3>2, CallRefused DEF CreateConfigAccount, Call
  <2>2. ix.tag = 0
    BY <1>1, <2>1 DEF Fits
  <2> QED BY <1>1, <1>2, <2>1, <2>2 DEF CreateOK
<1>5. CASE PayerShort
  <2>1. tx.pc = "create" /\ Missing > 0
    BY <1>5 DEF PayerShort
  <2>2. lamports < Rent
    BY <1>3, <2>1 DEF Missing
  <2> QED BY <2>1, <2>2
<1>6. CASE Fund
  <2> DEFINE from == Key(ix, 4)
             vault == Key(ix, 7)
             cap == ix.fields[3]
  <2>1. tx.pc = "fund"
    BY <1>6 DEF Fund, Call
  <2>2. ix.tag = 0 /\ InitializePassed(ix)
    BY <1>1, <2>1, PassedWhere
  <2>3. /\ from \in TokenAddr /\ vault \in TokenAddr /\ cap \in Amounts
        /\ Names(ix, from) /\ Names(ix, vault)
    BY <1>1, <2>2, PassedInitialize
  <2>4. tx.accounts[from] = accounts[from] /\ tx.accounts[vault] = accounts[vault]
    BY <1>1, <2>1, <2>3 DEF After
  <2>5. /\ accounts[from].state = "initialized" /\ accounts[vault].state = "initialized"
        /\ accounts[from].mint = accounts[vault].mint
        /\ accounts[vault].amount = 0 /\ accounts[from].amount >= cap
    BY <2>2 DEF InitializePassed, InitializeChecks, FundingOK, CustodyOK,
                TokenAccountOK
  <2>6. 0 + cap <= U64Max
    BY <2>3, AddressAssumption DEF Amounts
  <2> HIDE DEF from, vault, cap
  <2>7. TransferOK(tx.accounts, from, vault, cap)
    BY <2>4, <2>5, <2>6 DEF TransferOK
  <2>8. MayTransfer(ix, from, vault, cap) /\ Signs(ix, Key(ix, 3))
    BY <1>2, <2>2, <2>7 DEF MayTransfer, from, vault
  <2>9. tx' = [tx EXCEPT !.pc = "store terms",
                         !.accounts = Transferred(@, from, vault, cap)]
    BY <1>1, <1>6, <2>8 DEF Fund, Call, from, vault, cap
  <2>10. tx'.pc = "store terms"
    BY <1>3, <2>9 DEF InFlight
  <2> QED BY <1>0, <2>10
<1>7. CASE BurnSource
  <2> DEFINE from == Key(ix, 5)
             src == Key(ix, 7)
             n == ix.fields[1]
  <2>1. tx.pc = "burn"
    BY <1>7 DEF BurnSource, Call
  <2>2. ix.tag = 2 /\ MigratePassed(ix)
    BY <1>1, <2>1, PassedWhere
  <2>3. /\ Key(ix, 1) \in Wallets /\ Key(ix, 4) \in TokenAddr /\ Key(ix, 6) \in TokenAddr
        /\ from \in TokenAddr /\ src \in Mints /\ src = config.source_mint
        /\ n \in Amounts /\ Names(ix, from) /\ Names(ix, src)
    BY <1>1, <2>2, PassedMigrate
  <2>4. tx.accounts[from] = accounts[from] /\ tx.mints[src] = mints[src]
    BY <1>1, <2>1, <2>3 DEF After, MintsAfter
  <2>5. MigrateChecks(Key(ix, 1), Key(ix, 4), from, Key(ix, 6), n)
    BY <2>2 DEF MigratePassed
  <2>6. accounts[from].amount \in Int /\ n \in Int
    <3>1. accounts[from].amount \in Amounts
      BY <2>3 DEF IInv, TypeOK, TokenTypeOK, Account
    <3> QED BY <2>3, <3>1, AddressAssumption DEF Amounts
  <2>7. CASE accounts[from].amount < n
    BY <1>1, <2>1, <2>7
  <2>8. CASE accounts[from].amount >= n
    <3> HIDE DEF from, src, n
    <3>1. BurnOK(accounts, mints, from, src, n)
      BY <2>3, <2>5, <2>8, ClaimCalls DEF MigrateCallsOK
    <3>2. BurnOK(tx.accounts, tx.mints, from, src, n)
      BY <2>4, <3>1 DEF BurnOK
    <3>3. Signs(ix, Key(ix, 1)) /\ Writes(ix, from) /\ Writes(ix, src)
      BY <1>2, <2>2 DEF from, src
    <3>4. tx' = [tx EXCEPT !.pc = "pay", !.accounts = Burned(@, from, n),
                           !.mints = SupplyBurned(@, src, n)]
      BY <1>1, <1>7, <3>2, <3>3 DEF BurnSource, Call, from, src, n
    <3>5. tx'.pc = "pay"
      BY <1>3, <3>4 DEF InFlight
    <3> QED BY <1>0, <3>5
  <2> QED BY <2>6, <2>7, <2>8
<1>8. CASE PayOut
  <2> DEFINE vault == Key(ix, 4)
             from == Key(ix, 5)
             to == Key(ix, 6)
             n == ix.fields[1]
             bc == Burned(accounts, from, n)
  <2>1. tx.pc = "pay"
    BY <1>8 DEF PayOut, Call
  <2>2. ix.tag = 2 /\ MigratePassed(ix)
    BY <1>1, <2>1, PassedWhere
  <2>3. /\ Key(ix, 1) \in Wallets /\ vault \in TokenAddr /\ to \in TokenAddr
        /\ from \in TokenAddr /\ n \in Amounts /\ Names(ix, vault) /\ Names(ix, to)
    BY <1>1, <2>2, PassedMigrate
  <2>4. tx.accounts[vault] = bc[vault] /\ tx.accounts[to] = bc[to]
    BY <1>1, <2>1, <2>3 DEF After
  <2>5. MigrateChecks(Key(ix, 1), vault, from, to, n)
    BY <2>2 DEF MigratePassed
  <2>6. accounts[from].amount >= n
    BY <1>1, <2>1 DEF CallsStillOK, BurnOK
  <2> HIDE DEF bc, vault, from, to, n
  <2>7. TransferOK(bc, vault, to, n)
    BY <2>3, <2>5, <2>6, ClaimCalls DEF MigrateCallsOK, bc
  <2>8. TransferOK(tx.accounts, vault, to, n)
    BY <2>4, <2>7 DEF TransferOK
  <2>9. MayTransfer(ix, vault, to, n)
    BY <1>2, <2>2, <2>8 DEF MayTransfer, vault, to
  <2>10. tx' = [tx EXCEPT !.pc = "count", !.accounts = Transferred(@, vault, to, n)]
    BY <1>1, <1>8, <2>9 DEF PayOut, Call, vault, to, n
  <2>11. tx'.pc = "count"
    BY <1>3, <2>10 DEF InFlight
  <2> QED BY <1>0, <2>11
<1>9. CASE Sweep
  <2> DEFINE vault == Key(ix, 3)
             to == Key(ix, 4)
             n == accounts[vault].amount
  <2>1. tx.pc = "sweep"
    BY <1>9 DEF Sweep, Call
  <2>2. ix.tag = 3 /\ WithdrawPassed(ix)
    BY <1>1, <2>1, PassedWhere
  <2>3. vault \in TokenAddr /\ to \in TokenAddr /\ Names(ix, vault) /\ Names(ix, to)
    BY <1>1, <2>2, PassedWithdraw
  <2>4. tx.accounts[vault] = accounts[vault] /\ tx.accounts[to] = accounts[to]
    BY <1>1, <2>1, <2>3 DEF After
  <2>5. WithdrawChecks(vault, to)
    BY <2>2 DEF WithdrawPassed
  <2> HIDE DEF vault, to
  <2>6. TransferOK(accounts, vault, to, n)
    BY <2>3, <2>5, CloseoutCalls DEF WithdrawCallsOK, CloseoutAmount
  <2> HIDE DEF n
  <2>7. TransferOK(tx.accounts, vault, to, n)
    BY <2>4, <2>6 DEF TransferOK
  <2>8. MayTransfer(ix, vault, to, n)
    BY <1>2, <2>2, <2>7 DEF MayTransfer, vault, to
  <2>9. tx.accounts[vault].amount = n
    BY <2>4 DEF n
  <2>10. tx' = [tx EXCEPT !.pc = "close out", !.accounts = Transferred(@, vault, to, n)]
    BY <1>1, <1>9, <2>8, <2>9 DEF Sweep, Call, vault, to
  <2>11. tx'.pc = "close out"
    BY <1>3, <2>10 DEF InFlight
  <2> QED BY <1>0, <2>11
<1>10. CASE Commit
  BY <1>10 DEF Commit
<1>11. ~StoreRefused
  BY <1>1, <1>2 DEF StoreRefused
<1>12. CASE AllowanceShort
  <2>1. tx.pc = "burn" /\ tx.accounts[Key(ix, 5)].delegate
    BY <1>1, <1>12 DEF AllowanceShort
  <2>2. ix.tag = 2 /\ MigratePassed(ix)
    BY <1>1, <2>1, PassedWhere
  <2>3. Key(ix, 5) \in TokenAddr /\ Names(ix, Key(ix, 5))
    BY <1>1, <2>2, PassedMigrate
  <2>4. tx.accounts[Key(ix, 5)] = accounts[Key(ix, 5)]
    BY <1>1, <2>1, <2>3 DEF After
  <2> QED BY <1>1, <2>1, <2>4
<1> QED
  BY <1>4, <1>5, <1>6, <1>7, <1>8, <1>9, <1>10, <1>11, <1>12, EndsWhere

\* Once an instruction of the SDK has passed its checks its calls lack no
\* signature, no writable flag and no account, and no balance is short or
\* overflows: only a second initialisation, a payer without lamports, a holder
\* without the units or one whose account has a delegate, himself perhaps, ends
\* it early (index.ts, and the invocations of the four processors).
THEOREM BuiltRunsThrough == TxSpec => WellBuiltCompletes
<1> DEFINE A == tx # Idle /\ tx' = Idle /\ (\E i \in Intents : tx.ix = WireOf(i)) =>
       \/ AtStore /\ config' = StoredConfigAfter(tx.ix)
       \/ tx.pc = "create" /\ (config.created \/ lamports < Rent)
       \/ /\ tx.pc = "burn"
          /\ \/ accounts[Key(tx.ix, 5)].amount < tx.ix.fields[1]
             \/ accounts[Key(tx.ix, 5)].delegate
<1>1. IInv /\ TxInv /\ HoldingsBacked /\ [TxNext]_allVars => [A]_allVars
  BY BuiltCompletes
<1>2. TxSpec => Spec
  BY OneStep DEF ImplementsMigrator, Spec
<1> QED BY <1>1, <1>2, TxInvariance, UnitsConserved, PTL
        DEF TxSpec, WellBuiltCompletes

=============================================================================
