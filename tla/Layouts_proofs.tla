--------------------------- MODULE Layouts_proofs ----------------------------
(***************************************************************************)
(* The program's byte offsets, the SDK's and the field-level checks agree, *)
(* for every account that the program and the token program can write.     *)
(***************************************************************************)
EXTENDS Layouts, Migrator_proofs

-----------------------------------------------------------------------------
(* Where repr(C) puts the fields of MigrationConfig *)

LEMMA Places ==
  /\ \A x \in Int : Place(x, 1) = x
  /\ Place(204, 8) = 208 /\ Place(216, 8) = 216 /\ Place(224, 8) = 224
  /\ Place(296, 8) = 296
BY DEF Place, RoundUp

LEMMA ConfigFieldsAre ==
  /\ Len(ConfigFields) = 15 /\ DOMAIN ConfigFields = 1 .. 15
  /\ \A i \in 1 .. 15 :
       /\ ConfigFields[i].align = IF i \in {12, 13, 14} THEN 8 ELSE 1
       /\ ConfigFields[i].size = IF i = 1 THEN 8
                                 ELSE IF i \in 2 .. 5 THEN 1
                                 ELSE IF i \in 6 .. 11 THEN 32
                                 ELSE IF i \in 12 .. 14 THEN 8 ELSE 64
BY DEF ConfigFields, Field

\* The literal offsets of the SDK, from the sizes and alignments of the struct.
LEMMA OffsetsAre ==
  FieldOffset = <<0, 8, 9, 10, 11, 12, 44, 76, 108, 140, 172, 208, 216, 224, 232>>
<1> DEFINE Next1(f, i) ==
      IF i = 1 THEN 0
      ELSE Place(f[i - 1] + ConfigFields[i - 1].size, ConfigFields[i].align)
    g == <<0, 8, 9, 10, 11, 12, 44, 76, 108, 140, 172, 208, 216, 224, 232>>
<1>1. /\ g[1] = 0 /\ g[2] = 8 /\ g[3] = 9 /\ g[4] = 10 /\ g[5] = 11 /\ g[6] = 12
      /\ g[7] = 44 /\ g[8] = 76 /\ g[9] = 108 /\ g[10] = 140 /\ g[11] = 172
      /\ g[12] = 208 /\ g[13] = 216 /\ g[14] = 224 /\ g[15] = 232
      /\ g = [i \in 1 .. 15 |-> g[i]]
  OBVIOUS
<1> HIDE DEF g
<1>2. g = [i \in DOMAIN ConfigFields |-> Next1(g, i)]
  <2>1. \A i \in 1 .. 15 : g[i] = Next1(g, i)
    BY <1>1, Places, ConfigFieldsAre
  <2> QED BY <1>1, <2>1, ConfigFieldsAre
<1>3. FieldOffset = [i \in DOMAIN ConfigFields |-> Next1(FieldOffset, i)]
  BY <1>2 DEF FieldOffset
<1>4. \A i \in 1 .. 15 : FieldOffset[i] = Next1(FieldOffset, i)
  BY <1>3, ConfigFieldsAre
<1>5. FieldOffset[1] = 0 /\ FieldOffset[2] = 8 /\ FieldOffset[3] = 9
      /\ FieldOffset[4] = 10 /\ FieldOffset[5] = 11 /\ FieldOffset[6] = 12
  BY <1>4, Places, ConfigFieldsAre
<1>6. FieldOffset[7] = 44 /\ FieldOffset[8] = 76 /\ FieldOffset[9] = 108
      /\ FieldOffset[10] = 140 /\ FieldOffset[11] = 172
  BY <1>4, <1>5, Places, ConfigFieldsAre
<1>7. FieldOffset[12] = 208 /\ FieldOffset[13] = 216 /\ FieldOffset[14] = 224
      /\ FieldOffset[15] = 232
  BY <1>4, <1>6, Places, ConfigFieldsAre
<1>8. \A i \in 1 .. 15 : FieldOffset[i] = g[i]
  BY <1>1, <1>5, <1>6, <1>7
<1>9. FieldOffset = [i \in 1 .. 15 |-> FieldOffset[i]]
  BY <1>3, ConfigFieldsAre
<1> QED
  <2>1. FieldOffset = g
    BY <1>1, <1>8, <1>9
  <2> QED BY <2>1 DEF g

-----------------------------------------------------------------------------
(* What is read back *)

\* No two cells begin in one place.
Apart(d) == \A b, c \in d : b[1] = c[1] => b = c

\* Then what has been written is what is read.
LEMMA CellRead ==
  ASSUME NEW d, Apart(d)
  PROVE  \A offset, length, v : <<offset, length, v>> \in d => At(d, offset, length) = v
<1> SUFFICES ASSUME NEW offset, NEW length, NEW v, <<offset, length, v>> \in d
             PROVE  At(d, offset, length) = v
  OBVIOUS
<1>1. CellsAt(d, offset, length) = {<<offset, length, v>>}
  BY DEF CellsAt, Apart
<1> QED BY <1>1 DEF At

\* The cells of a config, at the offsets that the SDK reads from.
LEMMA ConfigCells ==
  ASSUME NEW c
  PROVE  StoredConfig(c).data =
           {<<0, 8, "migrtr01">>, <<8, 1, 2>>, <<9, 1, ConfigBump>>,
            <<10, 1, VaultBump>>, <<11, 1, Flag(c.paused)>>, <<12, 32, c.admin>>,
            <<44, 32, c.source_mint>>, <<76, 32, c.destination_mint>>,
            <<108, 32, TokenProgramId>>, <<140, 32, VaultAuthority>>,
            <<172, 32, c.reserve_vault>>, <<208, 8, c.total_migrated>>,
            <<216, 8, c.start_ts>>, <<224, 8, c.end_ts>>,
            <<232, 8, c.migration_cap>>, <<240, 32, c.refund_recipient>>,
            <<272, 1, Flag(c.unclaimed_withdrawn)>>}
<1> DEFINE cell(i) == <<FieldOffset[i], ConfigFields[i].size,
                        FieldValue(c)[ConfigFields[i].name]>>
<1>1. /\ cell(1) = <<0, 8, "migrtr01">> /\ cell(2) = <<8, 1, 2>>
      /\ cell(3) = <<9, 1, ConfigBump>> /\ cell(4) = <<10, 1, VaultBump>>
      /\ cell(5) = <<11, 1, Flag(c.paused)>> /\ cell(6) = <<12, 32, c.admin>>
      /\ cell(7) = <<44, 32, c.source_mint>>
      /\ cell(8) = <<76, 32, c.destination_mint>>
      /\ cell(9) = <<108, 32, TokenProgramId>>
      /\ cell(10) = <<140, 32, VaultAuthority>>
      /\ cell(11) = <<172, 32, c.reserve_vault>>
      /\ cell(12) = <<208, 8, c.total_migrated>>
      /\ cell(13) = <<216, 8, c.start_ts>> /\ cell(14) = <<224, 8, c.end_ts>>
  BY OffsetsAre DEF ConfigFields, Field, FieldValue
<1>2. PackedReserved(c) = {<<232, 8, c.migration_cap>>, <<240, 32, c.refund_recipient>>,
                           <<272, 1, Flag(c.unclaimed_withdrawn)>>}
  BY OffsetsAre, ConfigFieldsAre DEF PackedReserved
<1>3. StoredConfig(c).data = {cell(i) : i \in 1 .. 14} \cup PackedReserved(c)
  BY ConfigFieldsAre DEF StoredConfig
<1> HIDE DEF cell
<1>4. {cell(i) : i \in 1 .. 14} =
        {cell(1), cell(2), cell(3), cell(4), cell(5), cell(6), cell(7), cell(8),
         cell(9), cell(10), cell(11), cell(12), cell(13), cell(14)}
  OBVIOUS
<1> QED BY <1>1, <1>2, <1>3, <1>4

LEMMA ConfigRead ==
  ASSUME NEW c, c.paused \in BOOLEAN, c.unclaimed_withdrawn \in BOOLEAN
  PROVE  DecodeMigrationConfig(StoredConfig(c)) = PublicConfig(c)
<1> DEFINE d == StoredConfig(c).data
<1>1. d = {<<0, 8, "migrtr01">>, <<8, 1, 2>>, <<9, 1, ConfigBump>>,
           <<10, 1, VaultBump>>, <<11, 1, Flag(c.paused)>>, <<12, 32, c.admin>>,
           <<44, 32, c.source_mint>>, <<76, 32, c.destination_mint>>,
           <<108, 32, TokenProgramId>>, <<140, 32, VaultAuthority>>,
           <<172, 32, c.reserve_vault>>, <<208, 8, c.total_migrated>>,
           <<216, 8, c.start_ts>>, <<224, 8, c.end_ts>>,
           <<232, 8, c.migration_cap>>, <<240, 32, c.refund_recipient>>,
           <<272, 1, Flag(c.unclaimed_withdrawn)>>}
  BY ConfigCells
<1>2. StoredConfig(c).length = 296
  BY OffsetsAre, ConfigFieldsAre, Places DEF StoredConfig, ConfigSize
<1> HIDE DEF d
<1>3. Apart(d)
  BY <1>1 DEF Apart
<1>4. \A offset, length, v : <<offset, length, v>> \in d => At(d, offset, length) = v
  BY <1>3, CellRead
<1>5. /\ At(d, 0, 8) = "migrtr01" /\ At(d, 8, 1) = 2 /\ At(d, 9, 1) = ConfigBump
      /\ At(d, 10, 1) = VaultBump /\ At(d, 11, 1) = Flag(c.paused)
      /\ At(d, 12, 32) = c.admin
  BY <1>1, <1>4
<1>6. /\ At(d, 44, 32) = c.source_mint /\ At(d, 76, 32) = c.destination_mint
      /\ At(d, 108, 32) = TokenProgramId /\ At(d, 140, 32) = VaultAuthority
      /\ At(d, 172, 32) = c.reserve_vault
  BY <1>1, <1>4
<1>7. /\ At(d, 208, 8) = c.total_migrated /\ At(d, 216, 8) = c.start_ts
      /\ At(d, 224, 8) = c.end_ts /\ At(d, 232, 8) = c.migration_cap
  <2>1. {<<208, 8, c.total_migrated>>, <<216, 8, c.start_ts>>,
         <<224, 8, c.end_ts>>, <<232, 8, c.migration_cap>>} \subseteq d
    BY <1>1
  <2> HIDE DEF d
  <2> QED BY <2>1, <1>4
<1>8. /\ At(d, 240, 32) = c.refund_recipient
      /\ At(d, 272, 1) = Flag(c.unclaimed_withdrawn)
  BY <1>1, <1>4
<1>9. (At(d, 11, 1) # 0) = c.paused /\ (At(d, 272, 1) # 0) = c.unclaimed_withdrawn
  BY <1>5, <1>8 DEF Flag
<1>10. DecodeMigrationConfig(StoredConfig(c)) =
        [version |-> At(d, 8, 1), bump |-> At(d, 9, 1),
         vaultAuthorityBump |-> At(d, 10, 1), paused |-> At(d, 11, 1) # 0,
         admin |-> At(d, 12, 32), sourceMint |-> At(d, 44, 32),
         destinationMint |-> At(d, 76, 32), tokenProgramId |-> At(d, 108, 32),
         vaultAuthority |-> At(d, 140, 32), reserveVault |-> At(d, 172, 32),
         totalMigrated |-> At(d, 208, 8), migrationCap |-> At(d, 232, 8),
         refundRecipient |-> At(d, 240, 32), unclaimedWithdrawn |-> At(d, 272, 1) # 0,
         startTs |-> At(d, 216, 8), endTs |-> At(d, 224, 8)]
  BY <1>2, <1>5 DEF DecodeMigrationConfig, d
<1> QED
  BY <1>5, <1>6, <1>7, <1>8, <1>9, <1>10 DEF PublicConfig

LEMMA MintCells ==
  ASSUME NEW k
  PROVE  LET d == StoredMint(k).data
         IN /\ At(d, 0, 4) = Flag(k.mintAuthority) /\ At(d, 44, 1) = k.decimals
            /\ At(d, 45, 1) = Flag(k.initialized)
            /\ At(d, 46, 4) = Flag(k.freezeAuthority)
<1> DEFINE d == StoredMint(k).data
<1>1. d = {<<0, 4, Flag(k.mintAuthority)>>, <<36, 8, k.supply>>,
           <<44, 1, k.decimals>>, <<45, 1, Flag(k.initialized)>>,
           <<46, 4, Flag(k.freezeAuthority)>>}
  BY DEF StoredMint
<1> HIDE DEF d
<1>2. Apart(d)
  BY <1>1 DEF Apart
<1>3. \A offset, length, v : <<offset, length, v>> \in d => At(d, offset, length) = v
  BY <1>2, CellRead
<1>4. At(d, 0, 4) = Flag(k.mintAuthority) /\ At(d, 44, 1) = k.decimals
  <2>1. <<0, 4, Flag(k.mintAuthority)>> \in d /\ <<44, 1, k.decimals>> \in d
    BY <1>1
  <2> QED BY <2>1, <1>3
<1>5. At(d, 45, 1) = Flag(k.initialized) /\ At(d, 46, 4) = Flag(k.freezeAuthority)
  <2>1. <<45, 1, Flag(k.initialized)>> \in d /\ <<46, 4, Flag(k.freezeAuthority)>> \in d
    BY <1>1
  <2> QED BY <2>1, <1>3
<1> QED BY <1>4, <1>5 DEF d

LEMMA MintRead ==
  ASSUME NEW m, mints[m].mintAuthority \in BOOLEAN,
         mints[m].freezeAuthority \in BOOLEAN, mints[m].initialized \in BOOLEAN
  PROVE  MintAgrees(m)
<1> SUFFICES ASSUME mints[m].initialized = TRUE, m # NativeMint PROVE MintAgrees(m)
  BY DEF MintAgrees
<1> DEFINE account == StoredMint(mints[m])
           d == account.data
           p == ParseMintData(account)
<1>1. /\ At(d, 0, 4) = Flag(mints[m].mintAuthority) /\ At(d, 44, 1) = mints[m].decimals
      /\ At(d, 45, 1) = Flag(mints[m].initialized)
      /\ At(d, 46, 4) = Flag(mints[m].freezeAuthority)
  BY MintCells
<1>6. account.length = 82
  BY DEF StoredMint
<1> HIDE DEF account
<1>2. \A b \in BOOLEAN : (Flag(b) = 0 <=> ~b) /\ (Flag(b) = 1 <=> b)
  BY DEF Flag
<1>3. StrictMint(m) <=> StrictMintBytes(account)
  BY <1>1, <1>2, <1>6 DEF StrictMint, StrictMintBytes
<1>4. /\ p.isInitialized = (At(d, 45, 1) = 1)
      /\ p.mintAuthorityOption = At(d, 0, 4)
      /\ p.freezeAuthorityOption = At(d, 46, 4)
      /\ p.decimals = At(d, 44, 1)
  BY <1>6 DEF ParseMintData, MintFields
<1>7. /\ ParseTokenAccountData(account) = Garbage
      /\ \A o \in Owners : ~CustodyBytes(account, m, o)
  BY <1>6 DEF ParseTokenAccountData, CustodyBytes
<1> HIDE DEF p
<1>5. StrictMint(m) <=> /\ p.isInitialized
                        /\ p.mintAuthorityOption = 0
                        /\ p.freezeAuthorityOption = 0
  BY <1>1, <1>2, <1>4 DEF StrictMint
<1> QED BY <1>1, <1>3, <1>4, <1>5, <1>7 DEF MintAgrees, account, p

LEMMA AccountRead ==
  ASSUME NEW acct \in Account, acct.state # "closed"
  PROVE  AccountAgrees(acct)
<1> DEFINE account == StoredAccount(acct)
           d == account.data
           p == ParseTokenAccountData(account)
           state == IF acct.state = "frozen" THEN 2 ELSE 1
<1>1. d = {<<0, 32, acct.mint>>, <<32, 32, acct.owner>>, <<64, 8, acct.amount>>,
           <<72, 4, Flag(acct.delegate)>>, <<108, 1, state>>,
           <<109, 4, Flag(acct.mint = NativeMint)>>, <<121, 8, Flag(acct.delegate)>>,
           <<129, 4, Flag(acct.closeAuthority)>>}
  BY DEF StoredAccount
<1>2. /\ state = 1 <=> acct.state = "initialized"
      /\ acct.delegate \in BOOLEAN /\ acct.closeAuthority \in BOOLEAN
  BY DEF Account
<1>9. account.length = 165
  BY DEF StoredAccount
<1> HIDE DEF account, d, state
<1>0. \A offset, length, v : <<offset, length, v>> \in d => At(d, offset, length) = v
  <2>1. Apart(d)
    BY <1>1 DEF Apart
  <2> QED BY <2>1, CellRead
<1>3. /\ At(d, 0, 32) = acct.mint /\ At(d, 32, 32) = acct.owner
      /\ At(d, 64, 8) = acct.amount /\ At(d, 72, 4) = Flag(acct.delegate)
  BY <1>0, <1>1
<1>4. /\ At(d, 108, 1) = state
      /\ At(d, 109, 4) = Flag(acct.mint = NativeMint)
      /\ At(d, 121, 8) = Flag(acct.delegate)
      /\ At(d, 129, 4) = Flag(acct.closeAuthority)
  BY <1>0, <1>1
<1>5. \A b \in BOOLEAN : Flag(b) = 0 <=> ~b
  BY DEF Flag
<1>6. ASSUME NEW m \in Mints, NEW o \in Owners
      PROVE  CustodyOK(acct, m, o) <=> CustodyBytes(account, m, o)
  BY ZenonT(30), <1>2, <1>3, <1>4, <1>5, <1>9
     DEF CustodyOK, TokenAccountOK, CustodyBytes, d
<1>7. /\ p.mint = At(d, 0, 32) /\ p.owner = At(d, 32, 32) /\ p.amount = At(d, 64, 8)
      /\ p.delegateOption = At(d, 72, 4) /\ p.state = At(d, 108, 1)
      /\ p.delegatedAmount = At(d, 121, 8) /\ p.closeAuthorityOption = At(d, 129, 4)
  BY <1>9 DEF ParseTokenAccountData, TokenAccountFields, d
<1>10. ParseMintData(account) = Garbage /\ ~StrictMintBytes(account)
  BY <1>9 DEF ParseMintData, StrictMintBytes
<1> HIDE DEF p
<1>8. ASSUME NEW m \in Mints, NEW o \in Owners
      PROVE  CustodyOK(acct, m, o) <=>
                /\ p.mint = m /\ p.owner = o /\ p.state = 1
                /\ p.delegateOption = 0 /\ p.delegatedAmount = 0
                /\ p.closeAuthorityOption = 0
                /\ m # NativeMint
  BY <1>2, <1>3, <1>4, <1>5, <1>7 DEF CustodyOK, TokenAccountOK
<1> QED BY <1>3, <1>6, <1>7, <1>8, <1>10 DEF AccountAgrees, account, p

\* The loader's ProgramData account, with or without an authority.
LEMMA ProgramDataRead ==
  ASSUME NEW authority
  PROVE  ParseProgramData(StoredProgramData(authority)).authority = authority
<1> DEFINE d == StoredProgramData(authority)
<1>1. d = {<<0, 4, 3>>, <<12, 1, Flag(authority # None)>>, <<13, 32, authority>>}
  BY DEF StoredProgramData
<1> HIDE DEF d
<1>0. \A offset, length, v : <<offset, length, v>> \in d => At(d, offset, length) = v
  <2>1. Apart(d)
    BY <1>1 DEF Apart
  <2> QED BY <2>1, CellRead
<1>2. At(d, 12, 1) = Flag(authority # None) /\ At(d, 13, 32) = authority
  BY <1>0, <1>1
<1>3. ParseProgramData(d).authority = authority
  BY <1>2 DEF ParseProgramData, Flag
<1> QED BY <1>3 DEF d

-----------------------------------------------------------------------------
(* Theorem *)

\* What the SDK reads is what was written, and what it takes for a sound mint or
\* reserve is what the program takes for one (state.rs, the validators on bytes
\* of instructions/mod.rs, decodeMigrationConfig and the parsers of the SDK).
THEOREM BytesAgree == Spec => []ReadersAgree
<1>1. ASSUME TypeOK PROVE ReadersAgree
  <2>1. /\ accounts \in [TokenAddr -> Account] /\ mints \in [Mints -> Mint]
    BY <1>1 DEF TypeOK, TokenTypeOK
  <2>2. ASSUME config.created
        PROVE  DecodeMigrationConfig(StoredConfig(config)) = PublicConfig(config)
    <3>1. config \in MigrationConfig
      BY <1>1, <2>2, ConfigCreated
    <3>2. config.paused \in BOOLEAN /\ config.unclaimed_withdrawn \in BOOLEAN
      BY <3>1 DEF MigrationConfig
    <3> QED BY <3>2, ConfigRead
  <2>3. \A m \in Mints :
           /\ mints[m].mintAuthority \in BOOLEAN /\ mints[m].freezeAuthority \in BOOLEAN
           /\ mints[m].initialized \in BOOLEAN
    BY <2>1 DEF Mint
  <2>4. \A m \in Mints : MintAgrees(m)
    BY <2>3, MintRead
  <2>5. \A a \in TokenAddr : AccountAgrees(accounts[a])
    <3>1. \A a \in TokenAddr : accounts[a] \in Account
      BY <2>1
    <3>2. \A acct \in Account : acct.state = "closed" => AccountAgrees(acct)
      BY DEF AccountAgrees
    <3> QED BY <3>1, <3>2, AccountRead
  <2> QED BY <2>2, <2>4, <2>5, ProgramDataRead DEF ReadersAgree
<1>2. TypeOK => ReadersAgree
  BY <1>1
<1> QED BY <1>2, TypeCorrect, PTL

==============================================================================
