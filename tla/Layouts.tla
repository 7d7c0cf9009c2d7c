------------------------------- MODULE Layouts -------------------------------
(***************************************************************************)
(* The bytes of the accounts, as the program writes them, as the token     *)
(* program and the loader write them, and as the SDK reads them back.      *)
(* The data of an account is a set of cells <<offset, length, value>>: to  *)
(* read anything but exactly what was written gives Garbage.               *)
(***************************************************************************)
EXTENDS Migrator, Sequences

CONSTANTS
  Garbage,          \* what a misplaced read returns
  TokenProgramId,   \* address of the SPL Token program
  ConfigBump,       \* bump of the config address
  VaultBump         \* bump of the vault authority

CellsAt(data, offset, length) == {c \in data : c[1] = offset /\ c[2] = length}

At(data, offset, length) ==
  IF CellsAt(data, offset, length) = {} THEN Garbage
  ELSE (CHOOSE c \in CellsAt(data, offset, length) : TRUE)[3]

Flag(b) == IF b THEN 1 ELSE 0

-----------------------------------------------------------------------------
(* MigrationConfig *)

Field(name, size, align) == [name |-> name, size |-> size, align |-> align]

ConfigFields ==
  << Field("discriminator", 8, 1), Field("version", 1, 1), Field("bump", 1, 1),
     Field("vault_authority_bump", 1, 1), Field("paused", 1, 1),
     Field("admin", 32, 1), Field("source_mint", 32, 1),
     Field("destination_mint", 32, 1), Field("token_program_id", 32, 1),
     Field("vault_authority", 32, 1), Field("reserve_vault", 32, 1),
     Field("total_migrated", 8, 8), Field("start_ts", 8, 8),
     Field("end_ts", 8, 8), Field("reserved", 64, 1) >>

RoundUp(n, align) == ((n + align - 1) \div align) * align

BugPlace(end, align) == end

\* repr(C): a field starts at the next multiple of its alignment.
Place(end, align) == RoundUp(end, align)

FieldOffset[i \in DOMAIN ConfigFields] ==
  IF i = 1 THEN 0
  ELSE Place(FieldOffset[i - 1] + ConfigFields[i - 1].size,
             ConfigFields[i].align)

ConfigSize ==
  LET last == Len(ConfigFields)
  IN Place(FieldOffset[last] + ConfigFields[last].size, 8)

\* The struct's own value of each field; cap, refund recipient and closeout
\* flag live in the reserved bytes.
FieldValue(c) ==
  [discriminator |-> "migrtr01", version |-> 2, bump |-> ConfigBump,
   vault_authority_bump |-> VaultBump, paused |-> Flag(c.paused),
   admin |-> c.admin, source_mint |-> c.source_mint,
   destination_mint |-> c.destination_mint,
   token_program_id |-> TokenProgramId, vault_authority |-> VaultAuthority,
   reserve_vault |-> c.reserve_vault, total_migrated |-> c.total_migrated,
   start_ts |-> c.start_ts, end_ts |-> c.end_ts]

PackedReserved(c) ==
  LET reserved == FieldOffset[Len(ConfigFields)]
  IN {<<reserved, 8, c.migration_cap>>, <<reserved + 8, 32, c.refund_recipient>>,
      <<reserved + 40, 1, Flag(c.unclaimed_withdrawn)>>}

StoredConfig(c) ==
  LET cell(i) == <<FieldOffset[i], ConfigFields[i].size,
                   FieldValue(c)[ConfigFields[i].name]>>
  IN [length |-> ConfigSize,
      data |-> {cell(i) : i \in 1 .. Len(ConfigFields) - 1} \cup PackedReserved(c)]

\* decodeMigrationConfig: throws, or these fields at these literal offsets.
DecodeMigrationConfig(account) ==
  LET d == account.data
  IN IF \/ account.length # 296
        \/ At(d, 0, 8) # "migrtr01"
        \/ At(d, 8, 1) # 2
     THEN Garbage
     ELSE [version |-> At(d, 8, 1), bump |-> At(d, 9, 1),
           vaultAuthorityBump |-> At(d, 10, 1), paused |-> At(d, 11, 1) # 0,
           admin |-> At(d, 12, 32), sourceMint |-> At(d, 44, 32),
           destinationMint |-> At(d, 76, 32),
           tokenProgramId |-> At(d, 108, 32),
           vaultAuthority |-> At(d, 140, 32), reserveVault |-> At(d, 172, 32),
           totalMigrated |-> At(d, 208, 8), migrationCap |-> At(d, 232, 8),
           refundRecipient |-> At(d, 240, 32),
           unclaimedWithdrawn |-> At(d, 272, 1) # 0,
           startTs |-> At(d, 216, 8), endTs |-> At(d, 224, 8)]

\* What a reader of a config should learn.
PublicConfig(c) ==
  [version |-> 2, bump |-> ConfigBump, vaultAuthorityBump |-> VaultBump,
   paused |-> c.paused, admin |-> c.admin, sourceMint |-> c.source_mint,
   destinationMint |-> c.destination_mint, tokenProgramId |-> TokenProgramId,
   vaultAuthority |-> VaultAuthority, reserveVault |-> c.reserve_vault,
   totalMigrated |-> c.total_migrated, migrationCap |-> c.migration_cap,
   refundRecipient |-> c.refund_recipient,
   unclaimedWithdrawn |-> c.unclaimed_withdrawn,
   startTs |-> c.start_ts, endTs |-> c.end_ts]

-----------------------------------------------------------------------------
(* Mints, token accounts and ProgramData, which others write *)

StoredMint(m) ==
  [length |-> 82,
   data |-> {<<0, 4, Flag(m.mintAuthority)>>, <<36, 8, m.supply>>,
             <<44, 1, m.decimals>>, <<45, 1, Flag(m.initialized)>>,
             <<46, 4, Flag(m.freezeAuthority)>>}]

\* A delegate comes with an allowance; a native account says so itself.
StoredAccount(acct) ==
  [length |-> 165,
   data |-> {<<0, 32, acct.mint>>, <<32, 32, acct.owner>>, <<64, 8, acct.amount>>,
             <<72, 4, Flag(acct.delegate)>>,
             <<108, 1, IF acct.state = "frozen" THEN 2 ELSE 1>>,
             <<109, 4, Flag(acct.mint = NativeMint)>>,
             <<121, 8, Flag(acct.delegate)>>,
             <<129, 4, Flag(acct.closeAuthority)>>}]

StoredProgramData(authority) ==
  {<<0, 4, 3>>, <<12, 1, Flag(authority # None)>>, <<13, 32, authority>>}

\* validate_strict_mint_bytes
StrictMintBytes(account) ==
  LET d == account.data
  IN /\ account.length = 82
     /\ At(d, 0, 4) = 0 /\ At(d, 45, 1) = 1 /\ At(d, 46, 4) = 0

\* validate_custody_token_account_bytes
CustodyBytes(account, m, o) ==
  LET d == account.data
  IN /\ account.length = 165
     /\ At(d, 0, 32) = m /\ At(d, 32, 32) = o
     /\ At(d, 108, 1) = 1 /\ At(d, 109, 4) = 0
     /\ At(d, 72, 4) = 0 /\ At(d, 121, 8) = 0 /\ At(d, 129, 4) = 0

\* The fields of a mint, and those of a token account, at their offsets.
MintFields(d) ==
  [mintAuthorityOption |-> At(d, 0, 4), supply |-> At(d, 36, 8),
   decimals |-> At(d, 44, 1), isInitialized |-> At(d, 45, 1) = 1,
   freezeAuthorityOption |-> At(d, 46, 4)]

TokenAccountFields(d) ==
  [mint |-> At(d, 0, 32), owner |-> At(d, 32, 32), amount |-> At(d, 64, 8),
   delegateOption |-> At(d, 72, 4), state |-> At(d, 108, 1),
   delegatedAmount |-> At(d, 121, 8), closeAuthorityOption |-> At(d, 129, 4)]

BugParseMintData(account) ==
  IF account.length # 82 THEN Garbage
  ELSE [MintFields(account.data) EXCEPT !.freezeAuthorityOption = At(account.data, 0, 4)]

\* Both throw on an account of another size.
ParseMintData(account) ==
  IF account.length # 82 THEN Garbage ELSE MintFields(account.data)

BugParseTokenAccountData(account) ==
  IF account.length # 165 THEN Garbage
  ELSE [TokenAccountFields(account.data) EXCEPT
          !.closeAuthorityOption = At(account.data, 109, 4)]

ParseTokenAccountData(account) ==
  IF account.length # 165 THEN Garbage ELSE TokenAccountFields(account.data)

ParseProgramData(d) ==
  [stateDiscriminator |-> At(d, 0, 4), authorityOption |-> At(d, 12, 1),
   authority |-> IF At(d, 12, 1) = 1 THEN At(d, 13, 32) ELSE None]

-----------------------------------------------------------------------------
(* Properties *)

\* A mint that exists, to the program and to the SDK.
MintAgrees(m) ==
  LET d == StoredMint(mints[m])
      p == ParseMintData(d)
  IN mints[m].initialized /\ m # NativeMint =>
       /\ StrictMint(m) <=> StrictMintBytes(d)
       /\ StrictMint(m) <=> /\ p.isInitialized
                            /\ p.mintAuthorityOption = 0
                            /\ p.freezeAuthorityOption = 0
       /\ p.decimals = mints[m].decimals
       /\ ParseTokenAccountData(d) = Garbage
       /\ \A o \in Owners : ~CustodyBytes(d, m, o)

\* A token account that exists, as somebody's of some mint.
AccountAgrees(acct) ==
  LET d == StoredAccount(acct)
      p == ParseTokenAccountData(d)
  IN acct.state # "closed" =>
       /\ \A m \in Mints, o \in Owners :
            /\ CustodyOK(acct, m, o) <=> CustodyBytes(d, m, o)
            /\ CustodyOK(acct, m, o) <=>
                 /\ p.mint = m /\ p.owner = o /\ p.state = 1
                 /\ p.delegateOption = 0 /\ p.delegatedAmount = 0
                 /\ p.closeAuthorityOption = 0
                 /\ m # NativeMint
       /\ p.amount = acct.amount
       /\ ParseMintData(d) = Garbage /\ ~StrictMintBytes(d)

\* The program's byte offsets, the SDK's and the field-level predicates of
\* MigratorChecks agree on every account: what a client reads is what the
\* program wrote, and what the SDK would accept as a mint or as a reserve is
\* what the program's validators accept; no reader takes a token account for a
\* mint or a mint for a token account.
ReadersAgree ==
  /\ config.created =>
       DecodeMigrationConfig(StoredConfig(config)) = PublicConfig(config)
  /\ ParseProgramData(StoredProgramData(upgradeAuthority)).authority = upgradeAuthority
  /\ \A m \in Mints : MintAgrees(m)
  /\ \A a \in TokenAddr : AccountAgrees(accounts[a])

==============================================================================
