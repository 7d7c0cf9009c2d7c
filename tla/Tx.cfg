CONSTANTS
  F = F
  U = U
  V = V
  Old = Old
  New = New
  VaultAuthority = VaultAuthority
  NativeMint = NativeMint
  None = None
  Garbage = Garbage
  TokenProgramId = TokenProgramId
  ConfigBump = 255
  VaultBump = 254
  ConfigPda = ConfigPda
  ProgramData = ProgramData
  SystemProgramId = SystemProgramId
  Stray = Stray
  Rent = 2
  MaxLamports = 2
  Intents <- Asked
  Substitutes <- Strangers
  Wallets <- Both
  Mints <- OldNew
  AtaAddrs <- Associated
  KeypairAddrs <- OneKeypair
  Adjustable <- Nobody
  Decimals <- SixDecimals
  Windows <- OneWindow
  Admins <- JustU
  Custodians <- Nobody
  U64Max = 2
  MaxTime = 2
SPECIFICATION MCTxSpec
INVARIANT BuiltAccepted
INVARIANT TxInv
PROPERTY ImplementsMigrator
PROPERTY WellBuiltCompletes
PROPERTY SignedFor
PROPERTY AnswersStand
CHECK_DEADLOCK FALSE
