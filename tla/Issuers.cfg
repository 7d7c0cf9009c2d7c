CONSTANTS
  F = F
  U = U
  V = V
  X = X
  Old = Old
  New = New
  VaultAuthority = VaultAuthority
  NativeMint = NativeMint
  None = None
  Garbage = Garbage
  TokenProgramId = TokenProgramId
  ConfigBump = 255
  VaultBump = 254
  Wallets <- Both
  Mints <- OldNew
  AtaAddrs <- Associated
  KeypairAddrs <- OneKeypair
  Adjustable <- VaultAddress
  Decimals <- SixOrNine
  Windows <- ShortWindow
  Admins <- JustF
  Custodians <- UserOrNone
  U64Max = 2
  MaxTime = 2
SPECIFICATION IssuersSpec
INVARIANT ReadersAgree
INVARIANT ClaimsPayable
PROPERTY CoverageStable
CHECK_DEADLOCK FALSE
