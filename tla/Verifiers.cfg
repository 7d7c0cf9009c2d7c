CONSTANTS
  F = F
  V = V
  Old = Old
  New = New
  VaultAuthority = VaultAuthority
  NativeMint = NativeMint
  None = None
  Wallets <- JustF
  Mints <- OldNew
  AtaAddrs <- Associated
  KeypairAddrs <- OneKeypair
  Adjustable <- OneKeypair
  Decimals <- SixDecimals
  Windows <- TwoWindows
  Admins <- JustF
  Custodians <- Renounced
  U64Max = 1
  MaxTime = 1
  Releases <- SomeReleases
SPECIFICATION MCSpec
INVARIANT PassedStaysTrue
INVARIANT VerifiedConfigHolds
INVARIANT ReserveProofHolds
PROPERTY VerifiedVaultStays
PROPERTY RenouncedEndsSetup
CHECK_DEADLOCK FALSE
