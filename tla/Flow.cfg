CONSTANTS
  F = F
  U = U
  V = V
  X = X
  Old = Old
  New = New
  VaultAuthority = VaultAuthority
  NativeMint = NativeMint
  None = None
  Wallets <- Both
  Mints <- OldNew
  AtaAddrs <- Associated
  KeypairAddrs <- OneKeypair
  Adjustable <- Nobody
  Decimals <- SixDecimals
  Windows <- SomeWindows
  Admins <- JustF
  Custodians <- Nobody
  U64Max = 3
  MaxTime = 3
SPECIFICATION FlowSpec
INVARIANT TypeOK
INVARIANT ReserveCoversClaims
PROPERTY NoClaimAfterCloseout
PROPERTY ConfigFrozen
PROPERTY ImplementsEscrow
CHECK_DEADLOCK FALSE
