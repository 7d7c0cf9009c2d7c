CONSTANTS
  F = F
  U = U
  V = V
  X = X
  Old = Old
  New = New
  VaultAuthority = VaultAuthority
  NativeMint = NativeMint
  None = None
  Wallets <- Both
  Mints <- OldNew
  AtaAddrs <- Associated
  KeypairAddrs <- OneKeypair
  Adjustable <- RefundAccount
  Decimals <- SixDecimals
  Windows <- ShortWindow
  Admins <- JustF
  Custodians <- Nobody
  U64Max = 2
  MaxTime = 3
SPECIFICATION ReturnSpec
PROPERTY ReserveReturned
CHECK_DEADLOCK FALSE
