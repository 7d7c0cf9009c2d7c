CONSTANTS
  F = F
  U = U
  V = V
  X = X
  Old = Old
  New = New
  VaultAuthority = VaultAuthority
  NativeMint = NativeMint
  None = None
  Wallets <- Both
  Mints <- OldNew
  AtaAddrs <- Associated
  KeypairAddrs <- TwoKeypairs
  Adjustable <- Nobody
  Decimals <- SixDecimals
  Windows <- OneWindow
  Admins <- Both
  Custodians <- Nobody
  U64Max = 2
  MaxTime = 3
SPECIFICATION FlowSpec
INVARIANT IInv
PROPERTY ReserveOutflow
CHECK_DEADLOCK FALSE
