CONSTANTS
  F = F
  U = U
  V = V
  X = X
  Old = Old
  New = New
  VaultAuthority = VaultAuthority
  NativeMint = NativeMint
  None = None
  Wallets <- Both
  Mints <- OldNew
  AtaAddrs <- Associated
  KeypairAddrs <- OneKeypair
  Adjustable <- Nobody
  Decimals <- SixDecimals
  Windows <- OneWindow
  Admins <- JustF
  Custodians <- Nobody
  U64Max = 2
  MaxTime = 3
SPECIFICATION FlowSpec
INVARIANT LaterSurplusSweepable
CHECK_DEADLOCK FALSE
