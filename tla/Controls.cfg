CONSTANTS
  F = F
  U = U
  V = V
  X = X
  Old = Old
  New = New
  VaultAuthority = VaultAuthority
  NativeMint = NativeMint
  None = None
  Garbage = Garbage
  TokenProgramId = TokenProgramId
  ConfigBump = 255
  VaultBump = 254
  Wallets <- Both
  Mints <- OldNew
  AtaAddrs <- Associated
  KeypairAddrs <- OneKeypair
  Adjustable <- UserAndVault
  Decimals <- SixDecimals
  Windows <- OneWindow
  Admins <- JustF
  Custodians <- Nobody
  U64Max = 2
  MaxTime = 3
SPECIFICATION ControlsSpec
INVARIANT ReadersAgree
INVARIANT PairAndVaultSound
INVARIANT ClaimsPayable
INVARIANT CloseoutPayable
CHECK_DEADLOCK FALSE
