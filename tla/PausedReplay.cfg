CONSTANTS
  F = F
  U = U
  V = V
  Old = Old
  New = New
  Honest = Honest
  Other = Other
  VaultAuthority = VaultAuthority
  NativeMint = NativeMint
  None = None
  Wallets <- Both
  Mints <- OldNew
  AtaAddrs <- Associated
  KeypairAddrs <- OneKeypair
  Adjustable <- Nobody
  Decimals <- SixDecimals
  Windows <- OneWindow
  Admins <- JustF
  Custodians <- Nobody
  U64Max = 1
  MaxTime = 1
  Providers <- TwoProviders
  Faulty <- Nobody
  OtherTransaction <- Donation
  Manifests <- AfterSomeClaims
SPECIFICATION MCSpec
INVARIANT PausedReplayPasses
CHECK_DEADLOCK FALSE
