CONSTANTS
  F = F
  U = U
  V = V
  Old = Old
  New = New
  Honest = Honest
  Other = Other
  VaultAuthority = VaultAuthority
  NativeMint = NativeMint
  None = None
  Wallets <- Both
  Mints <- OldNew
  AtaAddrs <- Associated
  KeypairAddrs <- OneKeypair
  Adjustable <- Nobody
  Decimals <- SixDecimals
  Windows <- ReviewedOrNot
  Admins <- JustF
  Custodians <- Nobody
  U64Max = 1
  MaxTime = 1
  Providers <- TwoProviders
  Faulty <- OneFaulty
  OtherTransaction <- Donation
  Manifests <- BothPhases
SPECIFICATION MCSpec
INVARIANT ApprovedTermsHold
INVARIANT ProgramAcceptsReviewed
INVARIANT FreshReplayPasses
CHECK_DEADLOCK FALSE
