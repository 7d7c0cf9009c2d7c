------------------------------ MODULE MCDryRun -------------------------------
(***************************************************************************)
(* A small instance of DryRun: manifests for both phases of one release,   *)
(* on a chain where an initialiser may also deviate from them, and two     *)
(* providers of which one may be faulty.                                   *)
(***************************************************************************)
EXTENDS DryRun, TLC

CONSTANTS F, U, V, Old, New, Honest, Other

Both == {F, U}
JustF == {F}
OldNew == {Old, New}
Associated == {<<F, New>>, <<U, Old>>, <<U, New>>}
OneKeypair == {V}
Nobody == {}
Renounced == {None}
SixDecimals == {6}
OneWindow == {<<0, 1>>}
ReviewedOrNot == {<<0, 1>>, <<0, 0>>}
TwoProviders == {Honest, Other}
OneFaulty == {Other}

Manifest(after, ua, w, n, signature) ==
  [sourceMint |-> Old, destinationMint |-> New, reserveVault |-> V,
   opsAdmin |-> F, initializerAuthority |-> F, fundingAuthority |-> F,
   expectedUpgradeAuthority |-> ua,
   migrationCap |-> 1, eligibleUnits |-> 1, expectedDecimals |-> 6,
   startTs |-> w[1], endTs |-> w[2],
   expectConfigInitialized |-> after, expectedPaused |-> n > 0,
   expectedTotalMigrated |-> n, expectedRefundRecipient |-> F,
   expectedUnclaimedWithdrawn |-> FALSE, fundingSignature |-> signature]

BothPhases ==
  {Manifest(FALSE, F, <<0, 1>>, 0, "none"),
   Manifest(TRUE, F, <<0, 1>>, 0, "initialization"),
   Manifest(TRUE, F, <<0, 1>>, 0, "other")}
AfterSomeClaims == {Manifest(TRUE, F, <<0, 1>>, 1, "initialization")}

\* A transfer of the cap to the vault.
Donation == [touchesReserve |-> TRUE, delta |-> 1]

Holding(o, m, n) == [EmptyAccount(o, m) EXCEPT !.amount = n]
SoundMint ==
  [initialized |-> TRUE, mintAuthority |-> FALSE, freezeAuthority |-> FALSE,
   decimals |-> 6, supply |-> 1]

\* F holds the destination supply, U the source supply; before initialisation
\* the vault may have kept a close authority, or the destination mint its issuer.
ChainInit ==
  \E closable, issued \in BOOLEAN :
    /\ closable => ~issued
    /\ closable \/ issued => ~manifest.expectConfigInitialized
    /\ accounts = [a \in TokenAddr |->
         IF a = <<F, New>> THEN Holding(F, New, 1)
         ELSE IF a = <<U, Old>> THEN Holding(U, Old, 1)
         ELSE IF a \in KeypairAddrs
              THEN [EmptyAccount(VaultAuthority, New)
                      EXCEPT !.closeAuthority = closable]
         ELSE EmptyAccount(a[1], a[2])]
    /\ mints = (Old :> SoundMint) @@
               (New :> [SoundMint EXCEPT !.mintAuthority = issued])
    /\ upgradeAuthority = F

MCInit == manifest \in Manifests /\ ChainInit /\ DryRunInit
MCSpec == MCInit /\ [][DryRunNext]_dryRunVars

==============================================================================
