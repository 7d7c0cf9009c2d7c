---------------------------- MODULE MCVerifiers -----------------------------
(***************************************************************************)
(* A small instance of Verifiers: the vault's account is still to be       *)
(* created, with any owner, mint and controls, and the destination mint    *)
(* may still have its issuer, who can mint or freeze.  One wallet is enough: F is funder, claimant *)
(* and donor, and what matters is what the program does not own.           *)
(***************************************************************************)
EXTENDS Verifiers, TLC

CONSTANTS F, V, Old, New

JustF == {F}
OldNew == {Old, New}
Associated == {<<F, Old>>, <<F, New>>}
OneKeypair == {V}
Renounced == {None}
SixDecimals == {6}
TwoWindows == {<<0, 0>>, <<0, 1>>}

Arguments(n, authority, signature) ==
  [oldMint |-> Old, newMint |-> New, reserveVault |-> V, opsAdmin |-> F,
   migrationCap |-> 1, startTs |-> 0, endTs |-> 0, paused |-> FALSE,
   totalMigrated |-> n, refundRecipient |-> F, unclaimedWithdrawn |-> FALSE,
   expectedDecimals |-> 6, eligibleRawUnits |-> 1,
   expectedAuthority |-> authority, fundingSignature |-> signature]

\* A release that renounces the program, and one that keeps its authority.
Renouncing == Arguments(0, None, FALSE)
Keeping == Arguments(1, F, TRUE)
SomeReleases == {Renouncing, Keeping}

Holding(o, m, n) == [EmptyAccount(o, m) EXCEPT !.amount = n]
SoundMint ==
  [initialized |-> TRUE, mintAuthority |-> FALSE, freezeAuthority |-> FALSE,
   decimals |-> 6, supply |-> 1]

\* The issuer of the destination mint can freeze in the one release and mint in
\* the other, and may give that up.
MCInit ==
  /\ release \in SomeReleases
  /\ accounts = [a \in TokenAddr |->
       IF a = <<F, New>> THEN Holding(F, New, 1)
       ELSE IF a = <<F, Old>> THEN Holding(F, Old, 1)
       ELSE ClosedAccount]
  /\ mints = (Old :> SoundMint) @@
             (New :> [SoundMint EXCEPT
                        !.freezeAuthority = release = Renouncing,
                        !.mintAuthority = release = Keeping])
  /\ upgradeAuthority = F
  /\ VerifiersInit

MCSpec == MCInit /\ [][VerifiersNext]_checkedVars

==============================================================================
