----------------------------- MODULE MCMigrator ------------------------------
(***************************************************************************)
(* Small instances of Migrator.  F funds the reserve and gets the rest     *)
(* back; U holds source tokens; V and X are addresses a vault can live at. *)
(***************************************************************************)
EXTENDS MigratorProperties, TLC

CONSTANTS F, U, V, X, Old, New

Both == {F, U}
JustF == {F}
OldNew == {Old, New}
Associated == {<<F, New>>, <<U, Old>>, <<U, New>>}
OneKeypair == {V}
TwoKeypairs == {V, X}
Nobody == {}
UserAndVault == {<<U, New>>, V}
RefundAccount == {<<F, New>>}
VaultAddress == {V}
SixDecimals == {6}
SixOrNine == {6, 9}
OneWindow == {<<1, 2>>}
ShortWindow == {<<0, 1>>}
SomeWindows == {<<1, 2>>, <<1, 1>>, <<2, 1>>}
UserOrNone == {U, None}

Holding(o, m, n) == [EmptyAccount(o, m) EXCEPT !.amount = n]
SoundMint ==
  [initialized |-> TRUE, mintAuthority |-> FALSE, freezeAuthority |-> FALSE,
   decimals |-> 6, supply |-> U64Max]

\* F holds the destination supply and U the source supply.
Wealth ==
  (<<F, New>> :> Holding(F, New, U64Max)) @@
  (<<U, Old>> :> Holding(U, Old, U64Max))

\* The vault and U's destination account exist and are clean.
Ready ==
  [a \in TokenAddr |->
     IF a \in DOMAIN Wealth THEN Wealth[a]
     ELSE IF a \in KeypairAddrs THEN EmptyAccount(VaultAuthority, New)
     ELSE EmptyAccount(a[1], a[2])]

\* Neither exists yet.
Bare ==
  [a \in TokenAddr |-> IF a \in DOMAIN Wealth THEN Wealth[a] ELSE ClosedAccount]

InitFrom(accts, ms) ==
  /\ accounts = accts
  /\ mints = ms
  /\ upgradeAuthority = F
  /\ Init

SoundMints == [m \in Mints |-> SoundMint]

FlowSpec == InitFrom(Ready, SoundMints) /\ [][Next]_vars
ControlsSpec == InitFrom(Bare, SoundMints) /\ [][Next]_vars
ReturnSpec == InitFrom(Ready, SoundMints) /\ [][Next]_vars /\ Fairness

\* Mints whose issuers keep, or can still choose, their authorities.
IssuedMint == {[SoundMint EXCEPT !.mintAuthority = ma, !.freezeAuthority = fa] :
                 ma, fa \in BOOLEAN}
UnbornMint == [SoundMint EXCEPT !.initialized = FALSE, !.supply = 0]

IssuersInit ==
  \/ \E old, new \in IssuedMint :
       InitFrom(Ready, (Old :> old) @@ (New :> new))
  \/ \E new \in IssuedMint :
       InitFrom([Ready EXCEPT ![<<U, Old>>] = ClosedAccount],
                (Old :> UnbornMint) @@ (New :> new))

IssuersSpec == IssuersInit /\ [][Next]_vars

==============================================================================
