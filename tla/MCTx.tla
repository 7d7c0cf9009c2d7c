-------------------------------- MODULE MCTx --------------------------------
(***************************************************************************)
(* A small instance of MigratorTx: F funds the reserve and may initialise  *)
(* the config, U is the ops admin and claims, from an account that may     *)
(* have a delegate.  The accounts are those of MCMigrator's Ready.         *)
(***************************************************************************)
EXTENDS MigratorTx

CONSTANTS F, U, V, Old, New

Both == {F, U}
JustU == {U}
OldNew == {Old, New}
Associated == {<<F, New>>, <<U, Old>>, <<U, New>>}
OneKeypair == {V}
Nobody == {}
VaultAddress == {V}
SixDecimals == {6}
OneWindow == {<<1, 1>>}
RefundToU == {<<U, New>>}

Initializations ==
  {[op |-> "initialize", initializer |-> w, opsAdmin |-> U, funder |-> F,
    from |-> <<F, New>>, vault |-> V, src |-> Old, dst |-> New,
    startTs |-> 1, endTs |-> 1, cap |-> 2] : w \in Both}
Pauses == {[op |-> "pause", admin |-> w, paused |-> b] : w \in Both, b \in BOOLEAN}
Claims ==
  {[op |-> "migrate", user |-> U, vault |-> V, from |-> <<U, Old>>,
    to |-> <<U, New>>, src |-> Old, dst |-> New, n |-> n] : n \in {1, 2}}
Closeouts == {[op |-> "withdraw", vault |-> V, to |-> <<F, New>>, dst |-> New]}

Asked == Initializations \cup Pauses \cup Claims \cup Closeouts

Strangers == {Stray, U, Old, <<F, New>>}

Holding(o, m, n) == [EmptyAccount(o, m) EXCEPT !.amount = n]
SoundMint ==
  [initialized |-> TRUE, mintAuthority |-> FALSE, freezeAuthority |-> FALSE,
   decimals |-> 6, supply |-> U64Max]

MCTxInit ==
  /\ \E approved \in BOOLEAN :
       accounts = [a \in TokenAddr |->
         CASE a = <<F, New>> -> Holding(F, New, U64Max)
           [] a = <<U, Old>> ->
                [Holding(U, Old, U64Max) EXCEPT !.delegate = approved]
           [] a = <<U, New>> -> EmptyAccount(U, New)
           [] a = V -> EmptyAccount(VaultAuthority, New)]
  /\ mints = [m \in Mints |-> SoundMint]
  /\ upgradeAuthority = F
  /\ Init /\ TxInit

MCTxSpec == MCTxInit /\ [][TxNext]_allVars

==============================================================================
