----------------------------- MODULE MigratorTx ------------------------------
(***************************************************************************)
(* One instruction from the SDK's builder to its commit: the bytes and     *)
(* account list that the client sends, the program's checks in their order *)
(* with the error each returns, its calls one by one, the second read of   *)
(* the config, the write, and the runtime's commit or rollback.            *)
(*                                                                         *)
(* The runtime (external) locks the accounts an instruction names, runs it *)
(* on a working copy, refuses a call that lacks a signature or a writable  *)
(* flag, and throws the copy away when the instruction fails.  While one   *)
(* is running everybody else goes on with the accounts it does not name.   *)
(* Nothing here says what an instruction as a whole does: that it is the   *)
(* action of Migrator is a property.                                       *)
(***************************************************************************)
EXTENDS MigratorProperties, Layouts, SequencesExt

CONSTANTS
  ConfigPda,        \* address of the config account
  ProgramData,      \* address of the loader's ProgramData account
  SystemProgramId,  \* address of the system program
  Stray,            \* an address that is none of these
  Rent,             \* lamports an account of ConfigSize bytes must hold
  MaxLamports,      \* bound: lamports anybody sends to the config address
  Intents,          \* bound: what clients ask the SDK for
  Substitutes       \* bound: keys put in the place of another

\* The requests a client can put: signers are wallets, the rest names accounts,
\* mints and amounts of the instance.
InitializeIntents ==
  {i \in [op : {"initialize"}, initializer : Wallets, opsAdmin : Admins,
          funder : Wallets, from : TokenAddr, vault : TokenAddr, src : Mints,
          dst : Mints, startTs : Int, endTs : Int, cap : Amounts] :
     <<i.startTs, i.endTs>> \in Windows}

PauseIntents == [op : {"pause"}, admin : Wallets, paused : BOOLEAN]

MigrateIntents ==
  [op : {"migrate"}, user : Wallets, vault : TokenAddr, from : TokenAddr,
   to : TokenAddr, src : Mints, dst : Mints, n : Amounts]

WithdrawIntents ==
  [op : {"withdraw"}, vault : TokenAddr, to : TokenAddr, dst : Mints]

\* The bounds agree: who may become ops admin is bounded by Admins here too.
ASSUME TxAssumption ==
  /\ Rent \in Nat /\ MaxLamports \in Nat
  /\ Intents \subseteq InitializeIntents \cup PauseIntents
                       \cup MigrateIntents \cup WithdrawIntents
  /\ Substitutes \cap Wallets \subseteq Admins

VARIABLES
  tx,               \* the instruction in flight: pc, wire form, working copy
  lamports,         \* what the config address holds before it is created
  told              \* an answer some client remembers: {} or {<<error, amount>>}

txVars == <<tx, lamports, told>>
allVars == <<accounts, mints, config, now, upgradeAuthority, tx, lamports, told>>

-----------------------------------------------------------------------------
(* The SDK's builders *)

Meta(k, s, w) == [key |-> k, signer |-> s, writable |-> w]
Signer(k) == Meta(k, TRUE, FALSE)
Writable(k) == Meta(k, FALSE, TRUE)
ReadOnly(k) == Meta(k, FALSE, FALSE)

\* Data after the tag byte: its length and the integers in it.
Wire(tag, length, fields, metas) ==
  [tag |-> tag, length |-> length, fields |-> fields, metas |-> metas]

BuildInitializeConfig(initializer, opsAdmin, funder, from, vault, src, dst, startTs, endTs, cap) ==
  Wire(0, 24, <<startTs, endTs, cap>>,
       << Meta(initializer, TRUE, TRUE), Signer(opsAdmin), Signer(funder),
          Writable(from), Writable(ConfigPda), ReadOnly(VaultAuthority),
          Writable(vault), ReadOnly(src), ReadOnly(dst),
          ReadOnly(TokenProgramId), ReadOnly(SystemProgramId),
          ReadOnly(ProgramData) >>)

BuildSetPause(admin, paused) ==
  Wire(1, 1, <<Flag(paused)>>, << Signer(admin), Writable(ConfigPda) >>)

BugBuildMigrateExact(user, vault, from, to, src, dst, n) ==
  Wire(2, 8, <<n>>,
       << Signer(user), Writable(ConfigPda), ReadOnly(VaultAuthority),
          Writable(vault), Writable(to), Writable(from), Writable(src),
          ReadOnly(dst), ReadOnly(TokenProgramId) >>)

BuildMigrateExact(user, vault, from, to, src, dst, n) ==
  Wire(2, 8, <<n>>,
       << Signer(user), Writable(ConfigPda), ReadOnly(VaultAuthority),
          Writable(vault), Writable(from), Writable(to), Writable(src),
          ReadOnly(dst), ReadOnly(TokenProgramId) >>)

BugBuildWithdraw(vault, to, dst) ==
  Wire(3, 0, <<>>,
       << ReadOnly(ConfigPda), ReadOnly(VaultAuthority), Writable(vault),
          Writable(to), ReadOnly(dst), ReadOnly(TokenProgramId) >>)

BuildWithdrawUnclaimed(vault, to, dst) ==
  Wire(3, 0, <<>>,
       << Writable(ConfigPda), ReadOnly(VaultAuthority), Writable(vault),
          Writable(to), ReadOnly(dst), ReadOnly(TokenProgramId) >>)

\* What a client asks for, as the SDK puts it.
WireOf(i) ==
  CASE i.op = "initialize" ->
         BuildInitializeConfig(i.initializer, i.opsAdmin, i.funder, i.from,
           i.vault, i.src, i.dst, i.startTs, i.endTs, i.cap)
    [] i.op = "pause" -> BuildSetPause(i.admin, i.paused)
    [] i.op = "migrate" ->
         BuildMigrateExact(i.user, i.vault, i.from, i.to, i.src, i.dst, i.n)
    [] i.op = "withdraw" -> BuildWithdrawUnclaimed(i.vault, i.to, i.dst)

\* What other clients make of it: a flag or an account left out, a key
\* exchanged, an account or a byte too many, a tag nobody knows.  Only the
\* holder of a private key can sign.
Replaced(ix, i, m) == [ix EXCEPT !.metas = [@ EXCEPT ![i] = m]]

FlagDropped(ix) ==
  {Replaced(ix, i, Meta(ix.metas[i].key, FALSE, ix.metas[i].writable)) :
     i \in DOMAIN ix.metas}
  \cup {Replaced(ix, i, Meta(ix.metas[i].key, ix.metas[i].signer, FALSE)) :
          i \in DOMAIN ix.metas}

KeyExchanged(ix) ==
  {Replaced(ix, i, Meta(k, ix.metas[i].signer /\ k \in Wallets,
                        ix.metas[i].writable)) :
     i \in DOMAIN ix.metas, k \in Substitutes}

Misshapen(ix) ==
  {[ix EXCEPT !.metas = Front(@)],
   [ix EXCEPT !.metas = Append(@, ReadOnly(Stray))],
   [ix EXCEPT !.length = @ + 1], [ix EXCEPT !.tag = 4]}

Altered(ix) == FlagDropped(ix) \cup KeyExchanged(ix) \cup Misshapen(ix)

Wires ==
  LET built == {WireOf(i) : i \in Intents}
  IN built \cup UNION {Altered(ix) : ix \in built}

-----------------------------------------------------------------------------
(* What the runtime knows of a wire: a key named twice has both privileges. *)

Key(ix, i) == IF i \in DOMAIN ix.metas THEN ix.metas[i].key ELSE None
Names(ix, k) == \E i \in DOMAIN ix.metas : ix.metas[i].key = k
Signs(ix, k) ==
  \E i \in DOMAIN ix.metas : ix.metas[i].key = k /\ ix.metas[i].signer
Writes(ix, k) ==
  \E i \in DOMAIN ix.metas : ix.metas[i].key = k /\ ix.metas[i].writable

-----------------------------------------------------------------------------
(* The program's checks, in their order: the first that fails gives the     *)
(* error.  A handler that reads the config goes on to its second list when  *)
(* there is one.                                                            *)

Check(ok, error) == IF ok THEN "ok" ELSE error

\* Early return: what comes second is looked at when the first was ok.
first && second == IF first = "ok" THEN second ELSE first

AccountAt(k) == IF k \in TokenAddr THEN accounts[k] ELSE ClosedAccount

\* A token account or a mint, told apart by the length of its data.
TokenOwned(k) ==
  AccountAt(k).state # "closed" \/ (k \in Mints /\ mints[k].initialized)

StrictMintChecks(k, error) ==
  Check(TokenOwned(k), error)
  && Check(k \in Mints, "InvalidAccountData")
  && Check(StrictMint(k), error)

TokenAccountChecks(k, m, o) ==
  LET acct == AccountAt(k)
  IN Check(TokenOwned(k), "InvalidTokenProgram")
     && Check(k \in TokenAddr, "InvalidAccountData")
     && Check(acct.mint = m, "InvalidConfig")
     && Check(acct.owner = o, "Unauthorized")
     && Check(acct.state = "initialized", "AccountNotInitialized")
     && Check(acct.mint # NativeMint, "InvalidTokenAccountControls")

CustodyChecks(k, m, o) ==
  TokenAccountChecks(k, m, o)
  && Check(~AccountAt(k).delegate /\ ~AccountAt(k).closeAuthority,
          "InvalidTokenAccountControls")

DestinationChecks(k, m, o) ==
  CustodyChecks(k, m, o) && Check(k = Ata(o, m), "InvalidDestinationTokenAccount")

BugGateChecks(c) ==
  Check(~c.paused, "ProtocolPaused")
  && Check(c.start_ts <= now, "MigrationClosed")
  && Check(now <= c.end_ts, "MigrationClosed")

GateChecks(c) ==
  Check(~c.paused, "ProtocolPaused")
  && Check(c.start_ts <= now, "MigrationNotStarted")
  && Check(now <= c.end_ts, "MigrationClosed")

BugInitializeSigners(ix) ==
  Check(Signs(ix, Key(ix, 3)), "MissingRequiredSignature")

InitializeSigners(ix) ==
  Check(Signs(ix, Key(ix, 2)), "MissingRequiredSignature")
  && Check(Signs(ix, Key(ix, 3)), "MissingRequiredSignature")

InitializeShape(ix) ==
  Check(Len(ix.metas) >= 12, "NotEnoughAccountKeys")
  && InitializeSigners(ix)
  && Check(ix.length = 24, "InvalidInstructionData")
  && Check(WindowOK(ix.fields[1], ix.fields[2]), "InvalidTimestamp")
  && Check(ix.fields[3] # 0, "InvalidConfig")

InitializeAddressChecks(ix) ==
  LET initializer == Key(ix, 1)
  IN Check(Signs(ix, initializer), "MissingRequiredSignature")
     && Check(Key(ix, 12) = ProgramData, "InvalidPdaSeeds")
     && Check(upgradeAuthority = initializer, "Unauthorized")
     && Check(Key(ix, 10) = TokenProgramId, "InvalidTokenProgram")
     && Check(Key(ix, 5) = ConfigPda, "InvalidPdaSeeds")
     && Check(Key(ix, 6) = VaultAuthority, "InvalidVaultAuthority")

InitializeReserveChecks(ix) ==
  LET from == Key(ix, 4)
      vault == Key(ix, 7)
      src == Key(ix, 8)
      dst == Key(ix, 9)
  IN Check(src # dst, "InvalidConfig")
     && StrictMintChecks(src, "InvalidOldMint")
     && StrictMintChecks(dst, "InvalidNewMint")
     && Check(mints[src].decimals = mints[dst].decimals, "InvalidConfig")
     && CustodyChecks(from, dst, Key(ix, 3))
     && CustodyChecks(vault, dst, VaultAuthority)
     && Check(AccountAt(vault).amount = 0, "InvalidConfig")
     && Check(AccountAt(from).amount >= ix.fields[3], "InsufficientVaultLiquidity")

InitializeConfigChecks(ix) ==
  InitializeShape(ix) && InitializeAddressChecks(ix) && InitializeReserveChecks(ix)

\* from_account_info: the account is the program's own, of its size and kind.
ConfigReadable == Check(config.created, "IllegalOwner")

SetPauseShape(ix) ==
  Check(Len(ix.metas) >= 2, "NotEnoughAccountKeys")
  && Check(Signs(ix, Key(ix, 1)), "MissingRequiredSignature")
  && Check(ix.length = 1 /\ ix.fields[1] \in {0, 1}, "InvalidInstructionData")
  && Check(Key(ix, 2) = ConfigPda, "InvalidPdaSeeds")
  && ConfigReadable

SetPauseChecks(ix) == Check(config.admin = Key(ix, 1), "Unauthorized")

MigrateExactShape(ix) ==
  Check(ix.length = 8, "InvalidInstructionData")
  && Check(ix.fields[1] # 0, "ZeroAmount")
  && Check(Len(ix.metas) >= 9, "NotEnoughAccountKeys")
  && Check(Signs(ix, Key(ix, 1)), "MissingRequiredSignature")
  && Check(Key(ix, 2) = ConfigPda, "InvalidPdaSeeds")
  && Check(Key(ix, 3) = VaultAuthority, "InvalidVaultAuthority")
  && ConfigReadable

MigrateExactChecks(ix) ==
  LET n == ix.fields[1]
      user == Key(ix, 1)
      vault == Key(ix, 4)
  IN GateChecks(config)
     && Check(Key(ix, 9) = TokenProgramId, "InvalidTokenProgram")
     && Check(vault = config.reserve_vault, "InvalidVault")
     && Check(Key(ix, 7) = config.source_mint, "InvalidOldMint")
     && Check(Key(ix, 8) = config.destination_mint, "InvalidNewMint")
     && StrictMintChecks(config.source_mint, "InvalidOldMint")
     && StrictMintChecks(config.destination_mint, "InvalidNewMint")
     && Check(CapAllows(config.total_migrated, n, config.migration_cap),
             "MigrationCapExceeded")
     && Check(CheckedTotal(config.total_migrated, n), "MathOverflow")
     && CustodyChecks(vault, config.destination_mint, VaultAuthority)
     && TokenAccountChecks(Key(ix, 5), config.source_mint, user)
     && DestinationChecks(Key(ix, 6), config.destination_mint, user)
     && Check(AccountAt(vault).amount >= n, "InsufficientVaultLiquidity")

WithdrawShape(ix) ==
  Check(ix.length = 0, "InvalidInstructionData")
  && Check(Len(ix.metas) >= 6, "NotEnoughAccountKeys")
  && Check(Key(ix, 1) = ConfigPda, "InvalidPdaSeeds")
  && Check(Key(ix, 2) = VaultAuthority, "InvalidVaultAuthority")
  && ConfigReadable

WithdrawUnclaimedChecks(ix) ==
  LET vault == Key(ix, 3)
  IN Check(~config.paused, "ProtocolPaused")
     && Check(WithdrawalGate(config.end_ts, now), "MigrationStillOpen")
     && Check(NotWithdrawn, "UnclaimedAlreadyWithdrawn")
     && Check(Key(ix, 6) = TokenProgramId, "InvalidTokenProgram")
     && Check(vault = config.reserve_vault, "InvalidVault")
     && Check(Key(ix, 5) = config.destination_mint, "InvalidNewMint")
     && StrictMintChecks(config.destination_mint, "InvalidNewMint")
     && CustodyChecks(vault, config.destination_mint, VaultAuthority)
     && DestinationChecks(Key(ix, 4), config.destination_mint,
                         config.refund_recipient)
     && Check(AccountAt(vault).amount # 0, "InsufficientVaultLiquidity")

\* process_instruction up to the first call.
Answer(ix) ==
  CASE ix.tag = 0 -> InitializeConfigChecks(ix)
    [] ix.tag = 1 -> SetPauseShape(ix) && SetPauseChecks(ix)
    [] ix.tag = 2 -> MigrateExactShape(ix) && MigrateExactChecks(ix)
    [] ix.tag = 3 -> WithdrawShape(ix) && WithdrawUnclaimedChecks(ix)
    [] OTHER -> "InvalidInstructionData"

-----------------------------------------------------------------------------
(* Running an instruction *)

Idle == [pc |-> "idle"]

FirstCall == <<"create", "store pause", "burn", "sweep">>

\* The working copy, and the copy of the config that the checks were made on.
Begin(ix) ==
  /\ tx = Idle
  /\ Answer(ix) = "ok"
  /\ tx' = [pc |-> FirstCall[ix.tag + 1], ix |-> ix, accounts |-> accounts,
            mints |-> mints, config |-> config, read |-> config,
            lamports |-> lamports]
  /\ UNCHANGED <<vars, lamports, told>>

\* Answers after which a client need not try again.
StandingErrors ==
  {"MigrationClosed", "MigrationCapExceeded", "UnclaimedAlreadyWithdrawn"}

\* A failed instruction changes nothing; one such answer is remembered.
Reject(ix) ==
  /\ tx = Idle /\ told = {}
  /\ Answer(ix) \in StandingErrors
  /\ told' = {<<Answer(ix), IF ix.fields = <<>> THEN 0 ELSE ix.fields[1]>>}
  /\ UNCHANGED <<vars, tx, lamports>>

\* One call: the runtime refuses it or goes on with its effect, `after`.
Call(pc, ok, after) ==
  /\ tx.pc = pc
  /\ tx' = IF ok THEN after ELSE Idle
  /\ UNCHANGED <<vars, lamports, told>>

\* A token account or mint that is debited, credited or burned from must have
\* been named writable, an authority must have signed.
MayTransfer(ix, from, to, n) ==
  /\ Writes(ix, from) /\ Writes(ix, to)
  /\ TransferOK(tx.accounts, from, to, n)

Missing == IF tx.lamports < Rent THEN Rent - tx.lamports ELSE 0

BugCreateOK(ix) ==
  /\ ~tx.config.created
  /\ tx.lamports = 0 /\ Signs(ix, Key(ix, 1)) /\ Writes(ix, Key(ix, 1))
  /\ Writes(ix, ConfigPda) /\ Names(ix, SystemProgramId)

\* An account that the program owns already is taken as created.
BugCreateAgain(ix) ==
  /\ Missing > 0 => Signs(ix, Key(ix, 1)) /\ Writes(ix, Key(ix, 1))
  /\ Writes(ix, ConfigPda) /\ Names(ix, SystemProgramId)

\* create_pda_account_idempotent: lamports that are there already are kept.
\* A program that is called must be among the accounts of its caller.
CreateOK(ix) ==
  /\ ~tx.config.created
  /\ Missing > 0 => Signs(ix, Key(ix, 1)) /\ Writes(ix, Key(ix, 1))
  /\ Writes(ix, ConfigPda) /\ Names(ix, SystemProgramId)

CreateConfigAccount ==
  Call("create", CreateOK(tx.ix),
       [tx EXCEPT !.pc = "fund", !.lamports = @ + Missing])

\* What it takes to create the account may be more than the payer has.
PayerShort ==
  /\ tx.pc = "create" /\ Missing > 0
  /\ tx' = Idle
  /\ UNCHANGED <<vars, lamports, told>>

Fund ==
  LET from == Key(tx.ix, 4)
      vault == Key(tx.ix, 7)
      cap == tx.ix.fields[3]
  IN Call("fund", MayTransfer(tx.ix, from, vault, cap) /\ Signs(tx.ix, Key(tx.ix, 3)),
          [tx EXCEPT !.pc = "store terms",
                     !.accounts = Transferred(@, from, vault, cap)])

BurnSource ==
  LET from == Key(tx.ix, 5)
      src == Key(tx.ix, 7)
      n == tx.ix.fields[1]
  IN Call("burn",
          /\ Signs(tx.ix, Key(tx.ix, 1))
          /\ Writes(tx.ix, from) /\ Writes(tx.ix, src)
          /\ BurnOK(tx.accounts, tx.mints, from, src, n),
          [tx EXCEPT !.pc = "pay", !.accounts = Burned(@, from, n),
                     !.mints = SupplyBurned(@, src, n)])

\* An owner who is his own delegate burns at most the allowance.
AllowanceShort ==
  /\ tx.pc = "burn" /\ tx.accounts[Key(tx.ix, 5)].delegate
  /\ tx' = Idle
  /\ UNCHANGED <<vars, lamports, told>>

PayOut ==
  LET vault == Key(tx.ix, 4)
      to == Key(tx.ix, 6)
      n == tx.ix.fields[1]
  IN Call("pay", MayTransfer(tx.ix, vault, to, n),
          [tx EXCEPT !.pc = "count", !.accounts = Transferred(@, vault, to, n)])

Sweep ==
  LET vault == Key(tx.ix, 3)
      to == Key(tx.ix, 4)
      n == tx.accounts[vault].amount
  IN Call("sweep", MayTransfer(tx.ix, vault, to, n),
          [tx EXCEPT !.pc = "close out",
                     !.accounts = Transferred(@, vault, to, n)])

BugStoredTotal(n) == tx.config

\* migrate_exact reads the config again and stores a total computed before.
StoredTotal(n) ==
  [tx.config EXCEPT !.total_migrated = tx.read.total_migrated + n]

\* withdraw_unclaimed stores the copy it has checked.
StoredCloseout == [tx.read EXCEPT !.unclaimed_withdrawn = TRUE]

StoredConfigAfter(ix) ==
  CASE tx.pc = "store terms" ->
         InitialConfig(Key(ix, 2), Key(ix, 3), Key(ix, 7), Key(ix, 8),
                       Key(ix, 9), ix.fields[1], ix.fields[2], ix.fields[3])
    [] tx.pc = "store pause" -> [tx.read EXCEPT !.paused = ix.fields[1] = 1]
    [] tx.pc = "count" -> StoredTotal(ix.fields[1])
    [] tx.pc = "close out" -> StoredCloseout

\* The write to the config account is the last step; a config account that
\* was not named writable fails the instruction.
AtStore == tx.pc \in {"store terms", "store pause", "count", "close out"}

Commit ==
  /\ AtStore /\ Writes(tx.ix, ConfigPda)
  /\ accounts' = [a \in TokenAddr |->
       IF Names(tx.ix, a) THEN tx.accounts[a] ELSE accounts[a]]
  /\ mints' = [m \in Mints |->
       IF Names(tx.ix, m) THEN tx.mints[m] ELSE mints[m]]
  /\ config' = StoredConfigAfter(tx.ix)
  /\ lamports' = tx.lamports
  /\ tx' = Idle
  /\ UNCHANGED <<now, upgradeAuthority, told>>

StoreRefused ==
  /\ AtStore /\ ~Writes(tx.ix, ConfigPda)
  /\ tx' = Idle
  /\ UNCHANGED <<vars, lamports, told>>

-----------------------------------------------------------------------------
(* Everybody else *)

LocksHeld ==
  tx # Idle =>
    \A i \in DOMAIN tx.ix.metas :
      LET k == tx.ix.metas[i].key
      IN /\ k \in TokenAddr => accounts'[k] = accounts[k]
         /\ k \in Mints => mints'[k] = mints[k]
         /\ k = ProgramData => upgradeAuthority' = upgradeAuthority

Elsewhere ==
  /\ TokenWorld \/ \E w \in Custodians : SetUpgradeAuthority(w)
  /\ LocksHeld
  /\ UNCHANGED txVars

\* The clock stands still while an instruction runs.
NextSlot == tx = Idle /\ Tick /\ UNCHANGED txVars

SendLamports ==
  /\ tx = Idle /\ ~config.created /\ lamports < MaxLamports
  /\ lamports' = lamports + 1
  /\ UNCHANGED <<vars, tx, told>>

TxInit == tx = Idle /\ lamports = 0 /\ told = {}

TxNext ==
  \/ \E ix \in Wires : Begin(ix) \/ Reject(ix)
  \/ CreateConfigAccount \/ PayerShort \/ Fund
  \/ BurnSource \/ AllowanceShort \/ PayOut \/ Sweep
  \/ Commit \/ StoreRefused
  \/ Elsewhere \/ NextSlot \/ SendLamports

TxSpec == Init /\ TxInit /\ [][TxNext]_allVars

-----------------------------------------------------------------------------
(* Properties *)

\* Checks, calls, copies of the config and the commit, taken together, are one
\* step of Migrator, or none at all when anything fails on the way: nobody
\* ever sees a burn without its payout or a payout without its count.
ImplementsMigrator == Init /\ [][Next]_vars

\* What the client asks for is what the program allows now.
Possible(i) ==
  CASE i.op = "initialize" ->
         InitializeChecks(i.initializer, i.funder, i.from, i.vault, i.src,
                          i.dst, i.startTs, i.endTs, i.cap)
    [] i.op = "pause" -> config.created /\ config.admin = i.admin
    [] i.op = "migrate" ->
         /\ MigrateChecks(i.user, i.vault, i.from, i.to, i.n)
         /\ i.src = config.source_mint /\ i.dst = config.destination_mint
    [] i.op = "withdraw" ->
         /\ WithdrawChecks(i.vault, i.to)
         /\ i.dst = config.destination_mint

\* What the SDK builds passes the program's checks in every state in which
\* the program can do what is asked: length of the data, number and order of
\* the accounts, signer flags and derived addresses are what the handlers
\* expect, whatever lamports the config address has been sent.
BuiltAccepted ==
  tx = Idle => \A i \in Intents : Possible(i) => Answer(WireOf(i)) = "ok"

\* An instruction of the SDK that has passed its checks runs to its commit: no
\* call lacks a flag or an account, none fails on balances.  What can still
\* fail is a second initialisation, a payer without the lamports to create the
\* account, a claim of more than the holder has, and one from an account with a
\* delegate, who may be its owner with too small an allowance.
WellBuiltCompletes ==
  [][tx # Idle /\ tx' = Idle /\ (\E i \in Intents : tx.ix = WireOf(i)) =>
       \/ AtStore /\ config' = StoredConfigAfter(tx.ix)
       \/ tx.pc = "create" /\ (config.created \/ lamports < Rent)
       \/ /\ tx.pc = "burn"
          /\ \/ accounts[Key(tx.ix, 5)].amount < tx.ix.fields[1]
             \/ accounts[Key(tx.ix, 5)].delegate]_allVars

-----------------------------------------------------------------------------
(* What the working copy is worth while an instruction runs *)

Fits(pc, tag) ==
  \/ tag = 0 /\ pc \in {"create", "fund", "store terms"}
  \/ tag = 1 /\ pc = "store pause"
  \/ tag = 2 /\ pc \in {"burn", "pay", "count"}
  \/ tag = 3 /\ pc \in {"sweep", "close out"}

InFlight ==
  [pc : {"create", "fund", "store terms", "store pause", "burn", "pay", "count",
         "sweep", "close out"},
   ix : Wires, accounts : [TokenAddr -> Account], mints : [Mints -> Mint],
   config : MigrationConfig \cup {NoConfig},
   read : MigrationConfig \cup {NoConfig}, lamports : Nat]

TxTypeOK ==
  /\ lamports \in Nat
  /\ tx # Idle =>
       /\ tx \in InFlight /\ Fits(tx.pc, tx.ix.tag)
       /\ tx.pc = "create" => tx.lamports = lamports

\* What the calls so far make of the accounts and mints as they are now.
AccountsSoFar ==
  LET k(i) == Key(tx.ix, i)
      n == tx.ix.fields[1]
  IN CASE tx.pc = "store terms" ->
            Transferred(accounts, k(4), k(7), tx.ix.fields[3])
       [] tx.pc = "pay" -> Burned(accounts, k(5), n)
       [] tx.pc = "count" -> Transferred(Burned(accounts, k(5), n), k(4), k(6), n)
       [] tx.pc = "close out" ->
            Transferred(accounts, k(3), k(4), CloseoutAmount(k(3)))
       [] OTHER -> accounts

MintsSoFar ==
  IF tx.pc \in {"pay", "count"}
  THEN SupplyBurned(mints, Key(tx.ix, 7), tx.ix.fields[1])
  ELSE mints

\* They would still succeed.
CallsStillOK ==
  LET k(i) == Key(tx.ix, i)
      n == tx.ix.fields[1]
  IN CASE tx.pc = "fund" -> ConfigAccountFree
       [] tx.pc = "store terms" ->
            /\ ConfigAccountFree
            /\ TransferOK(accounts, k(4), k(7), tx.ix.fields[3])
       [] tx.pc = "pay" -> BurnOK(accounts, mints, k(5), k(7), n)
       [] tx.pc = "count" -> MigrateCallsOK(k(4), k(5), k(6), n)
       [] tx.pc = "close out" -> WithdrawCallsOK(k(3), k(4))
       [] OTHER -> TRUE

\* The checks an instruction has passed still pass, whatever everybody else does
\* meanwhile; both its copies of the config are the config; and what it will
\* commit of the accounts and mints it names is what its calls make of them now.
WorkingCopySound ==
  tx # Idle =>
    /\ Answer(tx.ix) = "ok" /\ CallsStillOK
    /\ tx.config = config /\ tx.read = config
    /\ \A a \in TokenAddr : Names(tx.ix, a) => tx.accounts[a] = AccountsSoFar[a]
    /\ \A m \in Mints : Names(tx.ix, m) => tx.mints[m] = MintsSoFar[m]

\* A standing answer is still the answer.
ToldTrue ==
  \A t \in told :
    /\ t[1] \in StandingErrors /\ t[2] \in Int
    /\ config.created
    /\ t[1] = "MigrationClosed" => Expired
    /\ t[1] = "MigrationCapExceeded" => t[2] > Remaining
    /\ t[1] = "UnclaimedAlreadyWithdrawn" => config.unclaimed_withdrawn

\* The inductive invariant: no time passes, for an instruction, between its
\* checks and its commit (a claim's burn, payout and count speak of one state),
\* and for the one who was refused for good nothing changes either.
TxInv == TxTypeOK /\ WorkingCopySound /\ ToldTrue

Signed(w) == tx # Idle /\ Signs(tx.ix, w)

\* Whatever the account list looks like, nothing happens in anybody's name
\* without a signature: initialisation needs the upgrade authority, the admin
\* and the funder, a pause its admin, a claim the owner of what is burned.
SignedFor ==
  [][config' # config =>
       /\ ~config.created =>
            /\ Signed(upgradeAuthority)
            /\ Signed(config'.admin) /\ Signed(config'.refund_recipient)
       /\ config.created /\ config'.paused # config.paused =>
            Signed(config.admin)
       /\ \A a \in TokenAddr :
            /\ accounts'[a].amount < accounts[a].amount
            /\ accounts[a].owner \in Wallets
            => Signed(accounts[a].owner)]_allVars

\* Some answers stand for good: after MigrationClosed nobody claims any more,
\* after MigrationCapExceeded for n units no claim of n or more succeeds, and
\* after UnclaimedAlreadyWithdrawn nothing leaves the reserve.
AnswersStand ==
  [][\A t \in told :
       /\ config.created
       /\ t[1] = "MigrationClosed" =>
            config'.total_migrated = config.total_migrated
       /\ t[1] = "MigrationCapExceeded" =>
            config'.total_migrated < config.total_migrated + t[2]
       /\ t[1] = "UnclaimedAlreadyWithdrawn" => Outflow <= 0]_allVars

==============================================================================
