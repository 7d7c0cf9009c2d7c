# Verification of the migrator

TLA+ models of the token migrator in this repository, checked with TLC and
proved about with TLAPS. A holder of a source token burns it and gets the same
amount of a destination token from a funded reserve, inside a window of time and
under a cap; what is left after the window goes back to the funder, once.

## 1. The system

| Component | Source | State it keeps | Operations |
|---|---|---|---|
| On-chain program | `programs/migrator/src/lib.rs`, `instructions/*` | one `MigrationConfig` account, the reserve vault's balance | `initialize_config`, `set_pause`, `migrate_exact`, `withdraw_unclaimed` |
| Account validators | `state.rs` | none | strict mint, token account, custody, destination, window, cap |
| Config layout | `state.rs`, `sdk/src/index.ts` | 296 bytes, three fields packed in `reserved` | `store`, `init`, `decodeMigrationConfig` |
| Token, ATA and loader programs (external) | used by CPI | token accounts, mints, upgrade authority | transfer, burn, mint, authorities, freeze, create, close |
| Mainnet input validation | `sdk/src/validateMainnetInputs.ts`, `releaseUtils.ts` | one report | reads six accounts, a transaction, the program file and its build record; some seventy checks |
| Quorum | `sdk/src/validateMainnetInputsQuorum.ts` | one result per provider | fan-out, consensus diff, verdict |
| Single-purpose verifiers | `sdk/src/verify*.ts`, `generateReserveProof.ts` | none | one report each, on one or two accounts |
| SDK client | `sdk/src/index.ts` | none | four builders, `decodeMigrationConfig`, derived addresses |
| Verified build | `scripts/run-verified-build.sh` | `target/deploy/migrator.so`, the build-info record | build, hash, compare, write |
| Other scripts | `scripts/*` | kept output | drivers of the commands above |

How they interact. A client sends an instruction; the runtime locks its
accounts, runs it and rolls it back if it fails. The program keeps no memory of
its own but the config account; it reads token accounts and mints that others
own and moves tokens by calling the token program, signing for the
vault-authority PDA. Between two instructions everybody else acts: holders
transfer, approve, re-own and close their accounts, issuers mint, freeze and give
up authorities, donors send tokens to the vault, the clock advances, the upgrade
authority is handed over. The dry run reads the same accounts from several RPC
providers, at moments of its own, while all of this goes on.

What is hard, and what makes the parts correct:

- *The order of claims, donations, pauses and the closeout.* The reserve must
  cover every unit that can still be claimed. `migrate_exact` never reads the
  closeout flag: only the clock and the immutable `end_ts` keep claims out of an
  emptied vault.
- *State checked at one time and used at another.* The mints and the vault are
  accepted once and must stay sound whatever their former owners do. (Handing a
  token account over keeps its close authority; a mint authority given up never
  comes back. The program's checks are exactly what these two facts require.)
- *Two calls in one instruction.* The burn precedes the payout.
- *Liveness.* The funder must get the rest back although pauses, an empty
  reserve and a spoiled refund account can each stop a closeout.
- *Two programs that must agree.* The builders of the SDK restate, by position,
  what the handlers destructure; its decoder restates the layout of a `repr(C)`
  struct; its parsers restate the byte offsets of the validators.
- *Files that change under a command.* The build replaces the program first and
  its record minutes later, and can stop between; the dry run reads the record
  before it asks the chain and hashes the program afterwards.
- *Observations that age.* A replay's verdict is about a chain that has moved on.
- *Null passes.* A check of the dry run that does not apply counts as passed: an
  account that cannot be decoded must fail some other check.

`PROJECT.json` lists the hazards one by one, with lines and properties.

## 2. The modules

| Module | Models | Rests on |
|---|---|---|
| `TokenProgram` | the external token world: accounts with owner, mint, amount, state, delegate, close authority; mints with supply and authorities | – |
| `MigratorChecks` | the validators of `state.rs` and the gates of `instructions/mod.rs` | `TokenProgram` |
| `Migrator` | the program: one action per instruction, the clock, the loader | `MigratorChecks` |
| `MigratorProperties` | what it guarantees, the inductive invariant, the refinement mapping | `Migrator`, `ReserveEscrow` |
| `ReserveEscrow` | the abstract promise: fund, donate, claim, expire, settle | – |
| `Layouts` | the bytes of the config, of mints, token accounts and ProgramData: as written, and as the validators and the SDK read them | `Migrator` |
| `MigratorTx` | one instruction from the SDK's builder to its commit: wire form, checks with their errors, calls, second read, write, rollback, locks | `MigratorProperties`, `Layouts` |
| `ReleaseLane` | the verified build, the sources, the manifest and the quorum command that reads what they leave | – |
| `Supply_proofs` | that what is due can be paid: no call of a checked claim or closeout fails on balances | `Migrator_proofs` |
| `MigratorTx_proofs` | that an instruction is one step of the program; the SDK's builders, the signatures, the standing answers | `MigratorTx`, `Supply_proofs` |
| `Layouts_proofs` | that program and SDK read the same in the same bytes | `Layouts`, `Migrator_proofs` |
| `ReserveEscrow_proofs` | that the escrow keeps its promise | `ReserveEscrow` |
| `ReleaseLane_proofs` | what an ok verdict says of the program and the providers | `ReleaseLane` |
| `Migrator_proofs` | the invariance proof and what follows from it; that the program implements the escrow; the transition properties | `MigratorProperties` |
| `DryRun` | the mainnet input validation and its quorum, on top of the running chain | `MigratorProperties` |
| `Verifiers` | the five commands that check one thing each, at moments of their own | `MigratorProperties` |
| `DryRun_proofs` | what an ok verdict says of the chain; that the replay's checks imply the program's | `DryRun`, `Migrator_proofs` |
| `Verifiers_proofs` | that reports made at different moments can be combined | `Verifiers`, `Migrator_proofs` |
| `MCMigrator`, `MCLayouts`, `MCTx`, `MCRelease`, `MCDryRun`, `MCVerifiers` | small instances | |

Correspondence:

- `config` is the `MigrationConfig` account with its accessors resolved to
  fields; `NoConfig` is the address while the system program owns it. Bumps,
  token program id and vault authority are constants of the program id and are
  left out, as are checks that compare an account with a re-derived address: the
  model has only that account to pass. `admin`, `user`, `funder` and
  `initializer` are the signers; a wallet's signature is its action.
- The token accounts of an instruction are arbitrary addresses, chosen by the
  caller, so that every substitution and every aliasing is a behaviour.
- An instruction is one step. Its guard is the conjunction of all checks of the
  handler and of the calls it makes; a failing instruction changes nothing and is
  no step. `MigrateCallsOK` evaluates the transfer on the result of the burn.
- `StrictMint`, `TokenAccountOK`, `CustodyOK`, `DestinationOK` say what the byte
  validators say, on fields. The account at an associated address is the pair
  `<<owner, mint>>`, which is what makes two of them distinct.
- In `Layouts` the data of an account is a set of cells `<<offset, length,
  value>>`, with the length of the whole beside it for mints and token accounts,
  which the validators and the parsers look at first (a parser that throws answers
  `Garbage`). Reading anything but exactly what was written gives `Garbage`.
  The offsets of the config are computed from sizes and alignments of the
  fields, as `repr(C)` does; those of the decoder and the parsers are the
  literals of the SDK. Mints and accounts are laid out by the token program,
  which is external.
- In `MigratorTx` an instruction is a record with the length of its data, the
  integers in it and its list of accounts with their flags. `Wires` are those the
  SDK builds for the `Intents` and everything one alteration away: a flag
  cleared, a key exchanged, an account or byte too many or too few, an unknown
  tag. `Answer` is the first check that fails, in the order of the handler: `&&`
  goes on to the next check when the ones before it were passed. A mint and a
  token account both belong to the token program and are told apart by the length
  of their data (`InvalidAccountData`).
  `Begin` copies the state when all pass; one action per call works on the copy;
  `Commit` writes the config and takes the copy over. Between these steps every
  other account moves on (`Elsewhere`); the accounts the instruction names are
  locked. The runtime's part (locks, privileges of calls, rollback, a clock that
  stands still during an instruction) is external and assumed. `told` remembers one
  standing error some client has been given.
- SPL Token's burn takes the allowance into account when the owner is his own
  account's delegate. `BurnOK` leaves this out, so that `Migrator` allows every
  claim that may happen; that such a claim may fail is `AllowanceShort` in
  `MigratorTx`.
- In `ReleaseLane` one run of the build script is `StartBuild` (the worktree
  check), `Compile` (the program is replaced), `Measure` (hash, HEAD, comparison,
  and the record is truncated) and `WriteInfo`; it can die between any two.
  The quorum command is `ListProviders`, `ReadInputs` (the second reading of the
  manifest), for each provider `ReadReviewedBuildInfo` and, after its answer,
  `Report`, and `Summarize`. A URL is a record of what normalisation looks at.
  A program's hash is the triple of sources, architecture and base image: the
  three determine a build, and the record has only the first two and the hash.
  People check out and edit at any moment, also between the worktree check and
  the reading of HEAD; a build that this happens to is not `regular`, nor is one for
  debugging. The flag is not in the file: it stands for what people know of the
  build. Everything that makes the command fail early is `EndCommand`.
- A definition named `Bug...` is a mistake the code could have made. No
  specification uses one; each is there to see a property fail.
- In `DryRun` one `getMultipleAccounts` answer is one atomic snapshot, the lookup
  of the funding transaction is a step of its own (its status and its parsed
  form, which only go from unknown to final, are read as one), and any step of
  the chain can come between. A faulty provider answers with what the manifest
  hopes for. The config address is empty, holds lamports somebody has sent, or is
  the config; what is no config is not decoded, and the checks on its fields are
  null. The manifest's funding signature is that of the initialisation, that of
  another transaction (`OtherTransaction`), or absent.
- In `Verifiers` a command that reads once is one step; `reserve-proof`, which
  awaits the funding transaction after its balances, is two (`ReadReserve`,
  `ProveReserve`). `passed` is the set of commands that have exited 0, the only
  thing a run leaves behind. The commands trust their one provider, and so does
  the module.

## 3. The runs

| Run | Question | Bounds |
|---|---|---|
| `Flow` | `ReserveCoversClaims`, `NoClaimAfterCloseout`, `ConfigFrozen`, `ImplementsEscrow`, `TypeOK` under balances only | amounts up to 3, two wallets, three windows (a normal one, one of a single instant, one backwards), clock 0..3 |
| `Vaults` | `IInv` and `ReserveOutflow` with two vault addresses and two admins | amounts up to 2 |
| `Controls` | `ReadersAgree`, `PairAndVaultSound`, `ClaimsPayable`, `CloseoutPayable` when the vault and a user's account are created, delegated, re-owned and closed | amounts up to 2, two adjustable accounts |
| `Issuers` | `ReadersAgree`, `ClaimsPayable`, `CoverageStable` when mints keep authorities or are not yet born | amounts up to 2, clock 0..2 |
| `Return` | `ReserveReturned` under fairness | amounts up to 2, the refund account adjustable |
| `Escrow` | `Solvent` of the abstract escrow | amounts up to 4 |
| `DryRun` | `ApprovedTermsHold`, `ProgramAcceptsReviewed`, `FreshReplayPasses` | two providers, one of them possibly faulty; three manifests: before initialisation, after it, and after it with a donation's signature in place of the funding's; a cap of 1 |
| `Verifiers` | `PassedStaysTrue`, `VerifiedConfigHolds`, `ReserveProofHolds`, `VerifiedVaultStays`, `RenouncedEndsSetup` | one wallet, amounts up to 1, the vault created with any owner and controls, two windows, a release that renounces its upgrade authority beside an issuer that can freeze, and one that keeps it beside an issuer that can mint |
| `Tx` | `TxInv`, `BuiltAccepted`, `ImplementsMigrator`, `WellBuiltCompletes`, `SignedFor`, `AnswersStand` | two wallets, one vault, amounts up to 2, a window of one instant, clock 0..2, a rent of 2 lamports of which 0 to 2 are sent in advance, four substituted keys, source accounts with and without a delegate |
| `Release` | `OkMeansReviewedBuild`, `OkMeansReviewedFile`, `TwoEndpoints` | two commits and an edited worktree, two architectures, two images, two builds, six manifests, one URL from the environment |
| `Surplus` (violated) | does a later surplus leave the vault? | as `Flow`, amounts up to 2 |
| `PausedReplay` (violated) | does a paused program pass the replay? | cap of 1 |

Why the bounds are enough. The window, the deadline and the cap are compared
with `<=` only, so a clock with values before, at both ends of and after the
window, and amounts with 0, 1 and a value between 1 and the cap, meet every case
of a comparison. `U64Max` is the top of the type and the total supply of an
instance, so balances can reach it. Two wallets are a claimant and a funder, and
either can take the other's part, be the donor, or keep a control it should have
lost. The safety results are proved for all values anyway (section 5). What is
left to the bounds is the vault count (two: the pinned one and another), and the
dry run, where two providers are the least a quorum has and no check relates
more than two, and the verifiers. There one wallet plays funder, claimant, donor
and former owner of the vault (the verifiers tell the program's accounts from
anybody's, never two wallets apart), and with amounts up to 1 a balance is either
covered or not; what several claims do to the cover is `ReserveProofStays`, which
is proved.

The order of the verifiers matters. `verify-vault` looks at the vault and not at
its mint (`verifyReserveVault.ts:56`); run first, it passes a vault that the
mint's freeze authority can still freeze, and once that authority is given up
`verify-mint` passes too and nobody can thaw the vault. That a vault stays as
`verify-vault` wants it is therefore stated from the moment on at which
`verify-mint` has passed (`VerifiedVaultStays`), the order of the commands in
`sdk/README.md:65`; `reserve-proof`, which reads both accounts at one slot, and
`verify-config`, which speaks of a program that has checked both, need no order.

What `Tx` and `Release` show. `Tx`: with every interleaving of an instruction's calls
and of everybody else's steps, the observable state moves by the actions of
`Migrator` only (`ImplementsMigrator`), so that nobody sees a burn without its
payout, and the atomic actions used everywhere else are justified; `TxInv`, the inductive
invariant of the proofs, holds in every reachable state. What the SDK
builds is accepted whenever the program can do what is asked (`BuiltAccepted`),
lamports at the config address or not, and runs to its commit
(`WellBuiltCompletes`); no altered account list does anything in the name of
somebody who has not signed (`SignedFor`); a client may give up on a standing
error (`AnswersStand`). A rent of 2 with up to 2 lamports sent in advance has the
three cases of the top-up: all, some and none. One alteration at a time is enough
to drop any single check; the alterations that need two are aliases of each
other's accounts, which `Vaults` covers with arbitrary addresses; a mint's address
in the place of a token account is among the substitutes. `Release`: two
builds are the least that can leave a record of one beside the program of
another; two commits and the edited sources are a right one, a wrong one and none;
the manifests name one commit and architecture with the hash of the right build
and of wrong ones (other architecture, other commit, edited sources), and a build
in the other image is one that no manifest expects. These four list one endpoint
twice, without and with a trailing slash, and a second endpoint; a fifth lists the
first one only, twice, and a sixth a private host, so that both are refused. URLs with
two slashes, which the premise of `TwoEndpoints` excepts, are left to the proof. All
of these are proved for all values. `ReadersAgree` runs where accounts and mints take
every control they can have.

Two premises need a word. `OkMeansReviewedBuild` asks that some report rests on the
record of a regular build. A debug build, or one that a checkout or an edit
came across, leaves a record that no check can tell from a good one, and the model has
both; the script only warns of the first and the runbook (`VERIFIED_BUILD.md:19`)
asks people not to do the second. `OkMeansReviewedFile` asks for neither: what is
in the file is what the manifest expects, unless a build has replaced it during the
command.

`DryRun` with lamports at the config address: a post-init replay must not pass on an
account that holds nothing but lamports, whose undecodable fields leave the checks
on terms and progress null. The checks on owner and length refuse it; a mutant
without them violates `ApprovedTermsHold`. Nor must a right funding signature be
enough: it may be that of a donation.

The named bounds in the modules are `Adjustable` (whose accounts change their
controls), `Admins`, `Custodians`, `Windows`, `MaxTime`, and, in `DryRun`,
`Manifests`, in `Verifiers`, `Releases`, in `MigratorTx`, `Intents`,
`Substitutes` and `MaxLamports`, in `ReleaseLane`, `Manifests`, `Images` and `MaxBuilds`.
Deadlock is not checked: when the clock has stopped at `MaxTime` and every token
has been burned nothing need happen.

Fairness, used in `Return` only: `WF(Tick)`, for time passes, and weak fairness
of `WithdrawUnclaimed`, which any account on the network may send and which the
funder has a reason to send as long as it would succeed. Nothing is assumed of
admins, users or donors; that the program is eventually not paused and the
refund account eventually clean for good is the premise `RefundPossible` of the
property, because the code cannot enforce either.

## 4. Two disagreements with the documentation

- `sdk/README.md:60` promises that `withdraw_unclaimed` sweeps the full balance
  "including any later surplus". The instruction runs once
  (`withdraw_unclaimed.rs:48`); `Surplus` shows a donation after it that no
  instruction can move any more.
- `docs/runbooks/MAINNET_DRY_RUN.md:113` allows the post-init replay "before
  opening migration to users, or while `paused=true`". The report compares the
  reserve with *all* eligible units (`validateMainnetInputs.ts:314`), so that
  after a single claim a paused program fails it; `PausedReplay` shows one.
  `FreshReplayPasses` is the part that holds.

## 5. What is proved

`Migrator_proofs` proves, for every set of wallets, mints and addresses, every
window and every largest amount, from the assumptions `AddressAssumption` and
`MigratorAssumption` on the constants:

- `TypeCorrect`: `Spec => []TypeOK`;
- `Invariance`: `Spec => []IInv`;
- `Solvency`: `Spec => []ReserveCoversClaims`;
- `SoundForGood`: `Spec => []PairAndVaultSound`;
- `ClaimsAccepted`: `Spec => []ClaimsPassChecks`;
- `CloseoutIsFinal`: `Spec => NoClaimAfterCloseout`;
- `TermsFrozen`: `Spec => ConfigFrozen`;
- `Refinement`: `Spec => ImplementsEscrow`;
- `OutflowAccounted`: `Spec => ReserveOutflow`;
- `CoverageKept`: `Spec => CoverageStable`.

The argument. `ReserveCoversClaims` is not inductive: a reserve with a delegate
or a close authority could be drained behind the program's back, a mint with an
authority could grow, and after a closeout the vault is empty while the total
stays below the cap. The inductive invariant `IInv` therefore adds
`PairAndVaultSound` (nobody but the program can move or close the vault) and
`CloseoutAfterDeadline` (the flag is set after `end_ts` only, and the clock never
runs backwards). `TypeCorrect` comes first, from one lemma per action. Then each
environment step is shown to keep a sound vault and strict mints
(`StrictMintKept`, `VaultKept`): every action of the token program on the vault
needs a wallet as owner, a delegate or a close authority, and there is none. Each
instruction keeps `IInv` in a lemma of its own; the delicate one is
`migrate_exact`, which takes the same `n` from both sides of
`Vault.amount >= Remaining`, and whose source and destination cannot be the vault
because those are owned by a wallet. `CloseoutIsFinal` is the reading of `IInv`
at the gate: a set flag means `now > end_ts`, and the gate refuses.

The refinement proof takes `IInv` in both states of a step and shows one escrow
step per instruction (`InitializeFunds`, `MigrateClaims`, `WithdrawSettles`),
a donation or a stutter for the token world (`TokenWorldDonates`, from
`VaultKept`), an expiry or a stutter for the clock, and a stutter for the rest.
`OutflowAccounted` follows the same cases; it needs the two mints to differ, so
that the account burned from is not the account paid to. `CoverageKept` rests on
`StrictMintKept`: the source supply can only fall, and a claim takes as much from
the supply as from the cap.

`Supply_proofs` proves, from the further assumption that a ledger has finitely many
accounts (`LedgerAssumption`):

- `ClaimsGoThrough`: `Spec => []ClaimsPayable`;
- `CloseoutGoesThrough`: `Spec => []CloseoutPayable`.

The calls of a claim fail when a balance would pass the largest amount. That it
never does follows from `HoldingsBacked`, a fact about the token program alone
(`UnitsConserved`): what all accounts hold of a mint is at most its supply, which is
an amount. The sum is a fold over a finite set of addresses.
`SumsExist` and `SumsAgree` show that it is the one function on sets of accounts
which is zero on none and grows by an account's amount with the account; in place of an
induction they take a smallest set on which it fails (`SmallestSubset`) and remove an
element. `HeldChange` is what the steps use: replacing one account's entry changes the
sum by the difference of the two. A transfer then changes it twice, by `-n` and
`+n`, a burn lowers sum and supply alike, minting raises both, and what the
controls, creation and closing do leaves each account's amount alone or moves
none. An overflow in the destination of a transfer would need two accounts with
more than the supply between them (`NoOverflow`).

`ReserveEscrow_proofs` proves `EscrowSolvent`: what `Migrator` implements keeps
its promise for every `MaxUnits`.

`DryRun_proofs` proves, for any number of providers of which one is honest
(`DryRunAssumption`) and any manifests:

- `ApprovalHolds`: `DryRunSpec => []ApprovedTermsHold`;
- `ReviewedIsAccepted`: `DryRunSpec => []ProgramAcceptsReviewed`;
- `FreshReplayAccepted`: `DryRunSpec => []FreshReplayPasses`.

A verdict says nothing of the present by itself. `DryRunInv` says that a snapshot of
an honest provider which the report approves speaks for the chain as it is now:
its terms cannot change (`TermsKept`, the lemma behind `TermsFrozen`), and soundness
of vault and mints is `IInv`'s. `FreshReplayPasses` needs that the window is not
backwards and the cap not zero, which `initialize_config` checks and `NumbersSound`
remembers, and that the manifest names the initialisation or no funding transaction:
any other signature says nothing of the program. `ProgramAcceptsReviewed` needs no invariant: it compares the two lists of
checks, and holds in every state.

`Verifiers_proofs` proves, from `ReleasesAssumption` (the arguments name accounts of
the instance):

- `ReportsStayTrue`: `VerifiersSpec => []PassedStaysTrue`;
- `ConfigReportHolds`: `VerifiersSpec => []VerifiedConfigHolds`;
- `ReserveProofStays`: `VerifiersSpec => []ReserveProofHolds`;
- `VaultReportStays`: `VerifiersSpec => VerifiedVaultStays`;
- `RenouncedStaysBlank`: `VerifiersSpec => RenouncedEndsSetup`.

The lemma that carries them is `ReserveStays`: from a vault under the program's
authority whose mint cannot freeze, only a claim takes, which the total counts, or
the closeout, which the flag records, and this before initialisation as well as
after. The inductive `VerifiersInv` treats a reading that `reserve-proof` holds and is
about to report on as a report already made, so that what the chain does during
the lookup of the funding transaction is covered by the same step.

`ReleaseLane_proofs` proves, from `UrlAssumption` (entries of manifests and of the
environment are URLs, finitely many), for any commits, images, manifests,
providers and number of builds:

- `ReviewedBuild`: `LaneSpec => []OkMeansReviewedBuild`;
- `ReviewedFile`: `LaneSpec => []OkMeansReviewedFile`;
- `DistinctProviders`: `LaneSpec => []TwoEndpoints`.

None of the three is inductive: each speaks of the last state of the command
only. `LaneInv` follows the facts from where they arise: a clean worktree at the
start of a build makes the program the one of HEAD as long as the build is regular,
the record then is `Honest`,
and so is every copy of it a report has read; every report's hash is that of the
file until `Compile` replaces it, which marks the command; the list of providers
holds two URLs in normal form, and two of these with one endpoint are equal
(`OnceNormal`, `NormalKept`, `SameEndpoint`). The primary is normalised twice, which
is harmless for a normal form only: hence the premise about trailing slashes.

`MigratorTx_proofs` proves, from `TxAssumption` (requests name wallets, accounts,
mints and amounts of the instance; a wallet put in the place of an ops admin is one
that `Admins` allows), for any requests, substitutes, rent and lamports:

- `WorkingCopyWorth`: `TxSpec => []TxInv`;
- `OneStep`: `TxSpec => ImplementsMigrator`;
- `SignaturesBind`: `TxSpec => SignedFor`;
- `AnswersStandForGood`: `TxSpec => AnswersStand`;
- `BuildersFit`: `TxSpec => []BuiltAccepted`;
- `BuiltRunsThrough`: `TxSpec => WellBuiltCompletes`.

An instruction's checks are made on the accounts, its calls on a copy, and its
commit comes after others have moved. `TxInv` says that none of this can be told
apart from an instruction without duration: the checks passed when it began
still pass (`PassedStays`), its calls would still succeed (`CallsStay`), both
its copies of the config are the config, and of the accounts and mints it names
the copy holds what its calls so far make of them *now* (`WorkingCopySound`).
What keeps this is the locks on all that a handler reads (`LocksKeep`; each
account that a check looks at is in the list, which is what the `Names`
conjuncts of these lemmas establish) and the clock that stands still.
`AnswerMeans` reads an answer `"ok"` as the conjunction of its conditions;
`WiresOK` shows that alterations keep signatures with wallets. A commit then is
one instruction of `Migrator` (`CommitIsInstruction`): in particular the total
that `migrate_exact` computes before its calls and writes into a second reading
of the config is the right one. `CommitIsInstruction` gives that every theorem
about `Spec` holds under `TxSpec` too. The three consequences: a commit that
lowers a wallet's balance is a claim or an initialisation, whose losing account
is the one it names (`Losers`); a standing answer rests on facts that never turn
back, the clock, the total and the flag (`ToldLasts`); and a builder's list
passes its handler entry by entry (`InitializeBuilt`, `PauseBuilt`,
`MigrateBuilt`, `WithdrawBuilt`). That it runs to its commit needs
`Supply_proofs`: the transfers of a claim or closeout overflow nowhere
(`ClaimCalls`, `CloseoutCalls`). What remains is in the statement: an address that is
initialised already, a payer without lamports, a holder without the units, and an
account with a delegate, who may be its owner.

`Layouts_proofs` proves `BytesAgree`: `Spec => []ReadersAgree`. The offsets of the config
are a recursive function on the fields; `OffsetsAre` exhibits the function that
satisfies its equation, offset by offset, and from there on offsets are numbers. The
cells of a layout begin at different places (`Apart`), so that to read where a cell was
written returns it (`CellRead`); what is read is then compared field by field. The
theorem rests on `TypeCorrect` for what a field can hold.

Only model-checked: liveness (`ReserveReturned`), which is beyond the provers, and
the two violations, which are counterexamples.

## 6. Not modelled

Address derivation (a derived address is a constant or the pair of its seeds);
compute limits; an upgrade of the program to other code; the dry run's cluster
identity and the program account's own layout; the types of manifest and record
fields, command lines and the wording of reports; an HTTP call that never
returns; scripts that only call another command; tests and Kani harnesses. The
clock sysvar is taken to be monotone. The build is taken to be a function of
sources, architecture and base image, which is what the verified-build image is
for. The dry run's comparisons of library name and path of the program
(`validateMainnetInputs.ts:258-277`) are left out: there is one of each. Token
accounts and mints have the layout of SPL Token; a multisig account, which is
neither, is no account of the model.

Three things the code does not do, found while modelling and left
without a run: no check reads `matchesOnChain` of the build record; a private IPv6
host is written in brackets in a URL and therefore never refused, while a name
that begins with `fc` or `fd` is; and the providers' list is read from the manifest
in one reading and the judged terms in another.

## 7. Plan

Done: the token world, the program, its properties and the escrow; the dry run;
the single-purpose verifiers; the instruction as a sequence of checks, calls and
writes (`MigratorTx`) with the lamports at the config address; the layouts; the
release lane; lamports at the config address in `DryRun` too; proofs of every safety
property the passing runs check. Left: the program account's own layout, which both
`DryRun` and `Verifiers` leave out.
