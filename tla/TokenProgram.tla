---------------------------- MODULE TokenProgram ----------------------------
(***************************************************************************)
(* The SPL Token program (Tokenkeg) and the associated-token program, as   *)
(* the migrator uses them.  Neither is part of the repository: the module  *)
(* states what the migrator's code relies on.                              *)
(*                                                                         *)
(* A token account has an owner (a wallet, or the migrator's vault         *)
(* authority PDA, for which only the migrator program can sign), one mint  *)
(* and an amount.  Its controls are a delegate, a close authority and the  *)
(* frozen state.  Two facts shape everything that follows:                 *)
(*   - changing the owner of an account clears its delegate and KEEPS its  *)
(*     close authority;                                                    *)
(*   - an authority of a mint, once given up, never comes back.            *)
(* Whoever signs for a wallet can do so at any time, so a wallet's actions *)
(* are always possible.                                                    *)
(***************************************************************************)
EXTENDS Integers, FiniteSets, FiniteSetsExt

CONSTANTS
  Wallets,          \* addresses with a private key: users, funder, admin
  VaultAuthority,   \* the PDA that owns the reserve vault: signs only by CPI
  Mints,            \* addresses of mints
  NativeMint,       \* the wrapped-SOL mint
  AtaAddrs,         \* associated token addresses of the instance
  KeypairAddrs,     \* other addresses a token account can live at
  Adjustable,       \* bound: accounts whose controls, owner or existence change
  Decimals,         \* decimals a mint can be initialised with
  U64Max,           \* largest token amount
  None              \* no mint, no owner

Owners == Wallets \cup {VaultAuthority}
TokenAddr == AtaAddrs \cup KeypairAddrs
Amounts == 0 .. U64Max

\* The associated token account of a wallet for a mint: one address each.
Ata(owner, mint) == <<owner, mint>>

ASSUME AddressAssumption ==
  /\ VaultAuthority \notin Wallets
  /\ None \notin Owners \cup Mints
  /\ AtaAddrs \subseteq Owners \X Mints
  /\ KeypairAddrs \cap (Owners \X Mints) = {}
  /\ Adjustable \subseteq TokenAddr
  /\ Decimals \subseteq Nat
  /\ U64Max \in Nat

\* A ledger has finitely many accounts: what they hold together is a sum.
ASSUME LedgerAssumption == IsFiniteSet(TokenAddr)

Account ==
  [state : {"closed", "initialized", "frozen"},
   mint : Mints \cup {None}, owner : Owners \cup {None}, amount : Amounts,
   delegate : BOOLEAN, closeAuthority : BOOLEAN]

ClosedAccount ==
  [state |-> "closed", mint |-> None, owner |-> None, amount |-> 0,
   delegate |-> FALSE, closeAuthority |-> FALSE]

EmptyAccount(o, m) ==
  [ClosedAccount EXCEPT !.state = "initialized", !.mint = m, !.owner = o]

Mint ==
  [initialized : BOOLEAN, mintAuthority : BOOLEAN, freezeAuthority : BOOLEAN,
   decimals : Decimals, supply : Amounts]

VARIABLES
  accounts,         \* TokenAddr -> Account
  mints             \* Mints -> Mint

tokenVars == <<accounts, mints>>

TokenTypeOK ==
  /\ accounts \in [TokenAddr -> Account]
  /\ mints \in [Mints -> Mint]

\* What the instance's accounts hold of a mint.
Held(m) ==
  MapThenSumSet(LAMBDA a : accounts[a].amount,
                {a \in TokenAddr : accounts[a].mint = m})

WellFormed(a, acct) ==
  \/ acct = ClosedAccount
  \/ /\ acct.state # "closed"
     /\ acct.mint \in Mints /\ mints[acct.mint].initialized
     /\ acct.owner \in Owners
     /\ acct.owner = VaultAuthority => ~acct.delegate
     /\ a \in AtaAddrs => acct.mint = a[2]

\* Any holdings that the token program allows may exist at the start.
TokenInit ==
  /\ TokenTypeOK
  /\ \A a \in TokenAddr : WellFormed(a, accounts[a])
  /\ \A m \in Mints :
       /\ Held(m) <= mints[m].supply
       /\ ~mints[m].initialized =>
            /\ ~mints[m].mintAuthority /\ ~mints[m].freezeAuthority
            /\ mints[m].supply = 0

-----------------------------------------------------------------------------
(* The two instructions the migrator calls, on a map ac of token accounts. *)

TransferOK(ac, from, to, n) ==
  /\ ac[from].state = "initialized"
  /\ ac[to].state = "initialized"
  /\ ac[from].mint = ac[to].mint
  /\ ac[from].amount >= n
  /\ from # to => ac[to].amount + n <= U64Max

Transferred(ac, from, to, n) ==
  IF from = to
  THEN ac
  ELSE [ac EXCEPT ![from].amount = @ - n, ![to].amount = @ + n]

\* An owner whom his own account names as its delegate is held to the allowance,
\* which an account here does not tell: such a burn may fail all the same.
BurnOK(ac, ms, from, m, n) ==
  /\ ac[from].state = "initialized"
  /\ ac[from].mint = m
  /\ ac[from].amount >= n
  /\ ms[m].supply >= n

Burned(ac, from, n) == [ac EXCEPT ![from].amount = @ - n]
SupplyBurned(ms, m, n) == [ms EXCEPT ![m].supply = @ - n]

-----------------------------------------------------------------------------
(* What anybody else can do to the token accounts.                         *)

HeldByWallet(a) == accounts[a].owner \in Wallets
MayMove(a) == HeldByWallet(a) \/ accounts[a].delegate
MayClose(a) == HeldByWallet(a) \/ accounts[a].closeAuthority

TransferTokens(from, to, n) ==
  /\ MayMove(from)
  /\ TransferOK(accounts, from, to, n)
  /\ accounts' = Transferred(accounts, from, to, n)
  /\ UNCHANGED mints

BurnTokens(from, m, n) ==
  /\ MayMove(from)
  /\ BurnOK(accounts, mints, from, m, n)
  /\ accounts' = Burned(accounts, from, n)
  /\ mints' = SupplyBurned(mints, m, n)

MintTokens(m, to, n) ==
  /\ mints[m].initialized /\ mints[m].mintAuthority
  /\ accounts[to].state = "initialized" /\ accounts[to].mint = m
  /\ accounts[to].amount + n <= U64Max
  /\ mints[m].supply + n <= U64Max
  /\ accounts' = [accounts EXCEPT ![to].amount = @ + n]
  /\ mints' = [mints EXCEPT ![m].supply = @ + n]

\* Approve and Revoke; an allowance used up reads as a Revoke.
SetDelegate(a, b) ==
  /\ HeldByWallet(a)
  /\ accounts[a].state = "initialized"
  /\ accounts' = [accounts EXCEPT ![a].delegate = b]
  /\ UNCHANGED mints

SetCloseAuthority(a, b) ==
  /\ MayClose(a)
  /\ accounts[a].state = "initialized"
  /\ accounts' = [accounts EXCEPT ![a].closeAuthority = b]
  /\ UNCHANGED mints

SetOwner(a, o) ==
  /\ HeldByWallet(a)
  /\ accounts[a].state = "initialized"
  /\ accounts' = [accounts EXCEPT ![a].owner = o, ![a].delegate = FALSE]
  /\ UNCHANGED mints

CloseAccount(a) ==
  /\ MayClose(a)
  /\ accounts[a].state # "closed"
  /\ accounts[a].amount = 0
  /\ accounts' = [accounts EXCEPT ![a] = ClosedAccount]
  /\ UNCHANGED mints

\* Anybody may create an account: at an associated address only for its own
\* wallet and mint, at a keypair address for any.
CreateAccount(a, o, m) ==
  /\ accounts[a].state = "closed"
  /\ mints[m].initialized
  /\ a \in AtaAddrs => a = Ata(o, m)
  /\ accounts' = [accounts EXCEPT ![a] = EmptyAccount(o, m)]
  /\ UNCHANGED mints

SetFrozen(a, from, to) ==
  /\ accounts[a].state = from
  /\ mints[accounts[a].mint].freezeAuthority
  /\ accounts' = [accounts EXCEPT ![a].state = to]
  /\ UNCHANGED mints

Freeze(a) == SetFrozen(a, "initialized", "frozen")
Thaw(a) == SetFrozen(a, "frozen", "initialized")

InitializeMint(m, mintAuth, freezeAuth, d) ==
  /\ ~mints[m].initialized
  /\ mints' = [mints EXCEPT ![m] =
       [initialized |-> TRUE, mintAuthority |-> mintAuth,
        freezeAuthority |-> freezeAuth, decimals |-> d, supply |-> 0]]
  /\ UNCHANGED accounts

GiveUpMintAuthority(m) ==
  /\ mints[m].mintAuthority
  /\ mints' = [mints EXCEPT ![m].mintAuthority = FALSE]
  /\ UNCHANGED accounts

GiveUpFreezeAuthority(m) ==
  /\ mints[m].freezeAuthority
  /\ mints' = [mints EXCEPT ![m].freezeAuthority = FALSE]
  /\ UNCHANGED accounts

BalanceStep ==
  \E from \in TokenAddr, n \in Amounts \ {0} :
    \/ \E to \in TokenAddr : TransferTokens(from, to, n)
    \/ \E m \in Mints : BurnTokens(from, m, n)
    \/ \E m \in Mints : MintTokens(m, from, n)

ControlStep ==
  \E a \in Adjustable :
    \/ \E b \in BOOLEAN : SetDelegate(a, b) \/ SetCloseAuthority(a, b)
    \/ \E o \in Owners : SetOwner(a, o)
    \/ \E o \in Owners, m \in Mints : CreateAccount(a, o, m)
    \/ CloseAccount(a)
    \/ Freeze(a)
    \/ Thaw(a)

MintStep ==
  \E m \in Mints :
    \/ \E ma, fa \in BOOLEAN, d \in Decimals : InitializeMint(m, ma, fa, d)
    \/ GiveUpMintAuthority(m)
    \/ GiveUpFreezeAuthority(m)

TokenStep == BalanceStep \/ ControlStep \/ MintStep

=============================================================================
