--------------------------- MODULE MigratorChecks ---------------------------
(***************************************************************************)
(* The validators of the migrator program (state.rs, instructions/mod.rs)  *)
(* as predicates on the records of TokenProgram: TRUE where the code       *)
(* returns Ok.  A definition named Bug... is a plausible mistake in the    *)
(* validator that follows it; no specification uses one.                   *)
(***************************************************************************)
EXTENDS TokenProgram

BugMintAuthorityIgnored(m) ==
  /\ m # NativeMint
  /\ mints[m].initialized
  /\ ~mints[m].freezeAuthority

BugFreezeAuthorityIgnored(m) ==
  /\ m # NativeMint
  /\ mints[m].initialized
  /\ ~mints[m].mintAuthority

\* A mint that can neither grow nor freeze anybody.
StrictMint(m) ==
  /\ m # NativeMint
  /\ ~mints[m].mintAuthority
  /\ mints[m].initialized
  /\ ~mints[m].freezeAuthority

TokenAccountOK(acct, m, o) ==
  /\ acct.mint = m
  /\ acct.owner = o
  /\ acct.state = "initialized"
  /\ acct.mint # NativeMint

BugCloseAuthorityIgnored(acct, m, o) ==
  /\ TokenAccountOK(acct, m, o)
  /\ ~acct.delegate

\* An account that only its owner controls.
CustodyOK(acct, m, o) ==
  /\ TokenAccountOK(acct, m, o)
  /\ ~acct.delegate
  /\ ~acct.closeAuthority

BugAnyOwner(a, o, m) ==
  \E w \in Owners : CustodyOK(accounts[a], m, w) /\ a = Ata(w, m)

DestinationOK(a, o, m) ==
  /\ CustodyOK(accounts[a], m, o)
  /\ a = Ata(o, m)

WindowOK(startTs, endTs) == startTs <= endTs

BugGateWithoutEnd(paused, startTs, endTs, t) == ~paused /\ startTs <= t

\* Both ends of the window are inside it.
MigrationGate(paused, startTs, endTs, t) ==
  ~paused /\ startTs <= t /\ t <= endTs

BugGateAtEnd(endTs, t) == t >= endTs

WithdrawalGate(endTs, t) == t > endTs

BugCapPerCall(current, amount, cap) == current <= cap /\ amount <= cap

CapAllows(current, amount, cap) ==
  /\ current <= cap
  /\ amount <= cap - current

CheckedTotal(current, amount) == current + amount <= U64Max

=============================================================================
