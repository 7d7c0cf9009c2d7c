---------------------------- MODULE ReserveEscrow ----------------------------
(***************************************************************************)
(* What the migrator promises about its reserve, without accounts, mints   *)
(* or signers: an escrow is funded once with its cap, anybody may add to   *)
(* it, claims draw on it while it has not expired, and one settlement      *)
(* after expiry empties it.  The promise of the repository's program spec  *)
(* is Solvent: whoever may still claim is covered.                         *)
(***************************************************************************)
EXTENDS Integers

CONSTANT MaxUnits   \* the largest amount
ASSUME UnitsAssumption == MaxUnits \in Nat

Units == 0 .. MaxUnits

VARIABLES phase,    \* "absent", "open" or "settled"
          cap,      \* what may be claimed in all
          claimed,  \* what has been claimed
          reserve,  \* what the escrow holds
          expired   \* no claims any more

escrowVars == <<phase, cap, claimed, reserve, expired>>

EscrowTypeOK ==
  /\ phase \in {"absent", "open", "settled"}
  /\ cap \in Units /\ claimed \in Units /\ reserve \in Units
  /\ expired \in BOOLEAN

EscrowInit ==
  /\ phase = "absent"
  /\ cap = 0 /\ claimed = 0 /\ reserve = 0
  /\ expired = FALSE

Fund(c) ==
  /\ phase = "absent"
  /\ phase' = "open"
  /\ cap' = c /\ reserve' = c /\ claimed' = 0
  /\ expired' \in BOOLEAN

Donate(n) ==
  /\ phase # "absent"
  /\ reserve + n \in Units
  /\ reserve' = reserve + n
  /\ UNCHANGED <<phase, cap, claimed, expired>>

BugClaim(n) ==
  /\ ~expired
  /\ n <= reserve
  /\ claimed + n \in Units
  /\ claimed' = claimed + n
  /\ reserve' = reserve - n
  /\ UNCHANGED <<phase, cap, expired>>

Claim(n) ==
  /\ phase = "open"
  /\ ~expired
  /\ claimed + n <= cap
  /\ claimed' = claimed + n
  /\ reserve' = reserve - n
  /\ UNCHANGED <<phase, cap, expired>>

Expire ==
  /\ phase # "absent"
  /\ ~expired
  /\ expired' = TRUE
  /\ UNCHANGED <<phase, cap, claimed, reserve>>

Settle ==
  /\ phase = "open"
  /\ expired
  /\ reserve > 0
  /\ phase' = "settled"
  /\ reserve' = 0
  /\ UNCHANGED <<cap, claimed, expired>>

EscrowNext ==
  \/ \E n \in Units \ {0} : Fund(n) \/ Donate(n) \/ Claim(n)
  \/ Expire
  \/ Settle

EscrowSpec == EscrowInit /\ [][EscrowNext]_escrowVars

\* While claims are possible, the reserve covers every unit not yet claimed;
\* settlement comes after expiry only.
Solvent ==
  /\ phase = "open" => reserve >= cap - claimed
  /\ claimed <= cap
  /\ phase = "settled" => expired

==============================================================================
