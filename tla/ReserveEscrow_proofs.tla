------------------------- MODULE ReserveEscrow_proofs -------------------------
(***************************************************************************)
(* The abstract escrow keeps its promise for every largest amount.         *)
(***************************************************************************)
EXTENDS ReserveEscrow, TLAPS

EscrowInv == EscrowTypeOK /\ Solvent

\* The promise holds at the start and survives every step: a claim takes the
\* same from what is held and from what may still be claimed.
LEMMA EscrowInvInit == EscrowInit => EscrowInv
  <1> SUFFICES ASSUME EscrowInit PROVE EscrowInv
    OBVIOUS
  <1>1. expired \in BOOLEAN
    BY DEF EscrowInit
  <1>2. 0 \in Units
    BY UnitsAssumption DEF Units
  <1> QED
    BY <1>1, <1>2 DEF EscrowInit, EscrowInv, EscrowTypeOK, Solvent

LEMMA EscrowInvStep == EscrowInv /\ [EscrowNext]_escrowVars => EscrowInv'
  <1> SUFFICES ASSUME EscrowInv, [EscrowNext]_escrowVars
               PROVE  EscrowInv'
    OBVIOUS
  <1> USE UnitsAssumption DEF EscrowInv, EscrowTypeOK, Solvent, Units
  <1>1. ASSUME NEW n \in Units \ {0}, Fund(n) PROVE EscrowInv'
    BY <1>1 DEF Fund
  <1>2. ASSUME NEW n \in Units \ {0}, Donate(n) PROVE EscrowInv'
    BY <1>2 DEF Donate
  <1>3. ASSUME NEW n \in Units \ {0}, Claim(n) PROVE EscrowInv'
    BY <1>3 DEF Claim
  <1>4. CASE Expire
    BY <1>4 DEF Expire
  <1>5. CASE Settle
    BY <1>5 DEF Settle
  <1>6. CASE UNCHANGED escrowVars
    BY <1>6 DEF escrowVars
  <1> QED
    BY <1>1, <1>2, <1>3, <1>4, <1>5, <1>6 DEF EscrowNext

\* Outstanding claims are covered as long as the escrow is open, claims never
\* exceed the cap, and settlement comes after expiry.
THEOREM EscrowSolvent == EscrowSpec => []Solvent
  <1>1. EscrowInv => Solvent
    BY DEF EscrowInv
  <1> QED
    BY EscrowInvInit, EscrowInvStep, <1>1, PTL DEF EscrowSpec

==============================================================================
