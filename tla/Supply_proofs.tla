---------------------------- MODULE Supply_proofs ----------------------------
(***************************************************************************)
(* What the accounts hold of a mint never exceeds its supply, and hence    *)
(* the two calls of a checked claim and the transfer of a due closeout     *)
(* succeed, for every value of the constants.                              *)
(*                                                                         *)
(* Held is a fold over the accounts of a mint.  An induction over finite   *)
(* sets is replaced by a smallest counterexample: a sum is a function mu   *)
(* on the subsets of a finite set from which any member may be taken out.  *)
(***************************************************************************)
EXTENDS Migrator_proofs, FiniteSetTheorems

\* What the token program guarantees by itself: no account holds more than its
\* mint has issued and not burned, all of them taken together, and an account
\* that exists has an owner and a live mint.  A premise of the proofs that
\* payments fit, not a property of the migrator.
HoldingsBacked ==
  /\ \A a \in TokenAddr : WellFormed(a, accounts[a])
  /\ \A m \in Mints : Held(m) <= mints[m].supply

-----------------------------------------------------------------------------
(* Sums over finite sets *)

\* A family of subsets of a finite set has a smallest member.
LEMMA SmallestSubset ==
  ASSUME NEW D, IsFiniteSet(D), NEW Bad \in SUBSET (SUBSET D), Bad # {}
  PROVE  \E S \in Bad : \A T \in Bad : T \subseteq S => T = S
<1>1. IsWellFoundedOn(StrictSubsetOrdering(D), SUBSET D)
  BY FS_StrictSubsetOrderingWellFounded, FS_FiniteSubsetsOfFinite
<1>2. PICK S \in Bad : \A T \in Bad : <<T, S>> \notin StrictSubsetOrdering(D)
  BY <1>1, WFMin, Zenon
<1> QED BY <1>2 DEF StrictSubsetOrdering

\* mu[S] is the sum of w over S, for every subset S of D.
Sums(mu, w, D) ==
  /\ mu \in [SUBSET D -> Nat]
  /\ mu[{}] = 0
  /\ \A S \in SUBSET D : \A x \in S : mu[S] = w[x] + mu[S \ {x}]

LEMMA SumsExist ==
  ASSUME NEW D, IsFiniteSet(D), NEW w \in [D -> Nat]
  PROVE  \E mu : Sums(mu, w, D)
<1> DEFINE Bad == {S \in SUBSET D : ~ \E mu : Sums(mu, w, S)}
<1> SUFFICES Bad = {}
  <2> D \in SUBSET D
    OBVIOUS
  <2> QED OBVIOUS
<1> SUFFICES ASSUME Bad # {} PROVE FALSE
  OBVIOUS
<1> HIDE DEF Bad
<1>0. Bad \in SUBSET (SUBSET D)
  BY DEF Bad
<1>1. PICK S \in Bad : \A T \in Bad : T \subseteq S => T = S
  BY <1>0, SmallestSubset
<1>s. S \in SUBSET D
  BY <1>0
<1>2. PICK x \in S : TRUE
  <2> DEFINE mu == [T \in SUBSET {} |-> 0]
  <2>1. Sums(mu, w, {})
    BY DEF Sums
  <2>2. S # {}
    BY <2>1 DEF Bad
  <2> QED BY <2>2
<1>3. PICK nu : Sums(nu, w, S \ {x})
  <2>1. S \ {x} \in SUBSET D /\ ~(S \subseteq S \ {x})
    BY <1>2, <1>s
  <2> QED BY <2>1, <1>1 DEF Bad
<1> DEFINE mu == [T \in SUBSET S |-> IF x \in T THEN w[x] + nu[T \ {x}] ELSE nu[T]]
<1>4. w[x] \in Nat
  BY <1>s
<1>5. mu \in [SUBSET S -> Nat] /\ mu[{}] = 0
  BY <1>3, <1>4 DEF Sums
<1>6. ASSUME NEW T \in SUBSET S, NEW y \in T
      PROVE  mu[T] = w[y] + mu[T \ {y}]
  <2>1. CASE x \notin T
    BY <1>3, <2>1 DEF Sums
  <2>2. CASE x = y
    BY <1>3, <2>2 DEF Sums
  <2>3. CASE x \in T /\ x # y
    <3>1. nu[T \ {x}] = w[y] + nu[(T \ {x}) \ {y}]
      BY <1>3, <2>3 DEF Sums
    <3>2. (T \ {x}) \ {y} = (T \ {y}) \ {x}
      OBVIOUS
    <3>3. /\ mu[T] = w[x] + nu[T \ {x}]
          /\ mu[T \ {y}] = w[x] + nu[(T \ {y}) \ {x}]
      BY <2>3
    <3>4. w[y] \in Nat /\ nu[(T \ {y}) \ {x}] \in Nat
      BY <1>3, <1>s DEF Sums
    <3>5. nu[T \ {x}] = w[y] + nu[(T \ {y}) \ {x}]
      BY <3>1, <3>2
    <3> HIDE DEF mu
    <3> DEFINE rest == nu[(T \ {y}) \ {x}]
    <3>6. /\ mu[T] = w[x] + (w[y] + rest) /\ mu[T \ {y}] = w[x] + rest
          /\ w[y] \in Nat /\ rest \in Nat
      BY <3>3, <3>4, <3>5
    <3> HIDE DEF rest
    <3> QED BY <1>4, <3>6
  <2> QED BY <2>1, <2>2, <2>3
<1>7. Sums(mu, w, S)
  BY <1>5, <1>6 DEF Sums
<1> QED BY <1>7 DEF Bad

\* Two weights that agree on S have the same sum over S.
LEMMA SumsAgree ==
  ASSUME NEW D, IsFiniteSet(D), NEW v, NEW w, NEW mu, NEW nu,
         Sums(mu, v, D), Sums(nu, w, D),
         NEW S \in SUBSET D, \A x \in S : v[x] = w[x]
  PROVE  mu[S] = nu[S]
<1> DEFINE Bad == {T \in SUBSET S : mu[T] # nu[T]}
<1> SUFFICES ASSUME Bad # {} PROVE FALSE
  OBVIOUS
<1>1. PICK T \in Bad : \A U \in Bad : U \subseteq T => U = T
  <2>1. Bad \in SUBSET (SUBSET D)
    OBVIOUS
  <2> HIDE DEF Bad
  <2> QED BY <2>1, SmallestSubset
<1>2. PICK x \in T : TRUE
  <2>1. mu[{}] = nu[{}]
    BY DEF Sums
  <2> QED BY <2>1
<1>3. mu[T \ {x}] = nu[T \ {x}]
  BY <1>1, <1>2
<1> QED BY <1>1, <1>2, <1>3 DEF Sums

-----------------------------------------------------------------------------
(* What the accounts of a map ac hold of a mint *)

HeldIn(ac, m) ==
  MapThenSumSet(LAMBDA a : ac[a].amount, {a \in TokenAddr : ac[a].mint = m})

\* What an account counts for in that.
Weight(ac, m) ==
  [a \in TokenAddr |-> IF ac[a].mint = m THEN ac[a].amount ELSE 0]

LEMMA HeldIsHeldIn ==
  ASSUME NEW m
  PROVE  Held(m) = HeldIn(accounts, m) /\ Held(m)' = HeldIn(accounts', m)
<1>1. Held(m) = HeldIn(accounts, m)
  BY DEF Held, HeldIn
<1>2. Held(m)' = HeldIn(accounts', m)
  BY DEF Held, HeldIn, MapThenSumSet, MapThenFoldSet
<1> QED BY <1>1, <1>2

LEMMA WeightType ==
  ASSUME NEW ac \in [TokenAddr -> Account], NEW m
  PROVE  Weight(ac, m) \in [TokenAddr -> Nat]
<1>1. Amounts \subseteq Nat
  BY AddressAssumption DEF Amounts
<1>2. \A a \in TokenAddr : ac[a].amount \in Nat
  BY <1>1 DEF Account
<1> QED BY <1>2 DEF Weight

\* The fold is the sum of the weights, in whatever order it goes.
LEMMA HeldIsSum ==
  ASSUME NEW ac \in [TokenAddr -> Account], NEW m,
         NEW mu, Sums(mu, Weight(ac, m), TokenAddr)
  PROVE  HeldIn(ac, m) = mu[TokenAddr]
<1> DEFINE D == {a \in TokenAddr : ac[a].mint = m}
           c(S) == CHOOSE a \in S : TRUE
           Step(f) == [S \in SUBSET D |->
             IF S = {} THEN 0 ELSE ac[c(S)].amount + f[S \ {c(S)}]]
           fold == CHOOSE f : f = Step(f)
           g == [S \in SUBSET D |-> mu[S]]
<1>0. HeldIn(ac, m) = fold[D]
  BY DEF HeldIn, MapThenSumSet, MapThenFoldSet
<1>1. \A S \in SUBSET D : S # {} => c(S) \in S
  OBVIOUS
<1> HIDE DEF c
<1>2. ASSUME NEW S \in SUBSET D, S # {}
      PROVE  mu[S] = ac[c(S)].amount + mu[S \ {c(S)}]
  <2>1. c(S) \in S /\ S \in SUBSET TokenAddr
    BY <1>1, <1>2
  <2>2. Weight(ac, m)[c(S)] = ac[c(S)].amount
    BY <2>1 DEF Weight
  <2> QED BY <2>1, <2>2 DEF Sums
<1>3. g = Step(g)
  <2>1. mu[{}] = 0
    BY DEF Sums
  <2> QED BY <1>2, <2>1
<1>4. fold = Step(fold)
  BY <1>3
<1> HIDE DEF fold
<1>5. fold[D] = mu[D]
  <2> DEFINE Bad == {S \in SUBSET D : fold[S] # mu[S]}
  <2> SUFFICES ASSUME Bad # {} PROVE FALSE
    OBVIOUS
  <2>1. PICK S \in Bad : \A T \in Bad : T \subseteq S => T = S
    <3>1. Bad \in SUBSET (SUBSET TokenAddr)
      OBVIOUS
    <3> HIDE DEF Bad
    <3> QED BY <3>1, LedgerAssumption, SmallestSubset
  <2>2. S # {}
    <3>1. fold[{}] = 0 /\ mu[{}] = 0
      BY <1>4 DEF Sums
    <3> QED BY <3>1
  <2>3. fold[S \ {c(S)}] = mu[S \ {c(S)}]
    BY <1>1, <2>1, <2>2
  <2>4. fold[S] = ac[c(S)].amount + fold[S \ {c(S)}]
    BY <1>4, <2>2
  <2> QED BY <1>2, <2>2, <2>3, <2>4
<1>6. mu[TokenAddr] = mu[D]
  <2> DEFINE Bad == {R \in SUBSET (TokenAddr \ D) : mu[D \cup R] # mu[D]}
  <2> SUFFICES ASSUME Bad # {} PROVE FALSE
    <3>1. TokenAddr \ D \notin Bad /\ D \cup (TokenAddr \ D) = TokenAddr
      OBVIOUS
    <3> QED BY <3>1
  <2>1. PICK R \in Bad : \A T \in Bad : T \subseteq R => T = R
    <3>1. Bad \in SUBSET (SUBSET TokenAddr)
      OBVIOUS
    <3> HIDE DEF Bad
    <3> QED BY <3>1, LedgerAssumption, SmallestSubset
  <2>2. PICK x \in R : TRUE
    <3>1. D \cup {} = D
      OBVIOUS
    <3> QED BY <3>1
  <2>3. mu[D \cup (R \ {x})] = mu[D]
    <3>1. R \ {x} \in SUBSET (TokenAddr \ D) /\ ~(R \subseteq R \ {x})
      BY <2>1, <2>2
    <3>2. R \ {x} \notin Bad
      <4> HIDE DEF Bad
      <4> QED BY <2>1, <3>1
    <3> QED BY <3>1, <3>2
  <2>4. /\ (D \cup R) \ {x} = D \cup (R \ {x})
        /\ D \cup R \in SUBSET TokenAddr
    BY <2>2
  <2>5. Weight(ac, m)[x] = 0
    BY <2>2 DEF Weight
  <2>6. mu[D \cup R] = Weight(ac, m)[x] + mu[(D \cup R) \ {x}]
    BY <2>2, <2>4 DEF Sums
  <2>7. mu[D] \in Nat
    BY DEF Sums
  <2>8. mu[D \cup R] = mu[D]
    <3>1. mu[(D \cup R) \ {x}] = mu[D]
      BY <2>3, <2>4
    <3> HIDE DEF D
    <3> QED BY <2>5, <2>6, <2>7, <3>1
  <2> QED BY <2>1, <2>8
<1> QED BY <1>0, <1>5, <1>6

\* One account, or two, hold no more than all of them.
LEMMA HeldBounds ==
  ASSUME NEW ac \in [TokenAddr -> Account], NEW m
  PROVE  /\ HeldIn(ac, m) \in Nat
         /\ \A a \in TokenAddr :
              ac[a].mint = m => ac[a].amount <= HeldIn(ac, m)
         /\ \A a, b \in TokenAddr :
              a # b /\ ac[a].mint = m /\ ac[b].mint = m =>
                ac[a].amount + ac[b].amount <= HeldIn(ac, m)
<1> DEFINE w == Weight(ac, m)
<1>0. w \in [TokenAddr -> Nat]
  BY WeightType
<1>1. PICK mu : Sums(mu, w, TokenAddr)
  BY <1>0, LedgerAssumption, SumsExist
<1>2. HeldIn(ac, m) = mu[TokenAddr]
  BY <1>1, HeldIsSum
<1>3. \A S \in SUBSET TokenAddr : mu[S] \in Nat
  BY <1>1 DEF Sums
<1>4. ASSUME NEW a \in TokenAddr, ac[a].mint = m
      PROVE  /\ ac[a].amount \in Nat
             /\ mu[TokenAddr] = ac[a].amount + mu[TokenAddr \ {a}]
  <2>1. w[a] = ac[a].amount
    BY <1>4 DEF Weight
  <2> QED BY <1>0, <1>1, <2>1 DEF Sums
<1>5. ASSUME NEW a \in TokenAddr, NEW b \in TokenAddr, a # b, ac[b].mint = m
      PROVE  /\ ac[b].amount \in Nat
             /\ mu[TokenAddr \ {a}] =
                  ac[b].amount + mu[(TokenAddr \ {a}) \ {b}]
  <2>1. w[b] = ac[b].amount
    BY <1>5 DEF Weight
  <2>2. TokenAddr \ {a} \in SUBSET TokenAddr /\ b \in TokenAddr \ {a}
    BY <1>5
  <2> QED BY <1>0, <1>1, <2>1, <2>2 DEF Sums
<1>6. ASSUME NEW a \in TokenAddr, ac[a].mint = m
      PROVE  ac[a].amount <= HeldIn(ac, m)
  <2>1. mu[TokenAddr \ {a}] \in Nat
    BY <1>3
  <2> QED BY <1>2, <1>4, <1>6, <2>1
<1>7. ASSUME NEW a \in TokenAddr, NEW b \in TokenAddr,
             a # b, ac[a].mint = m, ac[b].mint = m
      PROVE  ac[a].amount + ac[b].amount <= HeldIn(ac, m)
  <2>1. mu[(TokenAddr \ {a}) \ {b}] \in Nat
    BY <1>3
  <2> DEFINE rest == mu[(TokenAddr \ {a}) \ {b}]
  <2>2. /\ mu[TokenAddr] = ac[a].amount + (ac[b].amount + rest)
        /\ ac[a].amount \in Nat /\ ac[b].amount \in Nat /\ rest \in Nat
    BY <1>4, <1>5, <1>7, <2>1
  <2> HIDE DEF rest
  <2> QED BY <1>2, <2>2
<1> QED BY <1>2, <1>3, <1>6, <1>7

\* A change of one account changes the sum by what that account counts for.
LEMMA HeldChange ==
  ASSUME NEW ac \in [TokenAddr -> Account], NEW bc \in [TokenAddr -> Account],
         NEW m, NEW a \in TokenAddr,
         \A b \in TokenAddr \ {a} : Weight(ac, m)[b] = Weight(bc, m)[b]
  PROVE  HeldIn(bc, m) = HeldIn(ac, m) - Weight(ac, m)[a] + Weight(bc, m)[a]
<1>0. /\ Weight(ac, m) \in [TokenAddr -> Nat]
      /\ Weight(bc, m) \in [TokenAddr -> Nat]
  BY WeightType
<1>1. PICK mu : Sums(mu, Weight(ac, m), TokenAddr)
  BY <1>0, LedgerAssumption, SumsExist
<1>2. PICK nu : Sums(nu, Weight(bc, m), TokenAddr)
  BY <1>0, LedgerAssumption, SumsExist
<1>3. mu[TokenAddr \ {a}] = nu[TokenAddr \ {a}]
  <2>1. TokenAddr \ {a} \in SUBSET TokenAddr
    OBVIOUS
  <2> QED BY <1>1, <1>2, <2>1, LedgerAssumption, SumsAgree
<1>4. /\ mu[TokenAddr] = Weight(ac, m)[a] + mu[TokenAddr \ {a}]
      /\ nu[TokenAddr] = Weight(bc, m)[a] + nu[TokenAddr \ {a}]
      /\ mu[TokenAddr \ {a}] \in Nat
  BY <1>1, <1>2 DEF Sums
<1>5. HeldIn(ac, m) = mu[TokenAddr] /\ HeldIn(bc, m) = nu[TokenAddr]
  BY <1>1, <1>2, HeldIsSum
<1>6. Weight(ac, m)[a] \in Nat /\ Weight(bc, m)[a] \in Nat
  BY <1>0
<1> QED BY <1>3, <1>4, <1>5, <1>6

\* What keeps every account's weight keeps the sum.
LEMMA HeldSame ==
  ASSUME NEW ac \in [TokenAddr -> Account], NEW bc \in [TokenAddr -> Account],
         NEW m, \A a \in TokenAddr : Weight(ac, m)[a] = Weight(bc, m)[a]
  PROVE  HeldIn(bc, m) = HeldIn(ac, m)
<1>0. /\ Weight(ac, m) \in [TokenAddr -> Nat]
      /\ Weight(bc, m) \in [TokenAddr -> Nat]
  BY WeightType
<1>1. Weight(ac, m) = Weight(bc, m)
  BY <1>0
<1>2. PICK mu : Sums(mu, Weight(ac, m), TokenAddr)
  BY <1>0, LedgerAssumption, SumsExist
<1> QED BY <1>1, <1>2, HeldIsSum

\* Where no account counts, the sum is zero.
LEMMA HeldNothing ==
  ASSUME NEW ac \in [TokenAddr -> Account], NEW m,
         \A a \in TokenAddr : Weight(ac, m)[a] = 0
  PROVE  HeldIn(ac, m) = 0
<1> DEFINE mu == [S \in SUBSET TokenAddr |-> 0]
<1>1. Sums(mu, Weight(ac, m), TokenAddr)
  BY DEF Sums
<1>2. mu[TokenAddr] = 0
  OBVIOUS
<1> HIDE DEF mu
<1> QED BY <1>1, <1>2, HeldIsSum

-----------------------------------------------------------------------------
(* What the token program's instructions do to the sums *)

\* Another amount in one account.
LEMMA HeldAfterAmount ==
  ASSUME NEW ac \in [TokenAddr -> Account], NEW bc \in [TokenAddr -> Account],
         NEW a \in TokenAddr, NEW m,
         \A b \in TokenAddr \ {a} : bc[b] = ac[b],
         bc[a].mint = ac[a].mint
  PROVE  /\ ac[a].mint = m =>
              HeldIn(bc, m) = HeldIn(ac, m) - ac[a].amount + bc[a].amount
         /\ ac[a].mint # m => HeldIn(bc, m) = HeldIn(ac, m)
<1>1. \A b \in TokenAddr \ {a} : Weight(ac, m)[b] = Weight(bc, m)[b]
  BY DEF Weight
<1>2. HeldIn(bc, m) = HeldIn(ac, m) - Weight(ac, m)[a] + Weight(bc, m)[a]
  BY <1>1, HeldChange
<1>3. HeldIn(ac, m) \in Nat
  BY HeldBounds
<1>4. CASE ac[a].mint = m
  <2>1. Weight(ac, m)[a] = ac[a].amount /\ Weight(bc, m)[a] = bc[a].amount
    BY <1>4 DEF Weight
  <2> QED BY <1>2, <1>4, <2>1
<1>5. CASE ac[a].mint # m
  <2>1. Weight(ac, m)[a] = 0 /\ Weight(bc, m)[a] = 0
    BY <1>5 DEF Weight
  <2> QED BY <1>2, <1>3, <1>5, <2>1
<1> QED BY <1>4, <1>5

\* A transfer moves units inside the sum.
LEMMA HeldAfterTransfer ==
  ASSUME NEW ac \in [TokenAddr -> Account],
         NEW from \in TokenAddr, NEW to \in TokenAddr, NEW n \in Amounts,
         TransferOK(ac, from, to, n), NEW m
  PROVE  HeldIn(Transferred(ac, from, to, n), m) = HeldIn(ac, m)
<1>1. CASE from = to
  BY <1>1 DEF Transferred
<1>2. CASE from # to
  <2> DEFINE x == ac[from].amount
             y == ac[to].amount
             bc == [ac EXCEPT ![from].amount = x - n]
             cc == Transferred(ac, from, to, n)
  <2>1. /\ x \in Int /\ y \in Int /\ n \in Int
        /\ x - n \in Amounts /\ y + n \in Amounts
    BY <1>2, AddressAssumption DEF TransferOK, Account, Amounts
  <2>2. bc \in [TokenAddr -> Account] /\ cc \in [TokenAddr -> Account]
    BY <2>1, AmountType, TransferredType
  <2>3. /\ \A b \in TokenAddr \ {from} : bc[b] = ac[b]
        /\ bc[from].mint = ac[from].mint /\ bc[from].amount = x - n
        /\ ac[from].mint = ac[to].mint
    BY <1>2 DEF TransferOK, Account
  <2>4. /\ \A b \in TokenAddr \ {to} : cc[b] = bc[b]
        /\ cc[to].mint = ac[to].mint /\ cc[to].amount = y + n
        /\ bc[to].mint = ac[to].mint /\ bc[to].amount = y
    BY <1>2 DEF Transferred, Account
  <2> HIDE DEF bc, cc
  <2>5. /\ ac[from].mint = m => HeldIn(bc, m) = HeldIn(ac, m) - x + (x - n)
        /\ ac[from].mint # m => HeldIn(bc, m) = HeldIn(ac, m)
    BY <2>2, <2>3, HeldAfterAmount
  <2>6. /\ ac[to].mint = m => HeldIn(cc, m) = HeldIn(bc, m) - y + (y + n)
        /\ ac[to].mint # m => HeldIn(cc, m) = HeldIn(bc, m)
    BY <2>2, <2>4, HeldAfterAmount
  <2>7. HeldIn(ac, m) \in Int
    BY HeldBounds
  <2> HIDE DEF x, y
  <2> QED BY <2>1, <2>3, <2>5, <2>6, <2>7 DEF cc
<1> QED BY <1>1, <1>2

\* A burn takes the same amount out of the sum and out of the supply.
LEMMA HeldAfterBurn ==
  ASSUME NEW ac \in [TokenAddr -> Account], NEW ms \in [Mints -> Mint],
         NEW from \in TokenAddr, NEW k \in Mints, NEW n \in Amounts,
         BurnOK(ac, ms, from, k, n),
         NEW m \in Mints, HeldIn(ac, m) <= ms[m].supply
  PROVE  HeldIn(Burned(ac, from, n), m) <= SupplyBurned(ms, k, n)[m].supply
<1> DEFINE x == ac[from].amount
           sm == ms[m].supply
           bc == Burned(ac, from, n)
<1>1. x \in Int /\ n \in Int /\ sm \in Int
  BY AddressAssumption DEF Account, Mint, Amounts
<1>2. /\ \A b \in TokenAddr \ {from} : bc[b] = ac[b]
      /\ bc[from].mint = k /\ bc[from].amount = x - n
      /\ ac[from].mint = k
      /\ bc \in [TokenAddr -> Account]
  BY BurnedType DEF Burned, BurnOK, Account
<1>3. SupplyBurned(ms, k, n)[m].supply = IF m = k THEN sm - n ELSE sm
  BY DEF SupplyBurned, Mint
<1>4. HeldIn(ac, m) \in Int
  BY HeldBounds
<1> HIDE DEF bc
<1>5. /\ ac[from].mint = m => HeldIn(bc, m) = HeldIn(ac, m) - x + (x - n)
      /\ ac[from].mint # m => HeldIn(bc, m) = HeldIn(ac, m)
  BY <1>2, HeldAfterAmount
<1> HIDE DEF x
<1> QED BY <1>1, <1>2, <1>3, <1>4, <1>5 DEF bc

-----------------------------------------------------------------------------
(* The invariant: every account has an owner and a live mint, and no mint   *)
(* has more in its accounts than its supply.                                *)

\* A map of accounts that differs only in the amounts of initialized ones.
SameShape(ac, bc) ==
  \A a \in TokenAddr :
    \/ bc[a] = ac[a]
    \/ /\ ac[a].state = "initialized" /\ bc[a].state = "initialized"
       /\ bc[a].mint = ac[a].mint /\ bc[a].owner = ac[a].owner
       /\ bc[a].delegate = ac[a].delegate

LEMMA SameShapeFormed ==
  ASSUME NEW ac, NEW bc, SameShape(ac, bc),
         \A a \in TokenAddr : WellFormed(a, ac[a])
  PROVE  \A a \in TokenAddr : WellFormed(a, bc[a])
<1>1. ClosedAccount.state # "initialized"
  BY DEF ClosedAccount
<1> QED BY <1>1 DEF SameShape, WellFormed

LEMMA TransferredShape ==
  ASSUME NEW ac \in [TokenAddr -> Account],
         NEW from \in TokenAddr, NEW to \in TokenAddr, NEW n \in Amounts,
         TransferOK(ac, from, to, n)
  PROVE  SameShape(ac, Transferred(ac, from, to, n))
BY DEF SameShape, Transferred, TransferOK, Account

LEMMA BurnedShape ==
  ASSUME NEW ac \in [TokenAddr -> Account], NEW from \in TokenAddr,
         NEW n \in Amounts, ac[from].state = "initialized"
  PROVE  SameShape(ac, Burned(ac, from, n))
BY DEF SameShape, Burned, Account

\* HoldingsBacked with the sums of HeldIn.
LEMMA BackedBy ==
  /\ HoldingsBacked <=>
       /\ \A a \in TokenAddr : WellFormed(a, accounts[a])
       /\ \A m \in Mints : HeldIn(accounts, m) <= mints[m].supply
  /\ HoldingsBacked' <=>
       /\ \A a \in TokenAddr : WellFormed(a, accounts[a])'
       /\ \A m \in Mints : HeldIn(accounts', m) <= mints'[m].supply
<1>1. HoldingsBacked <=>
        /\ \A a \in TokenAddr : WellFormed(a, accounts[a])
        /\ \A m \in Mints : HeldIn(accounts, m) <= mints[m].supply
  BY HeldIsHeldIn DEF HoldingsBacked
<1>2. HoldingsBacked' <=>
        /\ \A a \in TokenAddr : WellFormed(a, accounts[a])'
        /\ \A m \in Mints : HeldIn(accounts', m) <= mints'[m].supply
  BY HeldIsHeldIn DEF HoldingsBacked
<1> QED BY <1>1, <1>2

\* A mint that exists goes on existing under a changed map of mints.
LEMMA StillFormed ==
  ASSUME NEW ac \in [TokenAddr -> Account], NEW a \in TokenAddr,
         WellFormed(a, ac[a]),
         \A m \in Mints : mints[m].initialized => mints'[m].initialized,
         ac[a] = accounts'[a]
  PROVE  WellFormed(a, accounts[a])'
BY DEF WellFormed

LEMMA TransferBacked ==
  ASSUME TokenTypeOK, TokenTypeOK', HoldingsBacked,
         NEW from \in TokenAddr, NEW to \in TokenAddr, NEW n \in Amounts,
         TransferOK(accounts, from, to, n),
         accounts' = Transferred(accounts, from, to, n),
         mints' = mints
  PROVE  HoldingsBacked'
<1>0. accounts \in [TokenAddr -> Account] /\ accounts' \in [TokenAddr -> Account]
  BY DEF TokenTypeOK
<1>1. \A a \in TokenAddr : WellFormed(a, accounts'[a])
  <2>1. SameShape(accounts, accounts')
    BY <1>0, TransferredShape
  <2>2. \A a \in TokenAddr : WellFormed(a, accounts[a])
    BY BackedBy
  <2> QED BY <2>1, <2>2, SameShapeFormed
<1>2. \A a \in TokenAddr : WellFormed(a, accounts[a])'
  BY <1>0, <1>1, StillFormed
<1>3. \A m \in Mints : HeldIn(accounts', m) = HeldIn(accounts, m)
  BY <1>0, HeldAfterTransfer
<1> QED BY <1>2, <1>3, BackedBy

LEMMA BurnBacked ==
  ASSUME TokenTypeOK, TokenTypeOK', HoldingsBacked,
         NEW from \in TokenAddr, NEW k \in Mints, NEW n \in Amounts,
         BurnOK(accounts, mints, from, k, n),
         accounts' = Burned(accounts, from, n),
         mints' = SupplyBurned(mints, k, n)
  PROVE  HoldingsBacked'
<1>0. /\ accounts \in [TokenAddr -> Account]
      /\ accounts' \in [TokenAddr -> Account]
      /\ mints \in [Mints -> Mint]
  BY DEF TokenTypeOK
<1>1. \A a \in TokenAddr : WellFormed(a, accounts'[a])
  <2>1. SameShape(accounts, accounts')
    BY <1>0, BurnedShape DEF BurnOK
  <2>2. \A a \in TokenAddr : WellFormed(a, accounts[a])
    BY BackedBy
  <2> QED BY <2>1, <2>2, SameShapeFormed
<1>2. \A m \in Mints : mints'[m].initialized = mints[m].initialized
  BY <1>0 DEF SupplyBurned, Mint
<1>3. \A a \in TokenAddr : WellFormed(a, accounts[a])'
  BY <1>0, <1>1, <1>2, StillFormed
<1>4. \A m \in Mints : HeldIn(accounts', m) <= mints'[m].supply
  BY <1>0, BackedBy, HeldAfterBurn
<1> QED BY <1>3, <1>4, BackedBy

LEMMA MintBacked ==
  ASSUME TokenTypeOK, TokenTypeOK', HoldingsBacked,
         NEW k \in Mints, NEW to \in TokenAddr, NEW n \in Amounts,
         MintTokens(k, to, n)
  PROVE  HoldingsBacked'
<1>0. /\ accounts \in [TokenAddr -> Account]
      /\ accounts' \in [TokenAddr -> Account]
      /\ mints \in [Mints -> Mint] /\ mints' \in [Mints -> Mint]
  BY DEF TokenTypeOK
<1>1. /\ accounts[to].state = "initialized" /\ accounts[to].mint = k
      /\ accounts' = [accounts EXCEPT ![to].amount = @ + n]
      /\ mints' = [mints EXCEPT ![k].supply = @ + n]
  BY DEF MintTokens
<1>2. /\ \A a \in TokenAddr \ {to} : accounts'[a] = accounts[a]
      /\ accounts'[to] = [accounts[to] EXCEPT !.amount = accounts[to].amount + n]
      /\ accounts'[to].amount = accounts[to].amount + n
      /\ accounts'[to].mint = k
  BY <1>0, <1>1 DEF Account
<1>3. \A a \in TokenAddr : WellFormed(a, accounts'[a])
  <2>1. SameShape(accounts, accounts')
    BY <1>0, <1>1, <1>2 DEF SameShape, Account
  <2>2. \A a \in TokenAddr : WellFormed(a, accounts[a])
    BY BackedBy
  <2> QED BY <2>1, <2>2, SameShapeFormed
<1>4. \A m \in Mints : mints'[m].initialized = mints[m].initialized
  BY <1>0, <1>1 DEF Mint
<1>5. \A a \in TokenAddr : WellFormed(a, accounts[a])'
  BY <1>0, <1>3, <1>4, StillFormed
<1>6. ASSUME NEW m \in Mints
      PROVE  HeldIn(accounts', m) <= mints'[m].supply
  <2> DEFINE x == accounts[to].amount
             sm == mints[m].supply
  <2>1. x \in Int /\ n \in Int /\ sm \in Int /\ HeldIn(accounts, m) \in Int
    BY <1>0, AddressAssumption, HeldBounds DEF Account, Mint, Amounts
  <2>2. mints'[m].supply = IF m = k THEN sm + n ELSE sm
    BY <1>0, <1>1 DEF Mint
  <2>3. /\ k = m => HeldIn(accounts', m) = HeldIn(accounts, m) - x + (x + n)
        /\ k # m => HeldIn(accounts', m) = HeldIn(accounts, m)
    <3>1. /\ accounts[to].mint = m =>
               HeldIn(accounts', m) =
                 HeldIn(accounts, m) - accounts[to].amount + accounts'[to].amount
          /\ accounts[to].mint # m => HeldIn(accounts', m) = HeldIn(accounts, m)
      <4> DEFINE bc == accounts'
      <4>1. /\ bc \in [TokenAddr -> Account]
            /\ \A b \in TokenAddr \ {to} : bc[b] = accounts[b]
            /\ bc[to].mint = accounts[to].mint
        BY <1>0, <1>1, <1>2
      <4> HIDE DEF bc
      <4>2. /\ accounts[to].mint = m =>
                 HeldIn(bc, m) =
                   HeldIn(accounts, m) - accounts[to].amount + bc[to].amount
            /\ accounts[to].mint # m => HeldIn(bc, m) = HeldIn(accounts, m)
        BY <1>0, <4>1, HeldAfterAmount
      <4> QED BY <4>2 DEF bc
    <3> QED BY <1>1, <1>2, <3>1
  <2>4. HeldIn(accounts, m) <= sm
    BY BackedBy
  <2> HIDE DEF x, sm
  <2> QED BY <2>1, <2>2, <2>3, <2>4
<1> QED BY <1>5, <1>6, BackedBy

\* Controls, creation and closing: the account's amount is zero or stays.
LEMMA ControlBacked ==
  ASSUME TokenTypeOK, TokenTypeOK', HoldingsBacked, ControlStep
  PROVE  HoldingsBacked'
<1> SUFFICES ASSUME NEW a \in Adjustable,
                    \/ \E b \in BOOLEAN : SetDelegate(a, b) \/ SetCloseAuthority(a, b)
                    \/ \E o \in Owners : SetOwner(a, o)
                    \/ \E o \in Owners, m \in Mints : CreateAccount(a, o, m)
                    \/ CloseAccount(a)
                    \/ Freeze(a)
                    \/ Thaw(a)
             PROVE  HoldingsBacked'
  BY DEF ControlStep
<1>0. /\ accounts \in [TokenAddr -> Account]
      /\ accounts' \in [TokenAddr -> Account]
      /\ a \in TokenAddr /\ accounts[a] \in Account
      /\ \A b \in TokenAddr : WellFormed(b, accounts[b])
  BY AddressAssumption, BackedBy DEF TokenTypeOK
<1>1. ASSUME UNCHANGED mints, WellFormed(a, accounts'[a]),
             \A b \in TokenAddr \ {a} : accounts'[b] = accounts[b],
             \/ /\ accounts'[a].mint = accounts[a].mint
                /\ accounts'[a].amount = accounts[a].amount
             \/ accounts[a].amount = 0 /\ accounts'[a].amount = 0
      PROVE  HoldingsBacked'
  <2>1. \A b \in TokenAddr : WellFormed(b, accounts[b])'
    BY <1>0, <1>1, StillFormed
  <2>2. \A m \in Mints, b \in TokenAddr :
          Weight(accounts, m)[b] = Weight(accounts', m)[b]
    BY <1>1 DEF Weight
  <2>3. \A m \in Mints : HeldIn(accounts', m) = HeldIn(accounts, m)
    BY <1>0, <2>2, HeldSame
  <2> QED BY <1>1, <2>1, <2>3, BackedBy
<1>2. ASSUME NEW b \in BOOLEAN, SetDelegate(a, b) \/ SetCloseAuthority(a, b)
      PROVE  HoldingsBacked'
  BY <1>0, <1>1, <1>2, AddressAssumption
     DEF SetDelegate, SetCloseAuthority, HeldByWallet, WellFormed,
         ClosedAccount, Account
<1>3. ASSUME NEW o \in Owners, SetOwner(a, o)
      PROVE  HoldingsBacked'
  <2>1. /\ accounts[a] # ClosedAccount
        /\ \A b \in TokenAddr \ {a} : accounts'[b] = accounts[b]
        /\ mints' = mints
    <3>1. ClosedAccount.state # "initialized"
      BY DEF ClosedAccount
    <3> QED BY <1>0, <1>3, <3>1 DEF SetOwner
  <2>2. /\ accounts'[a].state = accounts[a].state
        /\ accounts'[a].mint = accounts[a].mint
        /\ accounts'[a].amount = accounts[a].amount
        /\ accounts'[a].owner = o /\ ~accounts'[a].delegate
    BY <1>0, <1>3 DEF SetOwner, Account
  <2>3. WellFormed(a, accounts'[a])
    BY <1>0, <2>1, <2>2 DEF WellFormed
  <2> QED BY <1>1, <2>1, <2>2, <2>3
<1>4. ASSUME NEW o \in Owners, NEW m \in Mints, CreateAccount(a, o, m)
      PROVE  HoldingsBacked'
  <2>1. accounts[a] = ClosedAccount
    BY <1>0, <1>4 DEF CreateAccount, WellFormed
  <2>2. accounts'[a] = EmptyAccount(o, m)
    BY <1>0, <1>4 DEF CreateAccount
  <2>3. WellFormed(a, EmptyAccount(o, m))
    <3>1. /\ EmptyAccount(o, m).state = "initialized"
          /\ EmptyAccount(o, m).mint = m /\ EmptyAccount(o, m).owner = o
          /\ ~EmptyAccount(o, m).delegate
      BY DEF EmptyAccount, ClosedAccount
    <3>2. mints[m].initialized /\ (a \in AtaAddrs => m = a[2])
      BY <1>4 DEF CreateAccount, Ata
    <3> QED BY <3>1, <3>2 DEF WellFormed
  <2>4. ClosedAccount.amount = 0 /\ EmptyAccount(o, m).amount = 0
    BY DEF EmptyAccount, ClosedAccount
  <2> QED BY <1>0, <1>1, <1>4, <2>1, <2>2, <2>3, <2>4 DEF CreateAccount
<1>5. CASE CloseAccount(a)
  BY <1>0, <1>1, <1>5 DEF CloseAccount, WellFormed, ClosedAccount
<1>6. CASE Freeze(a) \/ Thaw(a)
  BY <1>0, <1>1, <1>6 DEF Freeze, Thaw, SetFrozen, WellFormed, ClosedAccount,
                          Account
<1> QED BY <1>2, <1>3, <1>4, <1>5, <1>6

\* A mint is initialised once, when no account can be of it yet.
LEMMA MintStepBacked ==
  ASSUME TokenTypeOK, TokenTypeOK', HoldingsBacked, MintStep
  PROVE  HoldingsBacked'
<1>0. /\ accounts \in [TokenAddr -> Account] /\ accounts' = accounts
      /\ mints \in [Mints -> Mint]
      /\ \A b \in TokenAddr : WellFormed(b, accounts[b])
  BY BackedBy DEF TokenTypeOK, MintStep, InitializeMint, GiveUpMintAuthority,
     GiveUpFreezeAuthority
<1>1. \A m \in Mints : mints[m].initialized => mints'[m].initialized
  BY <1>0 DEF MintStep, InitializeMint, GiveUpMintAuthority,
     GiveUpFreezeAuthority, Mint
<1>2. \A a \in TokenAddr : WellFormed(a, accounts[a])'
  BY <1>0, <1>1, StillFormed
<1>3. ASSUME NEW m \in Mints
      PROVE  HeldIn(accounts, m) <= mints'[m].supply
  <2>1. CASE mints'[m].supply = mints[m].supply
    BY <2>1, BackedBy
  <2>2. CASE ~mints[m].initialized /\ mints'[m].supply = 0
    <3>1. \A a \in TokenAddr : Weight(accounts, m)[a] = 0
      <4> SUFFICES ASSUME NEW a \in TokenAddr, accounts[a].mint = m
                   PROVE  FALSE
        BY DEF Weight
      <4>1. accounts[a] # ClosedAccount
        BY AddressAssumption DEF ClosedAccount
      <4> QED BY <1>0, <2>2, <4>1 DEF WellFormed
    <3>2. HeldIn(accounts, m) = 0
      BY <1>0, <3>1, HeldNothing
    <3> QED BY <2>2, <3>2
  <2> QED BY <1>0, <2>1, <2>2 DEF MintStep, InitializeMint,
    GiveUpMintAuthority, GiveUpFreezeAuthority, Mint
<1> QED BY <1>0, <1>2, <1>3, BackedBy

LEMMA InitializeConfigBacked ==
  ASSUME TypeOK, TypeOK', HoldingsBacked,
         NEW initializer \in Wallets, NEW funder \in Wallets,
         NEW opsAdmin \in Admins, NEW from \in TokenAddr,
         NEW vault \in TokenAddr, NEW src \in Mints, NEW dst \in Mints,
         NEW w \in Windows, NEW cap \in Amounts,
         InitializeConfig(initializer, opsAdmin, funder, from, vault, src, dst,
                          w[1], w[2], cap)
  PROVE  HoldingsBacked'
BY TransferBacked DEF InitializeConfig, TypeOK

\* The burn and the payout of a claim, one after the other.
LEMMA MigrateExactBacked ==
  ASSUME TypeOK, TypeOK', HoldingsBacked, NEW user \in Wallets,
         NEW vault \in TokenAddr, NEW from \in TokenAddr,
         NEW to \in TokenAddr, NEW n \in Amounts,
         MigrateExact(user, vault, from, to, n)
  PROVE  HoldingsBacked'
<1> DEFINE src == config.source_mint
           bc == Burned(accounts, from, n)
<1>0. /\ accounts \in [TokenAddr -> Account]
      /\ accounts' \in [TokenAddr -> Account]
      /\ mints \in [Mints -> Mint]
      /\ src \in Mints
  BY ConfigCreated DEF TypeOK, TokenTypeOK, MigrateExact, MigrateChecks,
                       MigrationConfig
<1>1. /\ BurnOK(accounts, mints, from, src, n)
      /\ TransferOK(bc, vault, to, n)
      /\ accounts' = Transferred(bc, vault, to, n)
      /\ mints' = SupplyBurned(mints, src, n)
  BY DEF MigrateExact, MigrateCallsOK
<1>2. bc \in [TokenAddr -> Account]
  BY <1>0, <1>1, BurnedType
<1> HIDE DEF bc, src
<1>3. SameShape(accounts, bc) /\ SameShape(bc, accounts')
  BY <1>0, <1>1, <1>2, BurnedShape, TransferredShape DEF BurnOK, bc
<1>4. \A a \in TokenAddr : WellFormed(a, accounts[a])
  BY BackedBy
<1>5. \A a \in TokenAddr : WellFormed(a, bc[a])
  BY <1>3, <1>4, SameShapeFormed
<1>6. \A a \in TokenAddr : WellFormed(a, accounts'[a])
  BY <1>3, <1>5, SameShapeFormed
<1>7. \A m \in Mints : mints'[m].initialized = mints[m].initialized
  BY <1>0, <1>1 DEF SupplyBurned, Mint
<1>8. \A a \in TokenAddr : WellFormed(a, accounts[a])'
  BY <1>0, <1>6, <1>7, StillFormed
<1>9. ASSUME NEW m \in Mints
      PROVE  HeldIn(accounts', m) <= mints'[m].supply
  <2>1. HeldIn(accounts, m) <= mints[m].supply
    BY BackedBy
  <2>2. HeldIn(bc, m) <= SupplyBurned(mints, src, n)[m].supply
    BY <1>0, <1>1, <2>1, HeldAfterBurn DEF bc
  <2>3. HeldIn(accounts', m) = HeldIn(bc, m)
    BY <1>1, <1>2, HeldAfterTransfer
  <2> QED BY <1>1, <2>2, <2>3
<1> QED BY <1>8, <1>9, BackedBy

LEMMA WithdrawUnclaimedBacked ==
  ASSUME TypeOK, TypeOK', HoldingsBacked,
         NEW vault \in TokenAddr, NEW to \in TokenAddr,
         WithdrawUnclaimed(vault, to)
  PROVE  HoldingsBacked'
<1>1. CloseoutAmount(vault) \in Amounts
  BY DEF CloseoutAmount, TypeOK, TokenTypeOK, Account
<1> QED BY <1>1, TransferBacked
  DEF WithdrawUnclaimed, WithdrawCallsOK, TypeOK

LEMMA NextBacked ==
  ASSUME TypeOK, HoldingsBacked, [Next]_vars
  PROVE  HoldingsBacked'
<1>0. TypeOK' /\ TokenTypeOK /\ TokenTypeOK'
  BY NextType DEF TypeOK
<1>1. CASE UNCHANGED <<accounts, mints>>
  <2>1. \A a \in TokenAddr : WellFormed(a, accounts[a])'
    BY <1>1, BackedBy DEF WellFormed
  <2> QED BY <1>1, <2>1, BackedBy
<1>2. ASSUME NEW admin \in Wallets, NEW b \in BOOLEAN, SetPause(admin, b)
      PROVE  HoldingsBacked'
  BY <1>1, <1>2 DEF SetPause
<1>3. CASE Instruction
  BY <1>0, <1>2, <1>3, InitializeConfigBacked, MigrateExactBacked,
     WithdrawUnclaimedBacked DEF Instruction
<1>4. CASE BalanceStep
  BY <1>0, <1>4, TransferBacked, BurnBacked, MintBacked
     DEF BalanceStep, TransferTokens, BurnTokens
<1>5. CASE TokenWorld
  BY <1>0, <1>4, <1>5, ControlBacked, MintStepBacked DEF TokenWorld, TokenStep
<1> QED BY <1>1, <1>3, <1>5
  DEF Next, Tick, SetUpgradeAuthority, vars

\* The token program conserves units: no account can receive more than its
\* mint's supply.  It says nothing of the migrator; the two theorems on payments
\* that fit rest on it.
LEMMA UnitsConserved == Spec => []HoldingsBacked
<1>1. Init => HoldingsBacked
  BY DEF Init, TokenInit, HoldingsBacked
<1>2. TypeOK /\ HoldingsBacked /\ [Next]_vars => HoldingsBacked'
  BY NextBacked
<1> QED BY <1>1, <1>2, TypeCorrect, PTL DEF Spec

-----------------------------------------------------------------------------
(* What is left of it for a claim and for the closeout *)

\* Two accounts of one mint never overflow when put together.
LEMMA NoOverflow ==
  ASSUME TypeOK, HoldingsBacked, NEW m \in Mints,
         NEW a \in TokenAddr, NEW b \in TokenAddr, a # b,
         accounts[a].mint = m, accounts[b].mint = m
  PROVE  accounts[a].amount + accounts[b].amount <= U64Max
<1>0. accounts \in [TokenAddr -> Account] /\ mints \in [Mints -> Mint]
  BY DEF TypeOK, TokenTypeOK
<1>1. /\ accounts[a].amount \in Int /\ accounts[b].amount \in Int
      /\ mints[m].supply \in Int /\ mints[m].supply <= U64Max /\ U64Max \in Int
  BY <1>0, AddressAssumption DEF Account, Mint, Amounts
<1>2. accounts[a].amount + accounts[b].amount <= HeldIn(accounts, m)
  BY <1>0, HeldBounds
<1>3. HeldIn(accounts, m) <= mints[m].supply /\ HeldIn(accounts, m) \in Int
  BY <1>0, BackedBy, HeldBounds
<1> QED BY <1>1, <1>2, <1>3

\* After its checks no call of a claim fails, provided the holder has the units.
LEMMA ClaimCalls ==
  ASSUME IInv, HoldingsBacked, NEW user \in Wallets, NEW vault \in TokenAddr,
         NEW from \in TokenAddr, NEW to \in TokenAddr, NEW n \in Amounts,
         MigrateChecks(user, vault, from, to, n), accounts[from].amount >= n
  PROVE  MigrateCallsOK(vault, from, to, n)
<1> DEFINE src == config.source_mint
           dst == config.destination_mint
           bc == Burned(accounts, from, n)
<1>0. /\ TypeOK /\ HoldingsBacked
      /\ config.created /\ config \in MigrationConfig
      /\ src \in Mints /\ dst \in Mints /\ src # dst
  BY ConfigCreated
     DEF IInv, MigrateChecks, MigrationConfig, PairAndVaultSound, PairSound
<1>1. accounts \in [TokenAddr -> Account] /\ mints \in [Mints -> Mint]
  BY <1>0 DEF TypeOK, TokenTypeOK
<1>2. /\ accounts[from].state = "initialized" /\ accounts[from].mint = src
      /\ accounts[from].owner = user
  BY DEF MigrateChecks, TokenAccountOK
<1>3. /\ accounts[vault].state = "initialized" /\ accounts[vault].mint = dst
      /\ accounts[vault].amount >= n
      /\ accounts[to].state = "initialized" /\ accounts[to].mint = dst
      /\ accounts[vault].owner = VaultAuthority /\ accounts[to].owner = user
  BY DEF MigrateChecks, ReserveOK, DestinationOK, CustodyOK, TokenAccountOK
<1>4. from # vault /\ from # to /\ to # vault
  BY <1>0, <1>2, <1>3, AddressAssumption
<1>5. mints[src].supply >= n
  <2>1. /\ accounts[from].amount <= HeldIn(accounts, src)
        /\ HeldIn(accounts, src) <= mints[src].supply
        /\ HeldIn(accounts, src) \in Int
    BY <1>0, <1>1, <1>2, HeldBounds, BackedBy
  <2>2. /\ n \in Int /\ accounts[from].amount \in Int
        /\ mints[src].supply \in Int
    BY <1>0, <1>1, AddressAssumption DEF Account, Mint, Amounts
  <2> QED BY <2>1, <2>2
<1>6. BurnOK(accounts, mints, from, src, n)
  BY <1>2, <1>5 DEF BurnOK
<1>7. bc[vault] = accounts[vault] /\ bc[to] = accounts[to]
  BY <1>0, <1>1, <1>4 DEF Burned
<1>8. accounts[to].amount + n <= U64Max
  <2>1. accounts[to].amount + accounts[vault].amount <= U64Max
    BY <1>0, <1>3, <1>4, NoOverflow
  <2>2. /\ n \in Int /\ accounts[to].amount \in Int
        /\ accounts[vault].amount \in Int /\ U64Max \in Int
    BY <1>0, <1>1, AddressAssumption DEF Account, Amounts
  <2> QED BY <1>3, <2>1, <2>2
<1> HIDE DEF bc
<1>9. TransferOK(bc, vault, to, n)
  BY <1>3, <1>7, <1>8 DEF TransferOK
<1> QED BY <1>6, <1>9 DEF MigrateCallsOK, bc

\* Nor does the closeout's one call.
LEMMA CloseoutCalls ==
  ASSUME IInv, HoldingsBacked, NEW vault \in TokenAddr, NEW to \in TokenAddr,
         WithdrawChecks(vault, to)
  PROVE  WithdrawCallsOK(vault, to)
<1> DEFINE dst == config.destination_mint
<1>0. /\ TypeOK /\ HoldingsBacked /\ config \in MigrationConfig /\ dst \in Mints
      /\ config.refund_recipient \in Wallets
  BY ConfigCreated DEF IInv, WithdrawChecks, MigrationConfig
<1>1. accounts \in [TokenAddr -> Account]
  BY <1>0 DEF TypeOK, TokenTypeOK
<1>2. /\ accounts[vault].state = "initialized" /\ accounts[vault].mint = dst
      /\ accounts[vault].owner = VaultAuthority
      /\ accounts[to].state = "initialized" /\ accounts[to].mint = dst
      /\ accounts[to].owner = config.refund_recipient
  BY DEF WithdrawChecks, ReserveOK, DestinationOK, CustodyOK, TokenAccountOK
<1>3. accounts[vault].amount \in Int
  BY <1>1, AddressAssumption DEF Account, Amounts
<1>4. vault # to
  BY <1>0, <1>2, AddressAssumption
<1>5. accounts[to].amount + accounts[vault].amount <= U64Max
  BY <1>0, <1>2, <1>4, NoOverflow
<1> QED BY <1>2, <1>3, <1>5 DEF WithdrawCallsOK, CloseoutAmount, TransferOK

\* After its checks a claim is never rolled back: the burn finds the units in
\* the account and in the supply, and the payout cannot overflow the
\* destination, because reserve and destination together hold no more than the
\* supply (migrate_exact.rs, process).
THEOREM ClaimsGoThrough == Spec => []ClaimsPayable
<1>1. ASSUME IInv, HoldingsBacked
      PROVE  \A user \in Wallets, from, to \in TokenAddr, n \in Amounts :
               /\ MigrateChecks(user, config.reserve_vault, from, to, n)
               /\ Claimable(user, from, n)
               => MigrateCallsOK(config.reserve_vault, from, to, n)
  <2> SUFFICES ASSUME NEW user \in Wallets, NEW from \in TokenAddr,
                      NEW to \in TokenAddr, NEW n \in Amounts,
                      MigrateChecks(user, config.reserve_vault, from, to, n),
                      Claimable(user, from, n)
               PROVE  MigrateCallsOK(config.reserve_vault, from, to, n)
    OBVIOUS
  <2>1. config.reserve_vault \in TokenAddr
    BY <1>1, ConfigCreated DEF IInv, MigrateChecks, MigrationConfig
  <2>2. accounts[from].amount >= n
    BY <1>1, AddressAssumption
       DEF IInv, TypeOK, TokenTypeOK, Claimable, Account, Amounts
  <2> QED BY <1>1, <2>1, <2>2, ClaimCalls
<1>2. IInv /\ HoldingsBacked /\ ClaimsPassChecks => ClaimsPayable
  BY <1>1 DEF ClaimsPayable
<1> QED BY <1>2, Invariance, UnitsConserved, ClaimsAccepted, PTL

\* The first closeout after the deadline never gets stuck: its checks pass and
\* its one transfer, of whatever is in the vault, fits the refund account
\* (withdraw_unclaimed.rs, process).
THEOREM CloseoutGoesThrough == Spec => []CloseoutPayable
<1>1. ASSUME IInv, HoldingsBacked
      PROVE  CloseoutPayable
  <2> SUFFICES ASSUME NEW to \in TokenAddr, CloseoutDue(to),
                      ~config.unclaimed_withdrawn
               PROVE  /\ WithdrawChecks(config.reserve_vault, to)
                      /\ WithdrawCallsOK(config.reserve_vault, to)
    BY DEF CloseoutPayable
  <2> DEFINE vault == config.reserve_vault
             dst == config.destination_mint
             o == config.refund_recipient
  <2>0. /\ TypeOK /\ config.created /\ config \in MigrationConfig
        /\ vault \in TokenAddr /\ PairSound /\ VaultSound
    BY <1>1, ConfigCreated
       DEF IInv, CloseoutDue, MigrationConfig, PairAndVaultSound
  <2>1. accounts[vault].amount \in Int /\ accounts[vault].amount > 0
    BY <2>0, AddressAssumption
       DEF TypeOK, TokenTypeOK, Vault, CloseoutDue, Account, Amounts
  <2>2. /\ StrictMint(dst) /\ ReserveOK(vault)
        /\ DestinationOK(to, o, dst)
    BY <2>0 DEF PairSound, VaultSound, Strict, StrictMint, Vault, Untouchable,
       ReserveOK, DestinationOK, CustodyOK, TokenAccountOK, CloseoutDue,
       CleanAta
  <2>3. WithdrawChecks(vault, to)
    BY <2>0, <2>1, <2>2 DEF WithdrawChecks, WithdrawalGate, NotWithdrawn,
       VaultPinned, CloseoutAmount, CloseoutDue, Expired
  <2> QED BY <1>1, <2>0, <2>3, CloseoutCalls
<1>2. IInv /\ HoldingsBacked => CloseoutPayable
  BY <1>1
<1> QED BY <1>2, Invariance, UnitsConserved, PTL

==============================================================================
