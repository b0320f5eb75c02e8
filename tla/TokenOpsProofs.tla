--------------------------- MODULE TokenOpsProofs ---------------------------
(***************************************************************************)
(* What the proofs about every contract that moves tokens rest on: the     *)
(* checks of SafeMath decide exactly what they are meant to decide, at     *)
(* every width of the machine word; the sum of finitely many balances      *)
(* changes by what one of them changes by; and the operators of TokenOps   *)
(* keep the storage of a Token contract well typed.                        *)
(***************************************************************************)
EXTENDS TokenOps, Functions, FiniteSetTheorems, TLAPS

\* Wrapping is the identity on uints.
LEMMA WrapUint ==
  ASSUME NEW n \in Uint
  PROVE  Wrap(n) = n
BY MaxUintAssumption DEF Wrap, Uint

\* Whatever is wrapped is a uint.
LEMMA WrapType ==
  ASSUME NEW n \in Nat
  PROVE  Wrap(n) \in Uint
BY MaxUintAssumption DEF Wrap, Uint

\* SafeMath.add (SafeMath.sol:5) goes on exactly when the sum fits.
THEOREM AddExact ==
  ASSUME NEW a \in Uint, NEW b \in Uint
  PROVE  AddOK(a, b) <=> a + b \in Uint
<1>1. CASE a + b <= MaxUint
  BY <1>1, MaxUintAssumption DEF AddOK, Wrap, Uint
<1>2. CASE a + b > MaxUint
  <2>1. Wrap(a + b) = a + b - (MaxUint + 1)
    BY <1>2, MaxUintAssumption DEF Wrap, Uint
  <2>2. QED
    BY <1>2, <2>1, MaxUintAssumption DEF AddOK, Uint
<1>3. QED
  BY <1>1, <1>2, MaxUintAssumption DEF Uint

\* SafeMath.mul (SafeMath.sol:17) goes on exactly when the product fits: a
\* product that wrapped is too small to give b back when divided by a.
THEOREM MulExact ==
  ASSUME NEW a \in Uint, NEW b \in Uint
  PROVE  MulOK(a, b) <=> a * b \in Uint
<1> DEFINE p == a * b
           c == Wrap(p)
<1>0. p \in Nat /\ c \in Uint
  BY WrapType, MaxUintAssumption DEF Uint
<1>1. CASE a = 0
  BY <1>1, MaxUintAssumption DEF MulOK, Uint
<1>2. CASE a # 0 /\ p <= MaxUint
  <2>1. c = p
    BY <1>0, <1>2, WrapUint DEF Uint
  <2>2. (a * b) \div a = b
    BY <1>2, MaxUintAssumption DEF Uint
  <2>3. QED
    BY <1>0, <1>2, <2>1, <2>2 DEF MulOK, Uint
<1>3. CASE a # 0 /\ p > MaxUint
  <2>1. c < p
    BY <1>0, <1>3, MaxUintAssumption DEF Uint
  <2>2. a \in Nat \ {0} /\ b \in Nat /\ c \in Nat
    BY <1>0, <1>3, MaxUintAssumption DEF Uint
  <2>3. c \div a # b
    <3>1. a * (c \div a) <= c
      BY <2>2
    <3>2. c < a * b
      BY <2>1
    <3> HIDE DEF c
    <3>3. QED
      BY <3>1, <3>2, <2>2
  <2>4. ~ MulOK(a, b)
    BY <1>3, <2>3, Zenon DEF MulOK
  <2>5. a * b \notin Uint
    BY <1>0, <1>3, MaxUintAssumption DEF Uint
  <2>6. QED
    BY <2>4, <2>5
<1>4. QED
  BY <1>0, <1>1, <1>2, <1>3, MaxUintAssumption DEF Uint

\* A product that SafeMath.mul lets through fits, whether or not the second
\* factor is itself a uint of this width (Manager.sol multiplies by 100).
LEMMA MulFits ==
  ASSUME NEW a \in Uint, NEW b \in Nat, MulOK(a, b)
  PROVE  a * b \in Uint
<1> DEFINE p == a * b
           c == Wrap(p)
<1>1. a \in Nat /\ MaxUint \in Nat
  BY MaxUintAssumption DEF Uint
<1>2. p \in Nat /\ c \in Uint
  BY <1>1, WrapType
<1>3. CASE a = 0
  BY <1>1, <1>3 DEF Uint
<1>4. CASE a # 0
  <2>1. c \div a = b
    BY <1>4 DEF MulOK
  <2>2. a * (c \div a) <= c
    <3> HIDE DEF c
    <3>1. c \in Nat
      BY <1>1, <1>2 DEF Uint
    <3>2. QED
      BY <1>1, <1>4, <3>1
  <2>3. p <= c
    BY <2>1, <2>2
  <2> HIDE DEF p, c
  <2>4. p \in Uint
    BY <1>1, <1>2, <2>3 DEF Uint
  <2>5. QED
    BY <2>4 DEF p
<1>5. QED
  BY <1>3, <1>4

\* Quotient and remainder determine each other.
LEMMA DivUnique ==
  ASSUME NEW m \in Nat \ {0}, NEW q \in Int, NEW r \in 0 .. m - 1
  PROVE  (m * q + r) % m = r
<1> DEFINE n == m * q + r
           d == n \div m
           e == n % m
<1>1. n \in Int /\ d \in Int /\ e \in 0 .. m - 1 /\ n = m * d + e
  OBVIOUS
<1>2. m * q + r = m * d + e
  BY <1>1
<1> HIDE DEF n, d, e
<1>3. m * (q - d) = e - r
  BY <1>1, <1>2
<1>4. q - d = 0
  <2>1. CASE q - d >= 1
    <3>1. m * (q - d) >= m
      BY <1>1, <2>1
    <3>2. QED
      BY <1>1, <1>3, <3>1
  <2>2. CASE q - d <= -1
    <3>1. m * (q - d) <= -m
      BY <1>1, <2>2
    <3>2. QED
      BY <1>1, <1>3, <3>1
  <2>3. QED
    BY <1>1, <2>1, <2>2
<1>5. e = r
  BY <1>1, <1>3, <1>4
<1>6. QED
  BY <1>5 DEF e, n

\* Wrapping a term of a sum before the sum changes nothing.
LEMMA WrapAbsorbs ==
  ASSUME NEW a \in Nat, NEW b \in Nat
  PROVE  Wrap(Wrap(a) + b) = Wrap(a + b)
<1> DEFINE m == MaxUint + 1
           q == a \div m
           s == (a % m) + b
           r == s % m
           p == s \div m
<1>0. m \in Nat \ {0}
  BY MaxUintAssumption
<1> HIDE DEF m
<1>1. a = m * q + (a % m) /\ a % m \in Nat /\ q \in Nat
  BY <1>0
<1>2. s = m * p + r /\ r \in 0 .. m - 1 /\ p \in Nat
  BY <1>0, <1>1
<1> HIDE DEF q, r, p
<1>3. a + b = m * q + m * p + r
  BY <1>0, <1>1, <1>2
<1>4. m * q + m * p = m * (q + p)
  BY <1>0, <1>1, <1>2
<1>5. PICK k \in Int : k = q + p
  BY <1>1, <1>2
<1>6. a + b = m * k + r
  BY <1>3, <1>4, <1>5
<1>7. (m * k + r) % m = r
  BY <1>0, <1>2, DivUnique
<1>8. QED
  BY <1>6, <1>7 DEF r, m, Wrap
-----------------------------------------------------------------------------
\* Induction on the natural numbers, for a set of them.
LEMMA NatSetInduction ==
  ASSUME NEW G, 0 \in G, \A n \in Nat : n \in G => n + 1 \in G
  PROVE  Nat \subseteq G
<1> SUFFICES ASSUME Nat \ G # {} PROVE FALSE
  OBVIOUS
<1>1. IsWellFoundedOn(OpToRel(<, Nat), Nat)
  BY NatLessThanWellFounded
<1>2. \E n \in Nat \ G : \A m \in Nat \ G : <<m, n>> \notin OpToRel(<, Nat)
  BY <1>1, WFMin
<1>3. PICK n \in Nat : /\ n \notin G
                       /\ \A m \in Nat \ G : <<m, n>> \notin OpToRel(<, Nat)
  BY <1>2
<1>4. n # 0
  BY <1>3
<1>5. n - 1 \in Nat /\ n - 1 < n /\ (n - 1) + 1 = n
  BY <1>4
<1>6. <<n - 1, n>> \in OpToRel(<, Nat)
  BY <1>5 DEF OpToRel
<1>7. n - 1 \in G
  BY <1>3, <1>5, <1>6
<1>8. n \in G
  BY <1>5, <1>7
<1>9. QED
  BY <1>3, <1>8

\* Induction on the subsets of a finite set, for a set of them.
LEMMA SubsetInduction ==
  ASSUME NEW S, IsFiniteSet(S), NEW G, {} \in G,
         \A T \in SUBSET S : (\A x \in T : T \ {x} \in G) => T \in G
  PROVE  SUBSET S \subseteq G
<1> DEFINE N == {n \in Nat : \A T \in SUBSET S : Cardinality(T) = n => T \in G}
<1>0. \A T \in SUBSET S : IsFiniteSet(T) /\ Cardinality(T) \in Nat
  BY FS_Subset, FS_CardinalityType
<1>1. 0 \in N
  BY <1>0, FS_EmptySet
<1>2. ASSUME NEW n \in Nat, n \in N PROVE n + 1 \in N
  <2> SUFFICES ASSUME NEW T \in SUBSET S, Cardinality(T) = n + 1
               PROVE  T \in G
    BY <1>2
  <2>1. ASSUME NEW x \in T
        PROVE  T \ {x} \in SUBSET S /\ Cardinality(T \ {x}) = n
    <3>1. IsFiniteSet(T) /\ Cardinality(T) \in Nat
      BY <1>0
    <3>2. Cardinality(T \ {x}) = Cardinality(T) - 1
      BY <3>1, FS_RemoveElement
    <3>3. QED
      BY <3>2
  <2>2. QED
    BY <1>2, <2>1
<1> HIDE DEF N
<1>3. Nat \subseteq N
  BY <1>1, <1>2, NatSetInduction
<1>4. QED
  BY <1>0, <1>3 DEF N

\* One step of the fold that SumFunction is: the recursion, for a set s
SumStep(f, g, s) ==
  IF s = {} THEN 0 ELSE LET x == CHOOSE y \in s : TRUE IN f[x] + g[s \ {x}]

SumsOf(f, g, D) == g = [s \in D |-> SumStep(f, g, s)]

\* The recursion has a solution: one for the sets of at most n elements gives
\* one for those of at most n + 1.
LEMMA SumsExist ==
  ASSUME NEW S, IsFiniteSet(S), NEW f
  PROVE  \E g : SumsOf(f, g, SUBSET S)
<1> DEFINE D(n) == {s \in SUBSET S : Cardinality(s) <= n}
           N == {n \in Nat : \E g : SumsOf(f, g, D(n))}
<1>0. /\ Cardinality(S) \in Nat
      /\ \A s \in SUBSET S : IsFiniteSet(s) /\ Cardinality(s) \in Nat
      /\ \A s \in SUBSET S : Cardinality(s) <= Cardinality(S)
  BY FS_Subset, FS_CardinalityType
<1>1. 0 \in N
  <2> DEFINE g == [s \in D(0) |-> 0]
  <2>1. \A s \in D(0) : s = {}
    BY <1>0, FS_EmptySet
  <2>2. SumsOf(f, g, D(0))
    BY <2>1 DEF SumsOf, SumStep
  <2>3. QED
    BY <2>2
<1>2. ASSUME NEW n \in Nat, n \in N PROVE n + 1 \in N
  <2>1. PICK g : SumsOf(f, g, D(n))
    BY <1>2
  <2> DEFINE h == [s \in D(n + 1) |-> SumStep(f, g, s)]
  <2>2. D(n) \subseteq D(n + 1)
    BY <1>0
  <2>3. ASSUME NEW s \in D(n) PROVE h[s] = g[s]
    BY <2>1, <2>2 DEF SumsOf
  <2>4. ASSUME NEW s \in D(n + 1), s # {}
        PROVE  s \ {CHOOSE y \in s : TRUE} \in D(n)
    <3> DEFINE x == CHOOSE y \in s : TRUE
    <3>1. x \in s
      BY <2>4
    <3> HIDE DEF x
    <3>2. Cardinality(s \ {x}) = Cardinality(s) - 1
      BY <1>0, <3>1, FS_RemoveElement
    <3>3. s \ {x} \in D(n)
      BY <1>0, <3>2
    <3>4. QED
      BY <3>3 DEF x
  <2>5. \A s \in D(n + 1) : SumStep(f, g, s) = SumStep(f, h, s)
    <3> HIDE DEF h, D
    <3>1. QED
      BY <2>3, <2>4 DEF SumStep
  <2>6. SumsOf(f, h, D(n + 1))
    BY <2>5 DEF SumsOf
  <2>7. \E k : SumsOf(f, k, D(n + 1))
    <3> HIDE DEF h, D
    <3>1. QED
      BY <2>6
  <2>8. QED
    BY <2>7
<1>3. Cardinality(S) \in N
  <2> HIDE DEF N
  <2>1. QED
    BY <1>0, <1>1, <1>2, NatSetInduction
<1>4. D(Cardinality(S)) = SUBSET S
  BY <1>0
<1>5. QED
  BY <1>3, <1>4

\* SumFunctionOnSet is the value of that solution.
LEMMA SumIsRecursive ==
  ASSUME NEW S, IsFiniteSet(S), NEW f
  PROVE  \E g : SumsOf(f, g, SUBSET S) /\ SumFunctionOnSet(f, S) = g[S]
<1> DEFINE g == CHOOSE g : g = [s \in SUBSET S |-> SumStep(f, g, s)]
<1>1. \E h : h = [s \in SUBSET S |-> SumStep(f, h, s)]
  <2>1. \E h : SumsOf(f, h, SUBSET S)
    BY SumsExist
  <2>2. QED
    BY <2>1 DEF SumsOf
<1>2. g = [s \in SUBSET S |-> SumStep(f, g, s)]
  BY <1>1
<1>3. SumFunctionOnSet(f, S) = g[S]
  BY DEF SumFunctionOnSet, FoldFunctionOnSet, MapThenFoldSet, SumStep
<1> HIDE DEF g
<1>4. QED
  BY <1>2, <1>3 DEF SumsOf

\* The recursion, one element at a time.
LEMMA SumsUnfold ==
  ASSUME NEW S, NEW f, NEW g, SumsOf(f, g, SUBSET S)
  PROVE  /\ g[{}] = 0
         /\ \A s \in SUBSET S : s # {} =>
              LET x == CHOOSE y \in s : TRUE
              IN  x \in s /\ g[s] = f[x] + g[s \ {x}]
<1>1. \A s \in SUBSET S : g[s] = SumStep(f, g, s)
  BY DEF SumsOf
<1>2. QED
  BY <1>1 DEF SumStep

\* A sum of naturals is a natural; a sum of zeros is zero.
LEMMA SumType ==
  ASSUME NEW S, IsFiniteSet(S), NEW f \in [S -> Nat]
  PROVE  /\ SumFunction(f) \in Nat
         /\ (\A x \in S : f[x] = 0) => SumFunction(f) = 0
<1>1. PICK g : SumsOf(f, g, SUBSET S) /\ SumFunctionOnSet(f, S) = g[S]
  BY SumIsRecursive
<1> DEFINE G == {s \in SUBSET S : /\ g[s] \in Nat
                                  /\ (\A x \in S : f[x] = 0) => g[s] = 0}
<1>2. {} \in G
  BY <1>1, SumsUnfold
<1>3. ASSUME NEW T \in SUBSET S, \A x \in T : T \ {x} \in G
      PROVE  T \in G
  <2>1. CASE T # {}
    <3> DEFINE x == CHOOSE y \in T : TRUE
    <3>1. x \in T /\ g[T] = f[x] + g[T \ {x}]
      BY <1>1, <2>1, SumsUnfold
    <3> HIDE DEF x
    <3>2. QED
      BY <1>3, <3>1
  <2>2. QED
    BY <1>2, <2>1
<1> HIDE DEF G
<1>4. S \in G
  BY <1>2, <1>3, SubsetInduction
<1>5. SumFunction(f) = g[S]
  BY <1>1 DEF SumFunction
<1>6. QED
  BY <1>4, <1>5 DEF G

\* What becomes of a sum when one term changes.
LEMMA SumUpdate ==
  ASSUME NEW S, IsFiniteSet(S), NEW f \in [S -> Nat], NEW a \in S, NEW v \in Nat
  PROVE  SumFunction([f EXCEPT ![a] = v]) = SumFunction(f) - f[a] + v
<1> DEFINE e == [f EXCEPT ![a] = v]
<1>0. e \in [S -> Nat] /\ \A x \in S : e[x] = IF x = a THEN v ELSE f[x]
  OBVIOUS
<1> HIDE DEF e
<1>1. PICK g : SumsOf(f, g, SUBSET S) /\ SumFunctionOnSet(f, S) = g[S]
  BY SumIsRecursive
<1>2. PICK h : SumsOf(e, h, SUBSET S) /\ SumFunctionOnSet(e, S) = h[S]
  BY SumIsRecursive
<1> DEFINE G == {s \in SUBSET S :
                   /\ g[s] \in Nat
                   /\ h[s] = g[s] + (IF a \in s THEN v - f[a] ELSE 0)}
<1>3. {} \in G
  <2>1. g[{}] = 0
    BY <1>1, SumsUnfold
  <2>2. h[{}] = 0
    BY <1>2, SumsUnfold
  <2>3. QED
    BY <2>1, <2>2
<1>4. ASSUME NEW T \in SUBSET S, \A x \in T : T \ {x} \in G
      PROVE  T \in G
  <2>1. CASE T # {}
    <3> DEFINE x == CHOOSE y \in T : TRUE
    <3>1. x \in T /\ g[T] = f[x] + g[T \ {x}]
      BY <1>1, <2>1, SumsUnfold
    <3>2. h[T] = e[x] + h[T \ {x}]
      BY <1>2, <2>1, SumsUnfold
    <3> HIDE DEF x
    <3>3. T \ {x} \in G
      BY <1>4, <3>1
    <3>4. QED
      BY <1>0, <3>1, <3>2, <3>3
  <2>2. QED
    BY <1>3, <2>1
<1> HIDE DEF G
<1>5. S \in G
  BY <1>3, <1>4, SubsetInduction
<1>6. SumFunction(f) = g[S] /\ SumFunction(e) = h[S]
  BY <1>0, <1>1, <1>2 DEF SumFunction
<1>7. h[S] = g[S] + (v - f[a])
  BY <1>5 DEF G
<1>8. g[S] \in Nat
  BY <1>5 DEF G
<1>9. QED
  BY <1>6, <1>7, <1>8 DEF e

LEMMA SumDrop ==
  ASSUME NEW S, IsFiniteSet(S), NEW f \in [S -> Nat], NEW a \in S
  PROVE  SumFunction([f EXCEPT ![a] = 0]) = SumFunction(f) - f[a]
<1>1. \A v \in Nat :
        SumFunction([f EXCEPT ![a] = v]) = SumFunction(f) - f[a] + v
  BY SumUpdate
<1>2. SumFunction([f EXCEPT ![a] = 0]) = SumFunction(f) - f[a] + 0
  BY <1>1
<1>3. SumFunction(f) \in Nat /\ f[a] \in Nat
  BY SumType
<1>4. QED
  BY <1>2, <1>3
-----------------------------------------------------------------------------
\* A new contract is well typed.
LEMMA DeployedType ==
  ASSUME NEW deployer \in Address, NEW supply \in Uint
  PROVE  Deployed(deployer, supply) \in TokenState
BY MaxUintAssumption DEF Deployed, TokenState, Uint

\* A transfer that the `require's of _transfer let through (Token.sol:94)
\* keeps every balance a uint, also when the sender is the receiver.
LEMMA MoveType ==
  ASSUME NEW t \in TokenState, NEW from \in Address, NEW to \in Address,
         NEW value \in Uint, CanMove(t, from, to, value)
  PROVE  Move(t, from, to, value) \in TokenState
<1> DEFINE debited  == Debited(t, from, value)
           credited == [debited EXCEPT ![to] = debited[to] + value]
<1>1. t.balances \in [Address -> Uint] /\ t.balances[from] >= value
  BY DEF TokenState, CanMove
<1>2. debited \in [Address -> Uint]
  BY <1>1, MaxUintAssumption DEF Debited, Uint
<1>3. debited[to] + value \in Uint
  BY <1>2, AddExact DEF CanMove
<1>4. credited \in [Address -> Uint]
  BY <1>2, <1>3
<1>5. [t EXCEPT !.balances = credited] \in TokenState
  BY <1>4 DEF TokenState
<1>6. QED
  BY <1>5, Zenon DEF Move

\* What a transfer does: it takes the value from one balance and adds it to
\* another, does nothing between an account and itself, and leaves everything
\* else alone.
LEMMA MoveEffect ==
  ASSUME NEW t \in TokenState, NEW from \in Address, NEW to \in Address,
         NEW value \in Uint, CanMove(t, from, to, value)
  PROVE  LET m == Move(t, from, to, value)
         IN  /\ m.allowed = t.allowed
             /\ m.totalSupply = t.totalSupply
             /\ m.token_admin = t.token_admin
             /\ from = to => m.balances = t.balances
             /\ from # to => /\ m.balances[from] = t.balances[from] - value
                             /\ m.balances[to]   = t.balances[to] + value
             /\ \A a \in Address \ {from, to} : m.balances[a] = t.balances[a]
<1> DEFINE debited  == Debited(t, from, value)
           credited == [debited EXCEPT ![to] = debited[to] + value]
           m == Move(t, from, to, value)
<1>1. /\ m.allowed = t.allowed
      /\ m.totalSupply = t.totalSupply
      /\ m.token_admin = t.token_admin
      /\ m.balances = credited
  BY DEF Move, TokenState
<1>2. t.balances \in [Address -> Nat] /\ value \in Nat
  BY MaxUintAssumption DEF TokenState, Uint
<1>3. debited \in [Address -> Int]
  BY <1>2 DEF Debited
<1>4. \A a \in Address :
        /\ debited[a]  = IF a = from THEN t.balances[a] - value
                                     ELSE t.balances[a]
        /\ credited[a] = IF a = to THEN debited[a] + value ELSE debited[a]
  BY <1>2, <1>3 DEF Debited
<1>5. credited \in [Address -> Int]
  BY <1>2, <1>3
<1> HIDE DEF debited, credited, m
<1>6. from = to => credited = t.balances
  <2> SUFFICES ASSUME from = to PROVE credited = t.balances
    OBVIOUS
  <2>1. \A a \in Address : credited[a] = t.balances[a]
    BY <1>2, <1>4
  <2>2. QED
    BY <2>1, <1>2, <1>5
<1>7. QED
  BY <1>1, <1>2, <1>4, <1>6 DEF m

\* Spending an allowance keeps it a uint (Token.sol:128).
LEMMA MoveFromType ==
  ASSUME NEW t \in TokenState, NEW spender \in Address, NEW from \in Address,
         NEW to \in Address, NEW value \in Uint,
         CanMoveFrom(t, spender, from, to, value)
  PROVE  MoveFrom(t, spender, from, to, value) \in TokenState
<1> DEFINE m == Move(t, from, to, value)
<1>1. m \in TokenState
  BY MoveType DEF CanMoveFrom
<1>2. m.allowed = t.allowed
  BY DEF Move, TokenState
<1>3. m.allowed[from][spender] - value \in Uint
  BY <1>2, MaxUintAssumption DEF CanMoveFrom, TokenState, Uint
<1> HIDE DEF m
<1>4. [m EXCEPT !.allowed[from][spender] = @ - value] \in TokenState
  BY <1>1, <1>3 DEF TokenState
<1>5. QED
  BY <1>4 DEF MoveFrom, m

\* What spending an allowance does beyond the transfer.
LEMMA MoveFromEffect ==
  ASSUME NEW t \in TokenState, NEW spender \in Address, NEW from \in Address,
         NEW to \in Address, NEW value \in Uint,
         CanMoveFrom(t, spender, from, to, value)
  PROVE  LET m == MoveFrom(t, spender, from, to, value)
         IN  /\ m.balances    = Move(t, from, to, value).balances
             /\ m.totalSupply = t.totalSupply
             /\ m.token_admin = t.token_admin
             /\ m.allowed[from][spender] = t.allowed[from][spender] - value
<1> DEFINE m == Move(t, from, to, value)
<1>1. m \in TokenState
  BY MoveType DEF CanMoveFrom
<1>2. /\ m.allowed = t.allowed
      /\ m.totalSupply = t.totalSupply
      /\ m.token_admin = t.token_admin
  BY MoveEffect DEF CanMoveFrom
<1> HIDE DEF m
<1> DEFINE f == [m EXCEPT !.allowed[from][spender] = @ - value]
<1>3. /\ f.balances = m.balances
      /\ f.totalSupply = m.totalSupply
      /\ f.token_admin = m.token_admin
      /\ f.allowed[from][spender] = m.allowed[from][spender] - value
  BY <1>1 DEF TokenState
<1>4. MoveFrom(t, spender, from, to, value) = f
  BY DEF MoveFrom, m
<1>5. QED
  BY <1>2, <1>3, <1>4 DEF m

\* Setting an allowance keeps the storage well typed.
LEMMA ApproveType ==
  ASSUME NEW t \in TokenState, NEW owner \in Address,
         NEW spender \in Address, NEW value \in Uint
  PROVE  Approve(t, owner, spender, value) \in TokenState
BY DEF Approve, TokenState

\* Minting keeps the balance within a uint by SafeMath's check, and the
\* supply, which has no check, by wrapping around (Token.sol:155-156).
LEMMA MintType ==
  ASSUME NEW t \in TokenState, NEW minter \in Address, NEW to \in Address,
         NEW value \in Uint, CanMint(t, minter, to, value)
  PROVE  Mint(t, to, value) \in TokenState
<1>1. t.balances[to] + value \in Uint
  BY AddExact DEF CanMint, TokenState
<1>2. Wrap(t.totalSupply + value) \in Uint
  BY WrapType, MaxUintAssumption DEF TokenState, Uint
<1>3. QED
  BY <1>1, <1>2 DEF Mint, TokenState

\* Handing the admin's power over keeps the storage well typed.
LEMMA HandOverType ==
  ASSUME NEW t \in TokenState, NEW new_admin \in Address
  PROVE  HandOver(t, new_admin) \in TokenState
BY DEF HandOver, TokenState
-----------------------------------------------------------------------------
\* The sum of the balances of a token is a natural number, and at least that
\* of any two of them.
LEMMA TotalCovers ==
  ASSUME NEW t \in TokenState
  PROVE  /\ SumFunction(t.balances) \in Nat
         /\ \A a \in Address : t.balances[a] <= SumFunction(t.balances)
         /\ \A a, b \in Address :
              a # b => t.balances[a] + t.balances[b] <= SumFunction(t.balances)
<1> DEFINE f == t.balances
<1>1. f \in [Address -> Nat]
  BY MaxUintAssumption DEF TokenState, Uint
<1> HIDE DEF f
<1>2. SumFunction(f) \in Nat
  BY <1>1, SumType, FiniteAssumption
<1>3. ASSUME NEW a \in Address
      PROVE  f[a] <= SumFunction(f)
  <2> DEFINE g == [f EXCEPT ![a] = 0]
  <2>1. g \in [Address -> Nat]
    BY <1>1
  <2>2. SumFunction(g) = SumFunction(f) - f[a]
    BY <1>1, SumDrop, FiniteAssumption
  <2>3. SumFunction(g) \in Nat
    BY <2>1, SumType, FiniteAssumption
  <2> HIDE DEF g
  <2>4. QED
    BY <1>1, <1>2, <2>2, <2>3
<1>4. ASSUME NEW a \in Address, NEW b \in Address, a # b
      PROVE  f[a] + f[b] <= SumFunction(f)
  <2> DEFINE g == [f EXCEPT ![a] = 0]
             h == [g EXCEPT ![b] = 0]
  <2>1. g \in [Address -> Nat] /\ g[b] = f[b]
    BY <1>1, <1>4
  <2>2. SumFunction(g) = SumFunction(f) - f[a]
    BY <1>1, SumDrop, FiniteAssumption
  <2> HIDE DEF g
  <2>3. /\ SumFunction(h) = SumFunction(g) - g[b]
        /\ h \in [Address -> Nat]
    BY <2>1, SumDrop, FiniteAssumption
  <2>4. SumFunction(h) \in Nat
    BY <2>3, SumType, FiniteAssumption
  <2> HIDE DEF h
  <2>5. QED
    BY <1>1, <1>2, <2>1, <2>2, <2>3, <2>4
<1>5. QED
  BY <1>2, <1>3, <1>4 DEF f

\* The constructor gives the whole supply to the deployer.
LEMMA DeployedTotal ==
  ASSUME NEW deployer \in Address, NEW supply \in Uint
  PROVE  SumFunction(Deployed(deployer, supply).balances) = supply
<1> DEFINE z == [a \in Address |-> 0]
           f == [z EXCEPT ![deployer] = supply]
<1>1. z \in [Address -> Nat] /\ supply \in Nat /\ z[deployer] = 0
  BY MaxUintAssumption DEF Uint
<1>2. SumFunction(z) = 0
  BY <1>1, SumType, FiniteAssumption
<1>3. Deployed(deployer, supply).balances = f
  BY DEF Deployed
<1> HIDE DEF z
<1>4. SumFunction(f) = SumFunction(z) - z[deployer] + supply
  BY <1>1, SumUpdate, FiniteAssumption
<1> HIDE DEF f
<1>5. QED
  BY <1>1, <1>2, <1>3, <1>4

\* A transfer creates and destroys nothing.
LEMMA MoveTotal ==
  ASSUME NEW t \in TokenState, NEW from \in Address, NEW to \in Address,
         NEW value \in Uint, CanMove(t, from, to, value)
  PROVE  SumFunction(Move(t, from, to, value).balances)
           = SumFunction(t.balances)
<1> DEFINE f == t.balances
           debited == [f EXCEPT ![from] = f[from] - value]
           credited == [debited EXCEPT ![to] = debited[to] + value]
<1>1. /\ f \in [Address -> Nat] /\ value \in Nat
      /\ f[from] - value \in Nat
  BY MaxUintAssumption DEF TokenState, Uint, CanMove
<1>2. Move(t, from, to, value).balances = credited
  BY DEF Move, Debited, TokenState
<1> HIDE DEF f
<1>3. /\ debited \in [Address -> Nat]
      /\ debited[from] = f[from] - value
      /\ debited[to] + value \in Nat
  BY <1>1
<1>4. SumFunction(debited) = SumFunction(f) - f[from] + (f[from] - value)
  BY <1>1, SumUpdate, FiniteAssumption
<1> HIDE DEF debited
<1>5. SumFunction(credited)
        = SumFunction(debited) - debited[to] + (debited[to] + value)
  BY <1>3, SumUpdate, FiniteAssumption
<1>6. SumFunction(f) \in Nat /\ SumFunction(debited) \in Nat
  BY <1>1, <1>3, SumType, FiniteAssumption
<1>7. f[from] \in Nat /\ debited[to] \in Nat
  BY <1>1, <1>3
<1> HIDE DEF credited
<1>8. SumFunction(credited) = SumFunction(f)
  BY <1>1, <1>4, <1>5, <1>6, <1>7
<1>9. QED
  BY <1>2, <1>8 DEF f

\* Nor does one that spends an allowance.
LEMMA MoveFromTotal ==
  ASSUME NEW t \in TokenState, NEW spender \in Address, NEW from \in Address,
         NEW to \in Address, NEW value \in Uint,
         CanMoveFrom(t, spender, from, to, value)
  PROVE  SumFunction(MoveFrom(t, spender, from, to, value).balances)
           = SumFunction(t.balances)
<1>1. CanMove(t, from, to, value)
  BY DEF CanMoveFrom
<1>2. QED
  BY <1>1, MoveFromEffect, MoveTotal

\* Minting adds what it mints.
LEMMA MintTotal ==
  ASSUME NEW t \in TokenState, NEW to \in Address, NEW value \in Uint
  PROVE  SumFunction(Mint(t, to, value).balances)
           = SumFunction(t.balances) + value
<1> DEFINE f == t.balances
           g == [f EXCEPT ![to] = f[to] + value]
<1>1. f \in [Address -> Nat] /\ value \in Nat
  BY MaxUintAssumption DEF TokenState, Uint
<1>2. Mint(t, to, value).balances = g
  BY DEF Mint, TokenState
<1> HIDE DEF f
<1>3. f[to] \in Nat /\ f[to] + value \in Nat
  BY <1>1
<1>4. SumFunction(g) = SumFunction(f) - f[to] + (f[to] + value)
  BY <1>1, <1>3, SumUpdate, FiniteAssumption
<1>5. SumFunction(f) \in Nat
  BY <1>1, SumType, FiniteAssumption
<1> HIDE DEF g
<1>6. SumFunction(g) = SumFunction(f) + value
  BY <1>1, <1>3, <1>4, <1>5
<1>7. QED
  BY <1>2, <1>6 DEF f

\* While the balances add up to a uint, a transfer to another account fails
\* only for want of a balance: the receiver's cannot overflow.
LEMMA MoveSucceeds ==
  ASSUME NEW t \in TokenState, NEW from \in Address, NEW to \in Address,
         from # to, NEW value \in Nat, value <= t.balances[from],
         SumFunction(t.balances) <= MaxUint
  PROVE  CanMove(t, from, to, value)
<1>1. /\ t.balances[from] \in Uint /\ t.balances[to] \in Uint
      /\ SumFunction(t.balances) \in Nat
      /\ t.balances[from] + t.balances[to] <= SumFunction(t.balances)
  BY TotalCovers DEF TokenState
<1>2. Debited(t, from, value)[to] = t.balances[to]
  BY DEF Debited, TokenState
<1>3. value \in Uint /\ t.balances[to] + value \in Uint
  BY <1>1, MaxUintAssumption DEF Uint
<1>4. AddOK(t.balances[to], value)
  BY <1>1, <1>3, AddExact
<1>5. QED
  BY <1>1, <1>2, <1>4, MaxUintAssumption DEF CanMove, Uint
=============================================================================
