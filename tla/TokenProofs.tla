----------------------------- MODULE TokenProofs -----------------------------
(***************************************************************************)
(* Token.sol keeps its storage well typed: no sequence of transactions,    *)
(* from whatever senders, takes a balance or an allowance below zero or    *)
(* above MaxUint, for every set of addresses and every width of the word.  *)
(* And nobody but those entitled to it debits a balance or mints.          *)
(***************************************************************************)
EXTENDS Token, TokenOpsProofs

\* Token.sol never underflows or overflows a balance or an allowance.
THEOREM TokenTypeOK == Spec => []TypeOK
<1>1. Init => TypeOK
  BY DeployedType DEF Init, TypeOK
<1>2. TypeOK /\ [Next]_vars => TypeOK'
  <2> SUFFICES ASSUME TypeOK, [Next]_vars PROVE TypeOK'
    OBVIOUS
  <2> USE DEF TypeOK
  <2>1. CASE UNCHANGED vars
    BY <2>1 DEF vars
  <2>2. ASSUME NEW s \in Address, Call(s)
        PROVE  TypeOK'
    <3>0. sender' \in Address
      BY <2>2 DEF Call
    <3>1. ASSUME NEW new_admin \in Address, transferPower(s, new_admin)
          PROVE  token' \in TokenState
      BY <3>1, HandOverType DEF transferPower
    <3>2. ASSUME NEW spender \in Address, NEW value \in Uint,
                 approve(s, spender, value)
          PROVE  token' \in TokenState
      BY <3>2, ApproveType DEF approve
    <3>3. ASSUME NEW to \in Address, NEW value \in Uint, transfer(s, to, value)
          PROVE  token' \in TokenState
      BY <3>3, MoveType DEF transfer
    <3>4. ASSUME NEW to \in Address, NEW value \in Uint, mint(s, to, value)
          PROVE  token' \in TokenState
      BY <3>4, MintType DEF mint
    <3>5. ASSUME NEW from \in Address, NEW to \in Address, NEW value \in Uint,
                 transferFrom(s, from, to, value)
          PROVE  token' \in TokenState
      BY <3>5, MoveFromType DEF transferFrom
    <3>6. ASSUME NEW from \in Address, NEW to \in Address, NEW value \in Uint,
                 adminTransfer(s, from, to, value)
          PROVE  token' \in TokenState
      BY <3>6, MoveType DEF adminTransfer, CanAdminMove
    <3>7. QED
      BY <2>2, <3>0, <3>1, <3>2, <3>3, <3>4, <3>5, <3>6 DEF Call
  <2>3. QED
    BY <2>1, <2>2 DEF Next
<1>3. QED
  BY <1>1, <1>2, PTL DEF Spec
-----------------------------------------------------------------------------
\* The supply and the admin's power change only in the admin's transactions.
THEOREM TokenSupplyFollowsAdmin == Spec => SupplyFollowsAdmin
<1>1. TypeOK /\ [Next]_vars =>
        [ token'.totalSupply # token.totalSupply
          \/ token'.token_admin # token.token_admin
          => sender' = token.token_admin ]_vars
  <2> SUFFICES ASSUME TypeOK, [Next]_vars,
                      \/ token'.totalSupply # token.totalSupply
                      \/ token'.token_admin # token.token_admin
               PROVE  sender' = token.token_admin
    BY DEF vars
  <2>0. token \in TokenState
    BY DEF TypeOK
  <2>1. PICK s \in Address : Call(s)
    BY DEF Next, vars
  <2>2. sender' = s
    BY <2>1 DEF Call
  <2>3. ASSUME NEW spender \in Address, NEW value \in Uint,
               approve(s, spender, value)
        PROVE  FALSE
    BY <2>0, <2>3 DEF approve, Approve, TokenState
  <2>4. ASSUME NEW from \in Address, NEW to \in Address, NEW value \in Uint,
               \/ transfer(from, to, value)
               \/ transferFrom(s, from, to, value)
               \/ adminTransfer(s, from, to, value)
        PROVE  FALSE
    <3>1. CASE transferFrom(s, from, to, value)
      BY <2>0, <3>1, MoveFromEffect DEF transferFrom
    <3>2. CASE transfer(from, to, value) \/ adminTransfer(s, from, to, value)
      BY <2>0, <3>2, MoveEffect DEF transfer, adminTransfer, CanAdminMove
    <3>3. QED
      BY <2>4, <3>1, <3>2
  <2>5. ASSUME NEW to \in Address, NEW value \in Uint, mint(s, to, value)
        PROVE  s = token.token_admin
    BY <2>5 DEF mint, CanMint
  <2>6. ASSUME NEW new_admin \in Address, transferPower(s, new_admin)
        PROVE  s = token.token_admin
    BY <2>6 DEF transferPower
  <2>7. QED
    BY <2>1, <2>2, <2>3, <2>4, <2>5, <2>6 DEF Call
<1>2. QED
  BY <1>1, TokenTypeOK, PTL DEF Spec, SupplyFollowsAdmin
-----------------------------------------------------------------------------
\* Every debit is the owner's, the admin's, or costs the spender as much of an
\* allowance.
THEOREM TokenDebitsAreAuthorised == Spec => DebitsAreAuthorised
<1> DEFINE Authorised ==
      \A a \in Address : token'.balances[a] < token.balances[a] =>
        \/ sender' \in {a, token.token_admin}
        \/ token.allowed[a][sender'] - token'.allowed[a][sender']
             = token.balances[a] - token'.balances[a]
<1>1. TypeOK /\ [Next]_vars => [Authorised]_vars
  <2> SUFFICES ASSUME TypeOK, Next,
                      NEW a \in Address, token'.balances[a] < token.balances[a]
               PROVE  \/ sender' \in {a, token.token_admin}
                      \/ token.allowed[a][sender'] - token'.allowed[a][sender']
                           = token.balances[a] - token'.balances[a]
    OBVIOUS
  <2>0. /\ token \in TokenState
        /\ token.balances \in [Address -> Nat]
        /\ token.allowed \in [Address -> [Address -> Nat]]
        /\ \A value \in Uint : value \in Nat
    BY MaxUintAssumption DEF TypeOK, TokenState, Uint
  <2>1. PICK s \in Address : Call(s)
    BY DEF Next
  <2>2. sender' = s
    BY <2>1 DEF Call
  <2>3. ASSUME NEW spender \in Address, NEW value \in Uint,
               approve(s, spender, value)
        PROVE  FALSE
    <3>1. token'.balances = token.balances
      BY <2>0, <2>3 DEF approve, Approve, TokenState
    <3>2. QED
      BY <2>0, <3>1
  <2>4. ASSUME NEW new_admin \in Address, transferPower(s, new_admin)
        PROVE  FALSE
    <3>1. token'.balances = token.balances
      BY <2>0, <2>4 DEF transferPower, HandOver, TokenState
    <3>2. QED
      BY <2>0, <3>1
  <2>5. ASSUME NEW to \in Address, NEW value \in Uint, mint(s, to, value)
        PROVE  s = token.token_admin
    BY <2>5 DEF mint, CanMint
  <2>6. ASSUME NEW to \in Address, NEW value \in Uint, transfer(s, to, value)
        PROVE  s = a
    BY <2>0, <2>6, MoveEffect DEF transfer
  <2>7. ASSUME NEW from \in Address, NEW to \in Address, NEW value \in Uint,
               adminTransfer(s, from, to, value)
        PROVE  s = token.token_admin
    BY <2>7 DEF adminTransfer, CanAdminMove
  <2>8. ASSUME NEW from \in Address, NEW to \in Address, NEW value \in Uint,
               transferFrom(s, from, to, value)
        PROVE  token.allowed[a][s] - token'.allowed[a][s]
                 = token.balances[a] - token'.balances[a]
    <3> DEFINE m == Move(token, from, to, value)
    <3>1. CanMove(token, from, to, value)
      BY <2>8 DEF transferFrom, CanMoveFrom
    <3>2. /\ token'.balances = m.balances
          /\ token'.allowed[from][s] = token.allowed[from][s] - value
      BY <2>0, <2>8, MoveFromEffect DEF transferFrom
    <3>3. /\ from = to => m.balances = token.balances
          /\ from # to => /\ m.balances[from] = token.balances[from] - value
                          /\ m.balances[to] = token.balances[to] + value
          /\ \A b \in Address \ {from, to} : m.balances[b] = token.balances[b]
      BY <2>0, <3>1, MoveEffect
    <3> HIDE DEF m
    <3>4. a = from /\ token'.balances[a] = token.balances[a] - value
      BY <2>0, <3>2, <3>3
    <3>5. QED
      BY <2>0, <3>2, <3>4
  <2>9. QED
    BY <2>1, <2>2, <2>3, <2>4, <2>5, <2>6, <2>7, <2>8 DEF Call
<1>2. QED
  BY <1>1, TokenTypeOK, PTL DEF Spec, DebitsAreAuthorised
-----------------------------------------------------------------------------
\* However often the supply wraps around, it is the sum of the balances modulo
\* the width of the word: nothing but minting creates value, and nothing
\* destroys any.
THEOREM TokenSupplyIsSumOfBalances == Spec => []SupplyIsSumOfBalances
<1>1. Init => SupplyIsSumOfBalances
  <2> SUFFICES ASSUME Init PROVE SupplyIsSumOfBalances
    OBVIOUS
  <2>1. PICK supply \in Uint : token = Deployed(sender, supply)
    BY DEF Init
  <2>2. SumFunction(token.balances) = supply
    BY <2>1, DeployedTotal DEF Init
  <2>3. token.totalSupply = supply
    BY <2>1 DEF Deployed
  <2>4. QED
    BY <2>2, <2>3, WrapUint DEF SupplyIsSumOfBalances
<1>2. TypeOK /\ SupplyIsSumOfBalances /\ [Next]_vars => SupplyIsSumOfBalances'
  <2> SUFFICES ASSUME TypeOK, SupplyIsSumOfBalances, [Next]_vars
               PROVE  SupplyIsSumOfBalances'
    OBVIOUS
  <2> DEFINE Kept == /\ token'.totalSupply = token.totalSupply
                     /\ SumFunction(token'.balances)
                          = SumFunction(token.balances)
  <2>0. token \in TokenState
    BY DEF TypeOK
  <2>1. Kept => SupplyIsSumOfBalances'
    BY DEF SupplyIsSumOfBalances
  <2>2. CASE UNCHANGED vars
    BY <2>1, <2>2 DEF vars
  <2>3. ASSUME NEW s \in Address, NEW to \in Address, NEW value \in Uint,
               mint(s, to, value)
        PROVE  SupplyIsSumOfBalances'
    <3>1. SumFunction(token'.balances) = SumFunction(token.balances) + value
      BY <2>0, <2>3, MintTotal DEF mint
    <3>2. token'.totalSupply = Wrap(token.totalSupply + value)
      BY <2>0, <2>3 DEF mint, Mint, TokenState
    <3>3. SumFunction(token.balances) \in Nat /\ value \in Nat
      BY <2>0, TotalCovers, MaxUintAssumption DEF Uint
    <3>4. QED
      BY <3>1, <3>2, <3>3, WrapAbsorbs DEF SupplyIsSumOfBalances
  <2>4. ASSUME NEW s \in Address, NEW new_admin \in Address,
               transferPower(s, new_admin)
        PROVE  Kept
    BY <2>0, <2>4 DEF transferPower, HandOver, TokenState
  <2>5. ASSUME NEW s \in Address, NEW spender \in Address, NEW value \in Uint,
               approve(s, spender, value)
        PROVE  Kept
    BY <2>0, <2>5 DEF approve, Approve, TokenState
  <2>6. ASSUME NEW from \in Address, NEW to \in Address, NEW value \in Uint,
               CanMove(token, from, to, value),
               token' = Move(token, from, to, value)
        PROVE  Kept
    BY <2>0, <2>6, MoveTotal, MoveEffect
  <2>7. ASSUME NEW s \in Address, NEW from \in Address, NEW to \in Address,
               NEW value \in Uint, transferFrom(s, from, to, value)
        PROVE  Kept
    BY <2>0, <2>7, MoveFromTotal, MoveFromEffect DEF transferFrom
  <2> HIDE DEF Kept
  <2>8. QED
    BY <2>1, <2>2, <2>3, <2>4, <2>5, <2>6, <2>7
       DEF Next, Call, transfer, adminTransfer, CanAdminMove
<1>3. QED
  BY <1>1, <1>2, TokenTypeOK, PTL DEF Spec
=============================================================================
