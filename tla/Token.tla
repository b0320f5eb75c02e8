-------------------------------- MODULE Token --------------------------------
(***************************************************************************)
(* One deployed Token contract (contracts/Token.sol) and everyone who may  *)
(* call it.  A step is one transaction: any address calls any public       *)
(* function with any arguments; calls that revert leave no step.           *)
(***************************************************************************)
EXTENDS TokenOps, Functions

CONSTANT Approvers  \* bound: the addresses that call approve

ASSUME ApproversAssumption == Approvers \subseteq Address

VARIABLES token,    \* the contract's storage
          sender    \* who sent the last transaction (read by no action)

vars == <<token, sender>>

Init == /\ sender \in Address
        /\ \E supply \in Uint : token = Deployed(sender, supply)

transferPower(from, new_admin) ==
  /\ from = token.token_admin
  /\ token' = HandOver(token, new_admin)

approve(owner, spender, value) ==
  token' = Approve(token, owner, spender, value)

transfer(from, to, value) ==
  /\ CanMove(token, from, to, value)
  /\ token' = Move(token, from, to, value)

transferFrom(spender, from, to, value) ==
  /\ CanMoveFrom(token, spender, from, to, value)
  /\ token' = MoveFrom(token, spender, from, to, value)

adminTransfer(admin, from, to, value) ==
  /\ CanAdminMove(token, admin, from, to, value)
  /\ token' = Move(token, from, to, value)

mint(admin, to, value) ==
  /\ CanMint(token, admin, to, value)
  /\ token' = Mint(token, to, value)

\* A transaction sent by s
Call(s) ==
  /\ sender' = s
  /\ \/ \E new_admin \in Address : transferPower(s, new_admin)
     \/ s \in Approvers /\ \E spender \in Address, value \in Uint :
          approve(s, spender, value)
     \/ \E to \in Address, value \in Uint :
          transfer(s, to, value) \/ mint(s, to, value)
     \/ \E from, to \in Address, value \in Uint :
          transferFrom(s, from, to, value) \/ adminTransfer(s, from, to, value)

Next == \E s \in Address : Call(s)

Spec == Init /\ [][Next]_vars
-----------------------------------------------------------------------------
\* Balances, allowances and the supply stay within a uint: no step of
\* Token.sol underflows one.
TypeOK == token \in TokenState /\ sender \in Address

\* The supply is the sum of the balances, up to the wrap-around of the
\* unchecked `totalSupply += _value' (Token.sol:156); every other function
\* moves value without creating or destroying any.
SupplyIsSumOfBalances == token.totalSupply = Wrap(SumFunction(token.balances))

\* A balance falls only in a transaction sent by its owner, by the admin, or
\* by a spender whose allowance falls by the same amount: nobody spends the
\* same allowance twice, and no allowance outlives its use.
DebitsAreAuthorised ==
  [][\A a \in Address : token'.balances[a] < token.balances[a] =>
       \/ sender' \in {a, token.token_admin}
       \/ token.allowed[a][sender'] - token'.allowed[a][sender']
            = token.balances[a] - token'.balances[a]]_vars

\* Only the holder of the admin's power changes the supply or who holds that
\* power: an admin who has handed it over (scripts/deploy.py hands it to the
\* Manager) can neither mint nor take it back.
SupplyFollowsAdmin ==
  [][token'.totalSupply # token.totalSupply
     \/ token'.token_admin # token.token_admin
       => sender' = token.token_admin]_vars
=============================================================================
