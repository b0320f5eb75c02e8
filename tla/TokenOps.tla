------------------------------ MODULE TokenOps ------------------------------
(***************************************************************************)
(* The functions of contracts/Token.sol as operators on the state of one   *)
(* token contract, so that a transaction that touches several tokens, or   *)
(* one token several times, can chain them (Manager.sol does both).        *)
(*                                                                         *)
(* CanX is the conjunction of the `require's of X, those of SafeMath       *)
(* included: where it is false the call reverts and nothing changes.  X    *)
(* itself is the state the call leaves behind.  Events are left out.       *)
(***************************************************************************)
EXTENDS SafeMath, FiniteSets

CONSTANT Address    \* externally owned accounts and contracts alike

\* An address has 160 bits
ASSUME FiniteAssumption == IsFiniteSet(Address)

TokenState == [balances    : [Address -> Uint],
               allowed     : [Address -> [Address -> Uint]],
               totalSupply : Uint,
               token_admin : Address]

\* constructor: the deployer holds the whole supply and the admin's power
Deployed(deployer, supply) ==
  [balances    |-> [a \in Address |-> IF a = deployer THEN supply ELSE 0],
   allowed     |-> [a \in Address |-> [s \in Address |-> 0]],
   totalSupply |-> supply,
   token_admin |-> deployer]

\* _transfer: the debit is stored before the credit is computed, so a
\* transfer to oneself credits the debited balance
Debited(t, from, value) == [t.balances EXCEPT ![from] = @ - value]

\* mutation of CanMove: the balance is not checked
CanMoveUnchecked(t, from, to, value) ==
  AddOK(Debited(t, from, value)[to], value)

CanMove(t, from, to, value) ==
  /\ t.balances[from] >= value
  /\ AddOK(Debited(t, from, value)[to], value)

\* mutation of Move: both balances are read before either is written
MoveStale(t, from, to, value) ==
  [t EXCEPT !.balances[from] = t.balances[from] - value,
            !.balances[to]   = t.balances[to] + value]

Move(t, from, to, value) ==
  LET debited == Debited(t, from, value)
  IN  [t EXCEPT !.balances = [debited EXCEPT ![to] = debited[to] + value]]

\* transferFrom
CanMoveFrom(t, spender, from, to, value) ==
  /\ t.allowed[from][spender] >= value
  /\ CanMove(t, from, to, value)

\* mutation of MoveFrom: the allowance is not spent
MoveFromUnspent(t, spender, from, to, value) == Move(t, from, to, value)

MoveFrom(t, spender, from, to, value) ==
  [Move(t, from, to, value) EXCEPT !.allowed[from][spender] = @ - value]

\* adminTransfer; its effect is that of Move
CanAdminMove(t, sender, from, to, value) ==
  /\ sender = t.token_admin
  /\ CanMove(t, from, to, value)

\* approve
Approve(t, owner, spender, value) ==
  [t EXCEPT !.allowed[owner][spender] = value]

\* mutation of CanMint: anybody may mint
CanMintAnybody(t, sender, to, value) == AddOK(t.balances[to], value)

\* mint: the balance is added to with SafeMath, the supply with a plain +=
CanMint(t, sender, to, value) ==
  /\ sender = t.token_admin
  /\ AddOK(t.balances[to], value)

Mint(t, to, value) ==
  [t EXCEPT !.balances[to] = @ + value,
            !.totalSupply  = Wrap(@ + value)]

\* transferPower
HandOver(t, new_admin) == [t EXCEPT !.token_admin = new_admin]
=============================================================================
