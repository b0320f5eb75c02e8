------------------------------- MODULE Escrow -------------------------------
(***************************************************************************)
(* What the oracle contract promises about money, without clocks, nonces,  *)
(* rights or callbacks: each request pays once, the payment is kept in     *)
(* escrow while the request is open, and leaves it once, to the operator   *)
(* or back to the requester.  Chainlink is shown to implement this.        *)
(***************************************************************************)
EXTENDS Integers, FiniteSets

CONSTANTS Requests,     \* all the requests there may ever be
          Payment       \* the price of one

VARIABLES status,       \* of each request: "new", "open" or "closed"
          held,         \* what the contract holds
          earned        \* what the operator has earned and not collected

vars == <<status, held, earned>>

Open == {r \in Requests : status[r] = "open"}

Init == /\ status = [r \in Requests |-> "new"]
        /\ held \in Nat
        /\ earned = 0

Request(r) ==
  /\ status[r] = "new"
  /\ status' = [status EXCEPT ![r] = "open"]
  /\ held' = held + Payment
  /\ UNCHANGED earned

Close(r) ==
  /\ status[r] = "open"
  /\ status' = [status EXCEPT ![r] = "closed"]

Settle(r) ==
  /\ Close(r)
  /\ earned' = earned + Payment
  /\ UNCHANGED held

Refund(r) ==
  /\ Close(r)
  /\ held' = held - Payment
  /\ UNCHANGED earned

\* The operator collects, possibly leaving the money where it is
Collect ==
  /\ earned' \in 0 .. earned
  /\ held' \in {held, held - (earned - earned')}
  /\ UNCHANGED status

Donate ==
  /\ held' \in Nat
  /\ held' >= held
  /\ UNCHANGED <<status, earned>>

Next ==
  \/ \E r \in Requests : Request(r) \/ Settle(r) \/ Refund(r)
  \/ Collect
  \/ Donate

Spec == Init /\ [][Next]_vars
-----------------------------------------------------------------------------
\* The contract can always pay what it has promised: everything the operator
\* has earned and a refund of everything in escrow, all at once.
Covered == held >= earned + Payment * Cardinality(Open)
=============================================================================
