------------------------------ MODULE SafeMath ------------------------------
(***************************************************************************)
(* Solidity's uint256 and the library SafeMath (contracts/SafeMath.sol).   *)
(*                                                                         *)
(* A uint is a number in 0 .. MaxUint; the code's MaxUint is 2^256 - 1.    *)
(* Arithmetic of Solidity 0.6 wraps around: Wrap is what the machine does  *)
(* to a result.  Each function of the library computes a wrapped result    *)
(* and then a `require' decides, from that result alone, whether the       *)
(* transaction goes on; XOK is that `require'.  Where XOK holds, callers   *)
(* may use the plain operator of the integers: that is what module         *)
(* TokenOpsProofs shows, and what a wrong check would break.               *)
(***************************************************************************)
EXTENDS Integers

CONSTANT MaxUint    \* the largest uint

ASSUME MaxUintAssumption == MaxUint \in Nat \ {0}

Uint == 0 .. MaxUint

Wrap(n) == n % (MaxUint + 1)

\* mutation of AddOK: the comparison is strict
AddOKStrict(a, b) == Wrap(a + b) > a

\* add: c = a + b; require(c >= a)
AddOK(a, b) == Wrap(a + b) >= a

\* sub: require(b <= a)
SubOK(a, b) == b <= a

\* mutation of MulOK: the check of add, which a product can pass by chance
MulOKLikeAdd(a, b) == Wrap(a * b) >= a

\* mul: c = a * b; require(a == 0 || c / a == b)
MulOK(a, b) == a # 0 => Wrap(a * b) \div a = b

\* div: require(b > 0)
DivOK(a, b) == b > 0
=============================================================================
