------------------------------ MODULE EtaloClock ------------------------------
(***************************************************************************)
(* Block time and machine integers shared by the on-chain modules.         *)
(*                                                                         *)
(* `now' is block.timestamp.  A block's timestamp is chosen by the chain,  *)
(* so the only thing the contracts know of it is that it does not go back: *)
(* Tick is the environment.  Every duration of the contracts is a CONSTANT *)
(* of the module that uses it, so one tick stands for whatever unit the    *)
(* instance picks.                                                         *)
(*                                                                         *)
(* Uint is the type of a Solidity uint256.  Solidity 0.8 arithmetic is     *)
(* checked, so an operation whose result leaves Uint reverts the whole     *)
(* transaction: the actions state that as a conjunct `result \in Uint'     *)
(* (or `amount \in 0..counter' for a subtraction from a counter).          *)
(***************************************************************************)
EXTENDS Integers

CONSTANTS
    Genesis,  \* timestamp of the deployment block
    MaxTime,  \* bound on time, for model checking
    MaxUint   \* 2^256 - 1

ASSUME ClockAssumption ==
    /\ Genesis \in Nat \ {0}
    /\ MaxTime \in Nat
    /\ MaxUint \in Nat

VARIABLE now

Uint == 0..MaxUint

ClockInit == now = Genesis

Tick ==
    /\ now < MaxTime
    /\ now' = now + 1
===============================================================================
