---------------------------- MODULE MCMimblewimble ----------------------------
(***************************************************************************)
(* An instance of Mimblewimble with one order for each way an exchange can *)
(* go.                                                                     *)
(***************************************************************************)
EXTENDS Mimblewimble

CONSTANTS ka, kb, kc, kd, kr, ks, kt, km

MCCoin(value, key) == [value |-> value, key |-> key]

MCOrders ==
  { \* an ordinary payment with change
    [coins |-> <<MCCoin(8, ka)>>, change |-> <<MCCoin(2, kc)>>, fee |-> 2, lock_height |-> 0,
     amount |-> 6, key |-> kr],
    \* spends the output of the first: cut-through in one block
    [coins |-> <<MCCoin(4, kr)>>, change |-> <<>>, fee |-> 2, lock_height |-> 3,
     amount |-> 4, key |-> ks],
    \* spends the coin of the first once more: a conflict
    [coins |-> <<MCCoin(8, ka)>>, change |-> <<MCCoin(1, kd)>>, fee |-> 1, lock_height |-> 0,
     amount |-> 7, key |-> ks],
    \* an odd fee, two coins
    [coins |-> <<MCCoin(5, kb), MCCoin(6, kd)>>, change |-> <<>>, fee |-> 3, lock_height |-> 0,
     amount |-> 11, key |-> kt],
    \* the sender states a larger amount than it pays
    [coins |-> <<MCCoin(8, kb)>>, change |-> <<MCCoin(3, kc)>>, fee |-> 2, lock_height |-> 0,
     amount |-> 6, key |-> kt],
    \* the amount is below the fee: the subtraction wraps
    [coins |-> <<MCCoin(8, kb)>>, change |-> <<MCCoin(7, kc)>>, fee |-> 2, lock_height |-> 0,
     amount |-> 1, key |-> kt],
    \* the receiver's key is the coin's: the blinding factors cancel
    [coins |-> <<MCCoin(8, kb)>>, change |-> <<>>, fee |-> 2, lock_height |-> 0,
     amount |-> 8, key |-> kb],
    \* the change's key is the coin's: they cancel before
    [coins |-> <<MCCoin(8, ka)>>, change |-> <<MCCoin(2, ka)>>, fee |-> 2, lock_height |-> 0,
     amount |-> 6, key |-> kt],
    \* spends the reward of a block without fees
    [coins |-> <<MCCoin(10, km)>>, change |-> <<MCCoin(4, kd)>>, fee |-> 2, lock_height |-> 0,
     amount |-> 6, key |-> kt] }
===============================================================================
