----------------------------- MODULE MCSettlement -----------------------------
(* One customer or supplier over two days, with two concurrent requests. The  *)
(* workers are interchangeable.                                               *)
EXTENDS Settlement, TLC

Interchangeable == Permutations(Workers)
===============================================================================
