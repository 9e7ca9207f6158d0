--------------------------- MODULE MCLoadBalancer ---------------------------
(* A small instance of LoadBalancer for TLC.                               *)
EXTENDS LoadBalancer

(* ABA and BAA: the same letters, in other places.                         *)
TwoStocks == {<<0, 1, 0>>, <<1, 0, 0>>}
=============================================================================
