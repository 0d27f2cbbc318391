---------------------------- MODULE MCInterceptor ----------------------------
(* Model-checking instance of Interceptor: a few interchangeable messages. *)
EXTENDS Interceptor, TLC

Symmetry == Permutations(Msgs)
=============================================================================
