------------------------------ MODULE MCProxxxy ------------------------------
(* Proxxxy on small instances. *)
EXTENDS Proxxxy, TLC

CONSTANTS c1, c2, c3, a1, a2

Symmetry == Permutations(Clients)

\* Bound: of two requests of an application the second is its only query.
QueryLast == \A a \in Apps : Len(reqs[a]) > 1 => reqs[a] = <<"state", "query">>
=============================================================================
