------------------------------ MODULE MCStores ------------------------------
(* Root of the run `stores` of Stores. *)
EXTENDS Stores, TLC

CONSTANTS w1, w2,   \* clients, threads and importers
          r1, r2    \* Runs

MCNames == <<"name", "name (imported)">>
MCFits == {<<"m", "a">>}
MCFrozen == [content |-> "a", mapping |-> "m"]
MCImport == [workflow |-> "h", workflowVersion |-> "hx", profile |-> "hf", profileVersion |-> "hy"]
MCUploads == {<<"a">>, <<"a", "b">>, <<"b", "a">>}
MCProjectOf == [b \in {"b"} |-> "p"]

Symmetry == Permutations(Clients)
=============================================================================
