------------------------------- MODULE MCSetup -------------------------------
(***************************************************************************)
(* Setup for TLC: two routers whose IDs give the same names of variables   *)
(* ("rb-1" and "rb_1"), and a third. All settings of the numbers with one  *)
(* list; all lists, flags and addresses with one setting of the numbers.   *)
(***************************************************************************)
EXTENDS Setup, TLC

CONSTANTS dash, underscore, office, addr1, addr2

MCEnvName == (dash :> "RB_1") @@ (underscore :> "RB_1") @@ (office :> "OFFICE") @@ (Single :> "")

Settled == [number |-> [n \in Numbers |-> 7], cache |-> "true", influx |-> "true", host |-> TRUE,
            database |-> TRUE, list |-> <<dash, underscore, office>>,
            router |-> [n \in {"", "RB_1", "OFFICE"} |->
                           [address |-> IF n = "OFFICE" THEN addr2 ELSE addr1, tls |-> "true"]]]

Values == {Unset, Bad, -1, 0, 7}
Lists  == {<<>>, <<office>>, <<dash, underscore>>, <<office, office>>, <<dash, underscore, office>>}

MCEnvironments ==
    {[Settled EXCEPT !.number = v] : v \in [Numbers -> Values]}
      \cup {[Settled EXCEPT !.cache = f, !.influx = g, !.host = h, !.database = d, !.list = l,
                            !.router = [n \in DOMAIN @ |-> [address |-> a[n], tls |-> f]]] :
              f \in Flags, g \in {"true", "false", Bad}, h, d \in BOOLEAN, l \in Lists,
              a \in [{"", "RB_1", "OFFICE"} -> {addr1, None}]}
=============================================================================
