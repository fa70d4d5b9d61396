---------------------------- MODULE MCFermatSession ----------------------------
EXTENDS FermatSession

(* Two processes, one of which may have no gateway; two threads of one     *)
(* process, without an API key; a launcher that declares two workers.      *)
MCGatewayOf == [s \in Solves |-> IF s = "s1" THEN "g1" ELSE "g2"]
Wiring(allowed, declared, apikey, together, unset) ==
  [allowed |-> allowed, declared |-> declared, apikey |-> apikey, together |-> together,
   unset |-> unset]
MCWirings == {Wiring(FALSE, FALSE, TRUE, FALSE, {}), Wiring(FALSE, FALSE, FALSE, FALSE, {"s1"}),
              Wiring(FALSE, FALSE, FALSE, TRUE, {}), Wiring(FALSE, TRUE, TRUE, FALSE, {})}
===============================================================================
