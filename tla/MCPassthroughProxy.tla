-------------------------- MODULE MCPassthroughProxy --------------------------
(* Two requests of two runs through the passthrough gateway. *)
EXTENDS PassthroughProxy, TLC

CONSTANTS r1, r2, t1, t2

MCTagOf == r1 :> t1 @@ r2 :> t2
===============================================================================
