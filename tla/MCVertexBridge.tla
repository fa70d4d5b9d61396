---------------------------- MODULE MCVertexBridge ----------------------------
(* VertexBridge for TLC: one or two handler threads of two runs; the      *)
(* usage is on the first event of a stream (message_start) and on the last *)
(* (message_delta).                                                        *)
EXTENDS VertexBridge, TLC

CONSTANTS r1, r2, t1, t2

MCTagOf == [r \in Reqs |-> IF r = r1 THEN t1 ELSE t2]
===============================================================================
