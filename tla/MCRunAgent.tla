------------------------------- MODULE MCRunAgent -------------------------------
(* Three solves of one instance: a pair and its retry (a1, a2), and the    *)
(* solve of another arm (b1), with requests q1, q2 of a1, q3 of a2 and q4  *)
(* of b1; the arms have a worktree each or share one.                      *)
EXTENDS RunAgent, TLC

CONSTANTS a1, a2, b1, q1, q2, q3, q4, ta, tb, wa, wb

Owner == q1 :> a1 @@ q2 :> a1 @@ q3 :> a2 @@ q4 :> b1

MCOwnerOf == [r \in Reqs |-> Owner[r]]
MCSolveTag == [a \in Solves |-> IF a = b1 THEN tb ELSE ta]
MCTagOf == [r \in Reqs |-> MCSolveTag[Owner[r]]]
MCTreeOf == [a \in Solves |-> IF a = b1 /\ wb \in Trees THEN wb ELSE wa]
===============================================================================
