------------------------------ MODULE MCMcpClient ------------------------------
(* McpClient for TLC: the handshake, up to two pages of tools and two      *)
(* calls, beside two messages of the server's own.                         *)
EXTENDS McpClient
===============================================================================
