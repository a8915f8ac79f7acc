---------------------------- MODULE MCLuaRunner ----------------------------
(* Two dispatches of one check, its drain, one canary, one connection, one  *)
(* slot of the browser and two machines.                                    *)
EXTENDS LuaRunner

CONSTANTS r1, r2, dr, ssrf
MCDispatches == {r1, r2, dr}
MCCheckOf(d) == ssrf
MCEntry(d) == CASE d = r1 -> "run" [] d = r2 -> "plant" [] OTHER -> "drain"
MCPollutes(d) == d = r1
=============================================================================
