---------------------------- MODULE MCReActAgent ----------------------------
(***************************************************************************)
(* ReActAgent for TLC: a host the fallback knows, one it does not know,    *)
(* and one of which it finds another.                                      *)
(***************************************************************************)
EXTENDS ReActAgent

MCHosts == {"api.com", "db.dev", "api.com.test"}

MCFallbackFinds(host) == IF host = "db.dev" THEN None ELSE "api.com"
=============================================================================
