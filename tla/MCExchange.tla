----------------------------- MODULE MCExchange -----------------------------
(***************************************************************************)
(* Exchange for a chunk of two bytes: short and rotten are different.      *)
(***************************************************************************)
EXTENDS Exchange

MCData == <<1, 2>>
AllRoles == {"put", "replicate", "get", "repair"}
=============================================================================
