--------------------------- MODULE MC_OnchainRender ---------------------------
(* Constant values for checking OnchainRender with TLC. *)
EXTENDS OnchainRender

MCFilesThere == {TRUE}
MCFilesMissing == {FALSE}
MCFilesMayMiss == BOOLEAN
=============================================================================
