---------------------------- MODULE MCCodexTurn ----------------------------
(* Constant values for CodexTurn: the turn that may be given up says little. *)
EXTENDS CodexTurn

MCMaxMessages == [t \in Turns |-> t]
=============================================================================
