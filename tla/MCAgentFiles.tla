---------------------------- MODULE MCAgentFiles ----------------------------
(* An instance of AgentFiles small enough for TLC: one configuration has a  *)
(* longer text than the other, and a third one is refused.                  *)
EXTENDS AgentFiles, TLC

CONSTANTS long, short, refused, kitchen, till, gateway, local1, local2, local3, env, blank

MCPrinterName == (long :> kitchen) @@ (short :> till) @@ (refused :> blank)

MCGenerated == <<local1, local2, local3>>

MCSize == [c \in Contents |-> IF c = short THEN 1 ELSE 2]

=============================================================================
