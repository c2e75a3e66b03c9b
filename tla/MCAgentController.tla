-------------------------- MODULE MCAgentController --------------------------
(* A small instance of AgentController: two screens, two HID actions.       *)
EXTENDS AgentController, TLC

CONSTANTS home, menu, click, key

MCSymmetry == Permutations(Screens) \cup Permutations(HidActions)
==============================================================================
