--------------------------- MODULE MCChatHistory ---------------------------
(* The instance of ChatHistory for TLC. *)
EXTENDS ChatHistory

CONSTANTS s1, s2, w1, w2, j1
=============================================================================
