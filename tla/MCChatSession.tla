--------------------------- MODULE MCChatSession ---------------------------
(* Three chats: one with an answer of two chunks, one of a single chunk, and *)
(* one that is not streamed.                                                 *)
EXTENDS ChatSession, TLC

CONSTANTS c1, c2, c3

MCLength == [c \in Chats |-> IF c = c1 THEN 2 ELSE 1]
=============================================================================
