----------------------------- MODULE MCChatBot -----------------------------
(* Instances of ChatBot: two users with a short chat flow, and one user who *)
(* moves a lot; both have a message that nobody answers in the second step. *)
EXTENDS ChatBot

CONSTANTS u1, u2

ShortFlow == <<<<"ask">>, <<"load", "ask">>>>
LongFlow  == <<<<"ask", "ask">>, <<"ask", "load">>>>
=============================================================================
