---------------------------- MODULE MCTypingGame ----------------------------
(***************************************************************************)
(* The typing game with two letters, a pool of three letters and one spare *)
(* node, and a screen that three letters can be on at once.                *)
(***************************************************************************)
EXTENDS TypingGame
=============================================================================
