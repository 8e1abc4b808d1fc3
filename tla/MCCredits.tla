----------------------------- MODULE MCCredits -----------------------------
(***************************************************************************)
(* The credits on the sound card: parts of the file that fill_audio plays  *)
(* in two turns, and the empty ones at the end of the file.                *)
(***************************************************************************)
EXTENDS Credits
=============================================================================
