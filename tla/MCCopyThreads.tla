--------------------------- MODULE MCCopyThreads ---------------------------
(***************************************************************************)
(* The two workers in one set of two lines of two bytes: buffers of one    *)
(* and of two blocks, and one that starts in the middle of a block.        *)
(***************************************************************************)
EXTENDS CopyThreads
=============================================================================
