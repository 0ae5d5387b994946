--------------------------- MODULE MCContentDedup ---------------------------
(* A small instance of ContentDedup for TLC.                                *)
EXTENDS ContentDedup

\* A content of two chunks.
Hashes == <<<<1, 2>>>>

=============================================================================
