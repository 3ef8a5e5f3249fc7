---------------------------- MODULE MCBulkBuffer ----------------------------
(* BulkBuffer on buffers of four and five slots.                            *)
EXTENDS BulkBuffer

\* Closed, below the smallest buffer, and above the largest.
MCSizes == {0, 2, 9}
=============================================================================
