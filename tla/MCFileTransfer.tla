--------------------------- MODULE MCFileTransfer ---------------------------
(* FileTransfer with one or two browsers.                                   *)
EXTENDS FileTransfer
MCFileSizes == {2, 5, 9}
MCSmallFile == {3}
=============================================================================
