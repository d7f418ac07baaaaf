----------------------------- MODULE MCMultiTab ------------------------------
(* Small instances of tabs that share a database.                          *)
EXTENDS MultiTab

NoContents == {}
NoIds      == {}
=============================================================================
