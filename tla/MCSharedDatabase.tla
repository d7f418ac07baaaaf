-------------------------- MODULE MCSharedDatabase ---------------------------
(***************************************************************************)
(* Small instances of SharedDatabase: two tabs, one of which closes.       *)
(***************************************************************************)
EXTENDS SharedDatabase

Tabs    == {"t1", "t2"}
Closing == {"t2"}

Writers          == {"w1", "w2"}
WritersAndReader == Writers \cup {"r1"}
=============================================================================
