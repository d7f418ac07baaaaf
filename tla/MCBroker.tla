------------------------------ MODULE MCBroker -------------------------------
(* Small instances of the shared worker broker.                            *)
EXTENDS Broker

TwoTabs == {"t1", "t2"}

\* One page asks for memory only, the other for either kind.
MixedKinds == [t \in TwoTabs |-> IF t = "t1" THEN {"memory"} ELSE {"memory", "opfs"}]

OneTab == {"t1"}
OnDisk == [t \in OneTab |-> {"opfs"}]
=============================================================================
