--------------------------- MODULE MCSyncProtocol ----------------------------
(***************************************************************************)
(* Small instances of SyncProtocol: two values per column.                 *)
(***************************************************************************)
EXTENDS SyncProtocol, TLC

\* Devices are interchangeable: no constant names one.
DeviceSymmetry == Permutations(Device)

\* And where they are model values, so are columns and values.
Symmetry == DeviceSymmetry \cup Permutations(Column) \cup Permutations(Value)

\* Contents validate() refuses: every column at the value 1.
AllOnes == {[c \in Column |-> 1]}

NoContents == {}
NoIds      == {}
=============================================================================
