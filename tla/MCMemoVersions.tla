--------------------------- MODULE MCMemoVersions ---------------------------
EXTENDS MemoVersions, TLC
Writers == [i \in Slots |-> {"save", "start", "periodic", "agent", "version", "ack"}]
\* One slot writes while the other restores and sets other payload fields.
CONSTANT Restorer
Restorers == [i \in Slots |-> IF i = Restorer THEN {"restore", "chrome"} ELSE {"start", "agent"}]
SlotSymmetry == Permutations(Texts) \cup Permutations(Slots)
TextSymmetry == Permutations(Texts)
=============================================================================
