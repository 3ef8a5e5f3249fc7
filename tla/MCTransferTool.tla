--------------------------- MODULE MCTransferTool ---------------------------
EXTENDS TransferTool

CONSTANTS old, new

Sizes == [i \in Images |-> IF i = old THEN 2 ELSE 4]
AllKinds == {"cpp", "go", "node", "cs"}
SmallNumbers == 0..9

=============================================================================
