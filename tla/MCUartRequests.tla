--------------------------- MODULE MCUartRequests ---------------------------
EXTENDS UartRequests, TLC

CONSTANTS Shown, Hidden

\* What PU can do with the weight.
MCValues == {Shown, Hidden}

\* No property tells the two values apart.
MCSymmetry == Permutations(MCValues)

=============================================================================
