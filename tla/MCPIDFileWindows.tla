-------------------------- MODULE MCPIDFileWindows --------------------------
EXTENDS PIDFileWindows, TLC
\* Files are interchangeable.
FileSymmetry == Permutations(Files)
=============================================================================
