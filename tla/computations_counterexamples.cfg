\* Each property below is violated by what the code does; README.md, Further
\* counterexamples.  TLC stops at the first one: keep one of the lines.
SPECIFICATION Spec
INVARIANT InvalidRefused
\* INVARIANT CodeBlocksWhole
\* INVARIANT UsedIsRestored
\* INVARIANT AcpMediaShown
\* INVARIANT ShownAsConnected
\* INVARIANT TagsNest
\* INVARIANT WritesStayInside
