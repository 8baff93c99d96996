------------------------------ MODULE MCServer ------------------------------
\* Server on small instances.
EXTENDS Server, TLC

\* Workers are interchangeable; descriptors are numbers and are not. Only for
\* safety runs.
MCSymmetry == Permutations(Workers)
=============================================================================
