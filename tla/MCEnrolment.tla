----------------------------- MODULE MCEnrolment -----------------------------
EXTENDS Enrolment, TLC

\* Edges, tokens and requests are interchangeable.
Symmetric == Permutations(Edges) \cup Permutations(Tokens) \cup Permutations(Requests)
==============================================================================
