--------------------------- MODULE MCProblemBank ---------------------------
EXTENDS ProblemBank
=============================================================================
