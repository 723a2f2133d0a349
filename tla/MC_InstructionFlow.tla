------------------------- MODULE MC_InstructionFlow -------------------------
EXTENDS InstructionFlow

CONSTANTS c1, c2

\* Gemini may take a mild report for more, and a grave one for nothing.
MCAssessments == [mild |-> {"LOW", "MEDIUM", ""}, grave |-> {"LOW", "HIGH"}]
=============================================================================
