--------------------------- MODULE MCResourceBudgets ---------------------------
EXTENDS ResourceBudgets

CONSTANTS step, tool

MCSteps == {step}
MCTools == {tool}
=============================================================================
