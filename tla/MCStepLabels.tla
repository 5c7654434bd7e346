---------------------------- MODULE MCStepLabels ----------------------------
\* The labels of StepLabels for TLC; the configurations give the bounds.
EXTENDS StepLabels
=============================================================================
