------------------------------ MODULE MCIntake ------------------------------
\* The issues of Intake for TLC; the configurations give the bounds.
EXTENDS Intake
=============================================================================
