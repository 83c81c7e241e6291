------------------------------ MODULE MCIntake ------------------------------
\* Admission, with requests that do not overlap: one slot.
EXTENDS Admission

MCTemplates == [e \in {"APPLICATION_SUBMITTED", "SCHOLARSHIP_AWARDED"} |-> {}]
=============================================================================
