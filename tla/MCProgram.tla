------------------------------ MODULE MCProgram ------------------------------
EXTENDS Program
==============================================================================
