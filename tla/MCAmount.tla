------------------------------ MODULE MCAmount ------------------------------
EXTENDS Amount

AllAmounts == 0 .. Word - 1
=============================================================================
