----------------------------- MODULE MCShrtim -----------------------------
EXTENDS ShrtimOutputs

NoneOrAll == {{}, Faults}
=============================================================================
