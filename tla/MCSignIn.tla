------------------------------ MODULE MCSignIn ------------------------------
EXTENDS SignIn

CONSTANTS k1, k2

\* A pair, another pair, two halves that do not fit, and half of a pair.
MCEnvironments ==
    {[signing |-> k1, verification |-> k1],
     [signing |-> k2, verification |-> k2],
     [signing |-> k1, verification |-> k2],
     [signing |-> Null, verification |-> k1]}

=============================================================================
