-------------------------- MODULE MCBootstrapAccess --------------------------
EXTENDS BootstrapAccess

CONSTANTS acme  \* the one company

==============================================================================
