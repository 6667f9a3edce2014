----------------------------- MODULE MCOmniDma ------------------------------
EXTENDS OmniDma
=============================================================================
