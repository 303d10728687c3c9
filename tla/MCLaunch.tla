------------------------------ MODULE MCLaunch ------------------------------
EXTENDS Launch
=============================================================================
