---------------------------- MODULE MCConfigSync ----------------------------
EXTENDS ConfigSync, TLC

=============================================================================
