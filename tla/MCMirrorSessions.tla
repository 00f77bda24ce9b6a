-------------------------- MODULE MCMirrorSessions --------------------------
\* A proxied request and a test, over a node that connects twice.
EXTENDS MirrorSessions
=============================================================================
