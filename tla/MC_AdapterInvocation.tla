------------------------ MODULE MC_AdapterInvocation ------------------------
\* Instances of AdapterInvocation for TLC.
EXTENDS AdapterInvocation

=============================================================================
