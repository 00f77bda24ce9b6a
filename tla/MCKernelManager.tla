-------------------------- MODULE MCKernelManager --------------------------
\* Small instances of KernelManager.
EXTENDS KernelManager

CONSTANTS c1, bad, p1, p2

OnePlusInvalid == {c1, bad}
OnlyFirst == {c1}
Package == <<"sing-box", "libcronet">>
TwoPids == {p1, p2}

=============================================================================
