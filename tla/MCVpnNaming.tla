---- MODULE MCVpnNaming ----
EXTENDS VpnNaming, TLC

\* Names are interchangeable: no action compares or orders them.
NamesAreAlike == Permutations(Names)
====
