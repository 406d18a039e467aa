---- MODULE MCTunnelRelay ----
EXTENDS TunnelRelay
====
