---- MODULE MCKeepAlive ----
EXTENDS KeepAlive

AnyStep == (-MaxStep .. MaxStep) \ {0}
====
