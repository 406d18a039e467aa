---- MODULE MCIdleShutdown ----
EXTENDS IdleShutdown

NoSteps == {}
====
