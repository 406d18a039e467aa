------------------------------- MODULE Backend -------------------------------
(***************************************************************************)
(* The state the desktop backend manages for its windows: the proxy loop   *)
(* and the ping loop (src-tauri/src/lib.rs).  The window starts both when  *)
(* a host is connected and stops both before it reloads; each command is a *)
(* task of its own.                                                        *)
(***************************************************************************)
EXTENDS ProxyLoop, PingLoop

BackendVars == <<vars, pingVars>>

BackendInit == Init /\ PingInit
BackendNext == \/ Next /\ UNCHANGED pingVars
               \/ PingNext /\ UNCHANGED vars

BackendSpec == BackendInit /\ [][BackendNext]_BackendVars /\ Fairness
=============================================================================
