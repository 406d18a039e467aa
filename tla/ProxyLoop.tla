------------------------------ MODULE ProxyLoop ------------------------------
(***************************************************************************)
(* Starting and stopping the local proxy of the desktop client:            *)
(* src-tauri/src/proxy.rs keeps the cancellation token of the running loop *)
(* in a slot behind a mutex, and each start spawns a task that puts its    *)
(* token there and runs run_proxy_loop (src-proxy/src/handler.rs), which   *)
(* loads the rules, binds port 7892 and accepts until cancelled.           *)
(*                                                                         *)
(* A task and its token are the same value: every start makes both.        *)
(***************************************************************************)
EXTENDS Naturals, FiniteSets

CONSTANTS
  Tasks,     \* bound: one per start command
  None,
  BadRules   \* whether a rule file that makes load_rules panic may be met

ASSUME NoneAssumption == None \notin Tasks
ASSUME BadRulesAssumption == BadRules \in BOOLEAN

VARIABLES
  slot,       \* ProxyLoop.0
  cancelled,  \* tokens on which cancel was called
  task,       \* how far each task is
  port,       \* the task whose listener has the port, None when no task has it
  wanted,     \* the task of the last command if it was a start, None if a stop
  early,      \* a command came before the task of a start had put its token down
  rushed      \* a start came before the loop of an earlier one had ended

asked == <<wanted, early, rushed>>
vars == <<slot, cancelled, task, port, asked>>

Init ==
  /\ slot = None /\ cancelled = {} /\ port = None
  /\ wanted = None /\ early = FALSE /\ rushed = FALSE
  /\ task = [t \in Tasks |-> "unused"]

-----------------------------------------------------------------------------
\* Mutant: the token is taken and dropped.
TakeOnly == slot' = None /\ UNCHANGED cancelled

\* Mutant: the token is cancelled and left in the slot.
CancelOnly ==
  /\ cancelled' = IF slot = None THEN cancelled ELSE cancelled \cup {slot}
  /\ UNCHANGED slot

\* lock().await.take(), and cancel() on what was there.
TakeAndCancel ==
  /\ cancelled' = IF slot = None THEN cancelled ELSE cancelled \cup {slot}
  /\ slot' = None

Alive == {t \in Tasks : task[t] \in {"loading", "binding", "listening"}}
Registered == \A t \in Tasks : task[t] # "spawned"

\* tauri_start_proxy_client: the command returns Ok when the task is spawned,
\* before it has run.
Start(t) ==
  /\ task[t] = "unused"
  /\ TakeAndCancel
  /\ task' = [task EXCEPT ![t] = "spawned"]
  /\ wanted' = t
  /\ early' = (early \/ ~Registered)
  /\ rushed' = (rushed \/ ~Registered \/ Alive # {})
  /\ UNCHANGED port

\* tauri_stop_proxy_client: "proxy client stopped."
Stop ==
  /\ TakeAndCancel
  /\ wanted' = None
  /\ early' = (early \/ ~Registered)
  /\ UNCHANGED <<task, port, rushed>>

\* The first thing the task does: replace, which drops the token it finds.
Register(t) ==
  /\ task[t] = "spawned"
  /\ task' = [task EXCEPT ![t] = "loading"]
  /\ slot' = t
  /\ UNCHANGED <<cancelled, port, asked>>

\* RouteMatcher::load; a rule it takes for a duplicate panics.
Load(t) ==
  /\ task[t] = "loading"
  /\ \/ task' = [task EXCEPT ![t] = "binding"]
     \/ BadRules /\ task' = [task EXCEPT ![t] = "failed"]
  /\ UNCHANGED <<slot, cancelled, port, asked>>

\* TcpListener::bind fails while another task's listener has the port ("refused"),
\* and when another program has it or the system says no ("barred"):
\* run_proxy_loop returns the error, which is printed.  The token is not looked
\* at before.
Bind(t) ==
  /\ task[t] = "binding"
  /\ \/ /\ port = None
        /\ \/ task' = [task EXCEPT ![t] = "listening"] /\ port' = t
           \/ task' = [task EXCEPT ![t] = "barred"] /\ UNCHANGED port
     \/ /\ port # None
        /\ task' = [task EXCEPT ![t] = "refused"] /\ UNCHANGED port
  /\ UNCHANGED <<slot, cancelled, asked>>

\* Mutant: the loop ends and its listener lives on.
ShutdownKeepsPort(t) ==
  /\ task[t] = "listening" /\ t \in cancelled
  /\ task' = [task EXCEPT ![t] = "ended"]
  /\ UNCHANGED <<slot, cancelled, port, asked>>

\* select! takes the cancelled branch, and the listener is dropped.
Shutdown(t) ==
  /\ task[t] = "listening" /\ t \in cancelled
  /\ task' = [task EXCEPT ![t] = "ended"]
  /\ port' = None
  /\ UNCHANGED <<slot, cancelled, asked>>

Command == Stop \/ \E t \in Tasks : Start(t)
Run(t) == Register(t) \/ Load(t) \/ Bind(t) \/ Shutdown(t)

Next == Command \/ \E t \in Tasks : Run(t)

\* The runtime polls every task that can go on.
Fairness == \A t \in Tasks : WF_vars(Run(t))

Spec == Init /\ [][Next]_vars /\ Fairness

-----------------------------------------------------------------------------
TypeOK ==
  /\ slot \in Tasks \cup {None}
  /\ cancelled \subseteq Tasks
  /\ task \in [Tasks -> {"unused", "spawned", "loading", "binding", "listening",
                      "failed", "refused", "barred", "ended"}]
  /\ port \in Tasks \cup {None}
  /\ wanted \in Tasks \cup {None} /\ early \in BOOLEAN /\ rushed \in BOOLEAN

\* The slot never holds a token that was already cancelled, and the port is held
\* by exactly the task that is listening: a stop always reaches a live token.
SlotIsLive ==
  /\ slot \notin cancelled
  /\ \A t \in Tasks : task[t] = "listening" <=> port = t

\* A loop that was told to stop lets go of the port.
CancelledLetsGo == \A t \in Tasks : t \in cancelled ~> port # t

\* As long as each command comes after the task of the start before it has put
\* its token down, every loop that goes on uncancelled can still be stopped: its
\* token is in the slot.  With it, at most one loop goes on.
NoOrphan == ~early => Alive \ cancelled \subseteq {slot}

\* "proxy client stopped." (src-tauri/src/proxy.rs:124): when the last command
\* was a stop, and no command came early, no loop of the app has the port in the end.
StopStops == <>[](wanted = None /\ ~early) => <>[](port = None)

\* "CloudTun 代理启动成功！" (src/store/instance.ts:170): when the last command was
\* a start, its loop listens in the end, unless it came before the loop of an
\* earlier one had ended, the rules could not be loaded, or another program had
\* the port or the system refused it (handler.rs:50).  Nobody is told of any of
\* these: the command had answered Ok.
StartStarts ==
  \A t \in Tasks :
    <>[](wanted = t /\ ~rushed /\ task[t] \notin {"failed", "barred"}) => <>[](port = t)
=============================================================================
