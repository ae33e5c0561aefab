----------------------------- MODULE Lifecycle -----------------------------
(***************************************************************************)
(* The life of one process: the callbacks of the leader election and       *)
(* handleSigterm (cmd/main.go), Run and Stop of the controller             *)
(* (internal/ingress/controller/ingress.go).                               *)
(*                                                                         *)
(* The goroutine that leads makes the channel stopCh, starts the goroutine *)
(* that waits for SIGTERM and runs the controller.  Both goroutines hold   *)
(* the channel, and closing one that is closed, or nil, is a panic.        *)
(***************************************************************************)
VARIABLES
  leader,   \* the goroutine of OnStartedLeading
  handler,  \* the goroutine of handleSigterm
  stopCh,   \* the channel
  held,     \* ic.stopCh # nil
  signal,   \* a SIGTERM has been sent
  down,     \* the queue has been shut down
  exit      \* how the process ended

lifeVars == <<leader, handler, stopCh, held, signal, down, exit>>

Init ==
  /\ leader = "electing" /\ handler = "none"
  /\ stopCh = "nil" /\ held = FALSE
  /\ signal = FALSE /\ down = FALSE
  /\ exit = "running"

End(how) == exit' = how

\* Every step is one of a process that is there.
Alive == exit = "running"

-----------------------------------------------------------------------------
(* OnStartedLeading and OnStoppedLeading. *)

StartLeading ==
  /\ leader = "electing"
  /\ leader' = "leading"
  /\ stopCh' = "open"
  /\ handler' = "starting"
  /\ UNCHANGED <<held, signal, down, exit>>

\* Run: the informers and the worker start.
Run ==
  /\ leader = "leading"
  /\ leader' = "running"
  /\ held' = TRUE
  /\ UNCHANGED <<handler, stopCh, signal, down, exit>>

\* Run returns, and shuts the queue down.
Return ==
  /\ leader = "running" /\ stopCh = "closed"
  /\ leader' = "returned"
  /\ down' = TRUE
  /\ UNCHANGED <<handler, stopCh, held, signal, exit>>

\* The deferred close(stopCh).
CloseAtReturn ==
  /\ leader = "returned"
  /\ leader' = "ended"
  /\ IF stopCh = "open" THEN stopCh' = "closed" /\ UNCHANGED exit
                        ELSE End("panic") /\ UNCHANGED stopCh
  /\ UNCHANGED <<handler, held, signal, down>>

\* klog.Fatal("lost master").
LoseLease ==
  /\ leader # "electing"
  /\ End("fatal")
  /\ UNCHANGED <<leader, handler, stopCh, held, signal, down>>

-----------------------------------------------------------------------------
(* handleSigterm and Stop. *)

\* signal.Notify.
Notify ==
  /\ handler = "starting"
  /\ handler' = "waiting"
  /\ UNCHANGED <<leader, stopCh, held, signal, down, exit>>

\* A SIGTERM nobody is notified of ends the process.
SendSigterm ==
  /\ ~signal
  /\ signal' = TRUE
  /\ IF handler = "waiting" THEN UNCHANGED exit ELSE End("terminated")
  /\ UNCHANGED <<leader, handler, stopCh, held, down>>

\* Stop, under stopLock: close(ic.stopCh) ...
StopCloses ==
  /\ handler = "waiting" /\ signal
  /\ handler' = "stopping"
  /\ IF held /\ stopCh = "open" THEN stopCh' = "closed" /\ UNCHANGED exit
                                ELSE End("panic") /\ UNCHANGED stopCh
  /\ UNCHANGED <<leader, held, signal, down>>

\* ... then queue.ShutDown.
StopShutsDown ==
  /\ handler = "stopping"
  /\ handler' = "delaying"
  /\ down' = TRUE
  /\ UNCHANGED <<leader, stopCh, held, signal, exit>>

\* os.Exit(0), after the delay.
Exit ==
  /\ handler = "delaying"
  /\ End("exit 0")
  /\ UNCHANGED <<leader, handler, stopCh, held, signal, down>>

-----------------------------------------------------------------------------

Next ==
  /\ Alive
  /\ \/ StartLeading \/ Run \/ Return \/ CloseAtReturn \/ LoseLease
     \/ Notify \/ SendSigterm \/ StopCloses \/ StopShutsDown \/ Exit

LifeSpec == Init /\ [][Next]_lifeVars

-----------------------------------------------------------------------------
(* Properties. *)

\* "Stop gracefully stops controller": a controller that is running when
\* SIGTERM comes ends with its exit code, or with its lease, never with a panic.
GracefulExit == held => exit # "panic"
=============================================================================
