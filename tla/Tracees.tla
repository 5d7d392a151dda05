------------------------------ MODULE Tracees ------------------------------
(***************************************************************************)
(* The tracees of a tracer, from fork to reaping: state_initialization()   *)
(* and exit_all() of core/state/state_transition.cpp, the signals that     *)
(* reach tracer and tracees, and run_tracer() and main() of main.cpp       *)
(* around the lock of FileLock.                                            *)
(*                                                                         *)
(* A tracer may be killed at any point, a signal handler may start between *)
(* any two steps, and a tracee may die of itself or be killed.  A process  *)
(* id is free for any other process as soon as its process was reaped.     *)
(***************************************************************************)
EXTENDS FileLock

CONSTANTS
  NP,          \* tracees of a tracer
  Traced,      \* the tracers that get as far as starting tracees
  Signals,     \* signals a tracee may stop with, other than syscall stops
  Suppressed   \* runtime_profile().ignored_signals

ASSUME TraceeAssumption == NP \in Nat \ {0} /\ Traced \subseteq Tracer

VARIABLES
  at,      \* main of the tracer: <<stage, tracee>>
  mode,    \* what runs: "off", "main", "return" from main, "exit" callbacks, or a handler: "term", "signal"
  loop,    \* terminate_tracees(): <<tracee, point>>
  pids,    \* pids[i] is not 0
  child,   \* the process forked as the i-th tracee, and later its pid
  worker   \* a second task of that process, made by create_thread_carrier()

tvars == <<at, mode, loop, pids, child, worker>>
vars == <<lvars, tvars>>

Index == 1..NP
(* "born" shares the tracer's process group, "apart" has its own, "armed"   *)
(* will be killed with its parent, "setup" is in start_tracee(), "stopped"  *)
(* waits to be traced and "traced" runs the program under ptrace.           *)
Setup    == {"born", "apart", "armed", "setup"}
Live     == Setup \cup {"stopped", "traced"}
Unreaped == Live \cup {"zombie"}
(* "reused": the pid now belongs to some other process.                     *)
Ended    == {"none", "gone", "reused"}

TInit ==
  /\ LInit
  /\ at = [p \in Traced |-> <<"lock", 1>>] /\ mode = [p \in Traced |-> "off"]
  /\ loop = [p \in Traced |-> <<1, "probe">>]
  /\ pids = [p \in Traced |-> [i \in Index |-> FALSE]]
  /\ child = [p \in Traced |-> [i \in Index |-> "none"]]
  /\ worker = [p \in Traced |-> [i \in Index |-> "none"]]

-----------------------------------------------------------------------------
(* SignalHandler::classify() and handle(): a signal is passed over only if  *)
(* the guest ignores it or the profile says so.                             *)
Classify(sig) == IF sig \in {"SEGV", "ABRT", "ILL", "FPE", "BUS"} THEN "FATAL" ELSE "OTHER"
Handle(sig, disposition) ==
  CASE disposition = "handler" -> "throw"
    [] disposition = "ignore"  -> IF Classify(sig) = "FATAL" THEN "throw" ELSE "special"
    [] disposition = "default" -> IF Classify(sig) = "FATAL" THEN "crash"
                                  ELSE IF sig \in Suppressed THEN "special" ELSE "throw"

Main(p, stage) == pc[p] = "in" /\ mode[p] = "main" /\ at[p][1] = stage
To(p, stage, i) == at' = [at EXCEPT ![p] = <<stage, i>>]
Becomes(p, i, state) == child' = [child EXCEPT ![p][i] = state]

(* tracer_owner, atexit(exit_all), signal(SIGTERM, exit_all), SIG_BLOCK.    *)
BeginInit(p) ==
  /\ Main(p, "lock") /\ To(p, "fork", 1)
  /\ UNCHANGED <<lvars, mode, loop, pids, child, worker>>

Fork(p) ==
  /\ Main(p, "fork")
  /\ \/ Becomes(p, at[p][2], "born") /\ To(p, "record", at[p][2])
     \/ UNCHANGED child /\ To(p, "failed", 1)
  /\ UNCHANGED <<lvars, mode, loop, pids, worker>>

(* pids[i] = child and setpgid(child, child), which may be refused unless   *)
(* the child was faster.  After the last one SIGTERM is let in again.       *)
Record(p) ==
  /\ Main(p, "record")
  /\ LET i == at[p][2] IN
     /\ pids' = [pids EXCEPT ![p][i] = TRUE]
     /\ \/ /\ Becomes(p, i, IF child[p][i] = "born" THEN "apart" ELSE child[p][i])
           /\ IF i < NP THEN To(p, "fork", i + 1) ELSE To(p, "init", 1)
        \/ child[p][i] = "born" /\ UNCHANGED child /\ To(p, "failed", 1)
  /\ UNCHANGED <<lvars, mode, loop, worker>>

(* init_tracee_state(): the wait for the first stop, then PTRACE_O_EXITKILL. *)
FirstStop(p) ==
  /\ Main(p, "init")
  /\ LET i == at[p][2] IN
     \/ child[p][i] = "stopped" /\ Becomes(p, i, "traced") /\ To(p, "prelude", i)
     \/ child[p][i] = "zombie" /\ Becomes(p, i, "gone") /\ To(p, "failed", 1)
  /\ UNCHANGED <<lvars, mode, loop, pids, worker>>

(* extract_one_syscall() up to the boundary.  It throws when the tracee     *)
(* ends, stops with a signal that is not suppressed, creates a thread or    *)
(* changes its group, and when the boundary is not reached; so does the     *)
(* property check of the first state.                                       *)
Prelude(p) ==
  /\ Main(p, "prelude")
  /\ LET i == at[p][2] IN
     \/ /\ child[p][i] = "traced" /\ UNCHANGED child
        /\ IF i < NP THEN To(p, "init", i + 1) ELSE To(p, "run", 1)
     \/ child[p][i] = "traced" /\ UNCHANGED child /\ To(p, "failed", 1)
     \/ child[p][i] = "zombie" /\ Becomes(p, i, "gone") /\ To(p, "failed", 1)
  /\ UNCHANGED <<lvars, mode, loop, pids, worker>>

(* resume_startup_syscall() and ExecutionEngine::handle_signal(): during    *)
(* the search a fatal signal is a crash of the node, not an error.          *)
SignalStop(p) ==
  /\ \/ /\ Main(p, "prelude") /\ child[p][at[p][2]] = "traced"
        /\ \E sig \in Signals : Handle(sig, "default") # "special"
     \/ /\ Main(p, "run") /\ \E i \in Index : child[p][i] = "traced"
        /\ \E sig \in Signals, d \in {"default", "ignore", "handler"} : Handle(sig, d) = "throw"
  /\ To(p, "failed", 1)
  /\ UNCHANGED <<lvars, mode, loop, pids, child, worker>>

(* create_thread_carrier() for the second thread of a node.                 *)
AddWorker(p, i) ==
  /\ Main(p, "run") /\ child[p][i] = "traced" /\ worker[p][i] = "none"
  /\ worker' = [worker EXCEPT ![p][i] = "alive"]
  /\ UNCHANGED <<lvars, at, mode, loop, pids, child>>

(* do_single_syscall() meets the end of a task that was killed: the wait    *)
(* reaps it, and ptrace_right() panics; after a suppressed signal it is a   *)
(* crash or an error instead.  A leader is not reaped before its workers.   *)
MeetsEnd(p, i) ==
  /\ Main(p, "run")
  /\ \/ child[p][i] = "zombie" /\ worker[p][i] = "none" /\ Becomes(p, i, "gone") /\ UNCHANGED worker
     \/ worker[p][i] = "zombie" /\ worker' = [worker EXCEPT ![p][i] = "none"] /\ UNCHANGED child
  /\ \E stage \in {"panic", "failed", "run"} : To(p, stage, 1)
  /\ UNCHANGED <<lvars, mode, loop, pids>>

(* ui_mainloop() or worker_loop() returns or throws.                        *)
EndRun(p) ==
  /\ Main(p, "run") /\ \E stage \in {"quit", "failed"} : To(p, stage, 1)
  /\ UNCHANGED <<lvars, mode, loop, pids, child, worker>>

-----------------------------------------------------------------------------
(* The lock of a tracer, and the processes that have no tracees.            *)
Acquiring(p) ==
  /\ Acquires(p) /\ (p \in Traced => mode[p] = "main")
  /\ UNCHANGED tvars
Starting(p) ==
  /\ StartTracer(p)
  /\ p \in Traced => \A i \in Index : child[p][i] \in Ended
  /\ IF p \in Traced
     THEN /\ mode' = [mode EXCEPT ![p] = "main"]
          /\ child' = [child EXCEPT ![p] = [i \in Index |-> "none"]]
          /\ UNCHANGED <<at, loop, pids, worker>>
     ELSE UNCHANGED tvars
Others(p) ==
  /\ p \notin Traced /\ (Release(p) \/ Unlink(p) \/ Dies(p))
  /\ UNCHANGED tvars
Reaping(p) == Reaped(p) /\ UNCHANGED tvars

(* run_tracer() releases the lock and returns; so does main() after an      *)
(* error, in init_monitor() too, and run_tracer() when it is refused.       *)
Leave(p) ==
  /\ \/ pc[p] = "in" /\ at[p][1] \in {"lock", "failed", "quit"} /\ Release(p)
     \/ pc[p] = "refused" /\ UNCHANGED lvars
  /\ mode[p] = "main" /\ mode' = [mode EXCEPT ![p] = "return"]
  /\ UNCHANGED <<at, loop, pids, child, worker>>
(* unlink() of release(), called by main or by a handler.                   *)
Unlinks(p) == Unlink(p) /\ mode[p] \in {"return", "signal"} /\ UNCHANGED tvars

(* exit_all(void): the stores are shut down, whether or not that fails.     *)
BeginExit(p) ==
  /\ mode[p] = "return" /\ pc[p] \in {"left", "refused"}
  /\ mode' = [mode EXCEPT ![p] = "exit"] /\ loop' = [loop EXCEPT ![p] = <<1, "probe">>]
  /\ UNCHANGED <<lvars, at, pids, child, worker>>

(* cleanup_lock_on_signal(): release() and death by the signal.             *)
Signalled(p) ==
  /\ Release(p) /\ mode[p] # "signal" /\ mode' = [mode EXCEPT ![p] = "signal"]
  /\ UNCHANGED <<at, loop, pids, child, worker>>

(* The stages in which SIGTERM does not reach exit_all(int): at first it    *)
(* has the handler above, then it is blocked.                               *)
Protected == {"lock", "fork", "record"}
Terminated(p) ==
  /\ pc[p] # "off" /\ mode[p] # "term" /\ at[p][1] \notin Protected
  /\ mode' = [mode EXCEPT ![p] = "term"] /\ loop' = [loop EXCEPT ![p] = <<1, "probe">>]
  /\ UNCHANGED <<lvars, at, pids, child, worker>>

-----------------------------------------------------------------------------
(* terminate_tracees(), for the i-th tracee from point on.                  *)
Cleaning(p, point) == mode[p] \in {"exit", "term"} /\ loop[p][2] = point
Goto(p, point) == loop' = [loop EXCEPT ![p] = <<loop[p][1], point>>]

(* waitpid(child, WNOHANG) gives 0 or a stop for a child that is to be      *)
(* killed, the pid for one that has ended, and ECHILD for any other pid.    *)
IsOurs(p, i) == child[p][i] \in Live \/ (child[p][i] = "zombie" /\ worker[p][i] # "none")
Probe(p) ==
  /\ Cleaning(p, "probe")
  /\ LET i == loop[p][1] IN
     /\ Goto(p, IF ~pids[p][i] THEN "clear" ELSE IF IsOurs(p, i) THEN "kill" ELSE "clear")
     /\ IF pids[p][i] /\ child[p][i] = "zombie" /\ worker[p][i] = "none"
        THEN Becomes(p, i, "gone") ELSE UNCHANGED child
  /\ UNCHANGED <<lvars, at, mode, pids, worker>>

(* kill(child, SIGKILL), which ends every task of the process.              *)
Kill(p) ==
  /\ Cleaning(p, "kill") /\ Goto(p, "wait")
  /\ LET i == loop[p][1] IN
     /\ Becomes(p, i, IF child[p][i] \in Live THEN "zombie" ELSE child[p][i])
     /\ worker' = [worker EXCEPT ![p][i] = IF @ = "alive" THEN "zombie" ELSE @]
  /\ UNCHANGED <<lvars, at, mode, pids>>

(* waitpid() for the group until nothing is left of it; for the child       *)
(* alone, which then has no workers, if it never got a group of its own.    *)
WaitGroup(p) ==
  /\ Cleaning(p, "wait")
  /\ LET i == loop[p][1] IN
     \/ /\ worker[p][i] # "none" /\ worker' = [worker EXCEPT ![p][i] = "none"]
        /\ UNCHANGED <<child, loop>>
     \/ /\ worker[p][i] = "none" /\ child[p][i] = "zombie" /\ Becomes(p, i, "gone")
        /\ UNCHANGED <<worker, loop>>
     \/ /\ child[p][i] # "zombie" /\ Goto(p, "clear") /\ UNCHANGED <<child, worker>>
  /\ UNCHANGED <<lvars, at, mode, pids>>

(* pids[i] = 0 and the next one.                                            *)
Clear(p) ==
  /\ Cleaning(p, "clear")
  /\ LET i == loop[p][1] IN
     /\ pids' = [pids EXCEPT ![p][i] = FALSE]
     /\ loop' = [loop EXCEPT ![p] = IF i < NP THEN <<i + 1, "probe">> ELSE <<i, "done">>]
  /\ UNCHANGED <<lvars, at, mode, child, worker>>

terminate_tracees(p) == Probe(p) \/ Kill(p) \/ WaitGroup(p) \/ Clear(p)

(* The end of a tracer: _exit(), a signal or SIGKILL.  PR_SET_PDEATHSIG and *)
(* PTRACE_O_EXITKILL take its tracees along, and init reaps what is left.   *)
TracerDies(p) ==
  /\ Dies(p)
  /\ child' = [child EXCEPT ![p] = [i \in Index |->
        IF child[p][i] \in Unreaped \ {"born", "apart"} THEN "gone" ELSE child[p][i]]]
  /\ worker' = [worker EXCEPT ![p] = [i \in Index |-> "none"]]
  /\ mode' = [mode EXCEPT ![p] = "off"] /\ To(p, "lock", 1)
  /\ loop' = [loop EXCEPT ![p] = <<1, "probe">>]
  /\ pids' = [pids EXCEPT ![p] = [i \in Index |-> FALSE]]

-----------------------------------------------------------------------------
(* The forked process.  A parent that is gone does not reap.                *)
EndOf(p) == IF life[p] = "alive" THEN "zombie" ELSE "gone"

(* setpgid(0, 0), prctl(PR_SET_PDEATHSIG), and only then getppid().         *)
ChildApart(p, i) == child[p][i] = "born" /\ Becomes(p, i, "apart")
ChildArm(p, i) == child[p][i] = "apart" /\ Becomes(p, i, "armed")
ChildChecksMutant(p, i) == child[p][i] = "armed" /\ Becomes(p, i, "setup")
ChildChecks(p, i) ==
  /\ child[p][i] = "armed"
  /\ Becomes(p, i, IF life[p] = "alive" THEN "setup" ELSE "gone")
(* start_tracee() up to raise(SIGSTOP).                                     *)
start_tracee(p, i) == child[p][i] = "setup" /\ Becomes(p, i, "stopped")
ChildStep(p, i) ==
  /\ ChildApart(p, i) \/ ChildArm(p, i) \/ ChildChecks(p, i) \/ start_tracee(p, i)
  /\ UNCHANGED <<lvars, at, mode, loop, pids, worker>>

(* _exit() before exec, a SIGTERM to the fork, which owns no tracees, or a  *)
(* SIGKILL from anywhere.                                                   *)
ChildDies(p, i) ==
  /\ child[p][i] \in Live /\ Becomes(p, i, EndOf(p))
  /\ worker' = [worker EXCEPT ![p][i] = IF @ = "alive" THEN "zombie" ELSE @]
  /\ UNCHANGED <<lvars, at, mode, loop, pids>>

Reuse(p, i) ==
  /\ child[p][i] = "gone" /\ Becomes(p, i, "reused")
  /\ UNCHANGED <<lvars, at, mode, loop, pids, worker>>

state_initialization(p) == BeginInit(p) \/ Fork(p) \/ Record(p) \/ FirstStop(p) \/ Prelude(p)

TNext ==
  \/ \E p \in Tracer : Starting(p) \/ Acquiring(p) \/ Others(p)
  \/ \E p \in Pids : Reaping(p)
  \/ \E p \in Traced :
       \/ state_initialization(p) \/ SignalStop(p) \/ EndRun(p)
       \/ Leave(p) \/ Unlinks(p) \/ BeginExit(p) \/ Signalled(p) \/ Terminated(p)
       \/ terminate_tracees(p) \/ TracerDies(p)
       \/ \E i \in Index : \/ AddWorker(p, i) \/ MeetsEnd(p, i)
                           \/ ChildStep(p, i) \/ ChildDies(p, i) \/ Reuse(p, i)

TSpec == TInit /\ [][TNext]_vars

-----------------------------------------------------------------------------
(* "only kill an owned child": whatever ended, was reaped or was replaced   *)
(* meanwhile, and whichever handler interrupted which, terminate_tracees()  *)
(* sends SIGKILL only to a process the tracer forked and has not reaped.    *)
KillsOnlyItsOwn ==
  \A p \in Traced : Cleaning(p, "kill") => child[p][loop[p][1]] \in Unreaped

(* Nothing is left behind: when exit_all() is through, from a handler or at *)
(* exit, every process the tracer ever forked is reaped, its threads too;   *)
(* and a tracer killed at any moment leaves no process that waits to be     *)
(* traced or runs the program, only a fork that will see its parent gone.   *)
NoneLeftBehind ==
  \A p \in Traced, i \in Index :
    /\ Cleaning(p, "done") => child[p][i] \in Ended /\ worker[p][i] = "none"
    /\ life[p] # "alive" => child[p][i] \in Ended \cup {"born", "apart", "armed"}

(* exit_all() and the kernel's ties between parent and child do both halves *)
(* of the job: no foreign process is hit and no tracee survives.            *)
CleansUpItsOwn == KillsOnlyItsOwn /\ NoneLeftBehind

=============================================================================
