----------------------------- MODULE KarimInit -----------------------------
(***************************************************************************)
(* karim-init (init/init.c), PID 1: its boot steps, the loop that starts   *)
(* and watches karim-svcd, and the SIGCHLD handler that may interrupt the  *)
(* main program between any two steps and reaps every zombie it finds.     *)
(*                                                                         *)
(* PID 1 has one thread, so the handler is one step: nothing of main runs  *)
(* during it, and a child that exits meanwhile leaves SIGCHLD pending.     *)
(***************************************************************************)
EXTENDS Integers

CONSTANTS
  MaxPid,      \* bound: children PID 1 ever has
  ExitStatus   \* how a child may end: n >= 0 exited, -s killed by signal s

Pid == 1..MaxPid
NoPid == -1
ShutdownCode == {64, 65, 66}

ASSUME InitAssumption == MaxPid \in Nat /\ ExitStatus \subseteq Int

VARIABLES
  pc,          \* where main is
  debug,       \* karim.debug on the kernel command line
  executable,  \* the programs access(X_OK) succeeds for
  kind, child, status,   \* the children: what they run, their state, how they ended
  sigPending,  \* SIGCHLD is pending
  g_svcd_pid,
  pid,         \* the local pid of main or of spawn_debug_shell
  backoff_sec

kernelVars == <<kind, child, status>>
bootVars == <<debug, executable>>
vars == <<pc, bootVars, kernelVars, sigPending, g_svcd_pid, pid, backoff_sec>>

Kind == {"none", "test", "shell", "svcd", "orphan"}
Pc == {"test", "usleep", "debug", "shell", "shellwait", "check", "fork",
       "forksleep", "assign", "while", "wait", "drain", "sleep", "idle",
       "pause", "return"}

TypeOK ==
  /\ pc \in Pc
  /\ debug \in BOOLEAN /\ executable \subseteq {"sh", "svcd"}
  /\ kind \in [Pid -> Kind]
  /\ child \in [Pid -> {"unused", "running", "zombie", "reaped"}]
  /\ status \in [Pid -> Int]
  /\ sigPending \in BOOLEAN
  /\ g_svcd_pid \in Pid \cup {NoPid}
  /\ pid \in Pid \cup {NoPid}
  /\ backoff_sec \in {1, 2, 4, 8, 16}

\* setup_signals, mount_pseudofs, parse_kernel_cmdline, init_entropy_pool and
\* sync_rtc_time ran; none of their failures stops the boot.
Init ==
  /\ pc = "test"
  /\ debug \in BOOLEAN /\ executable \in SUBSET {"sh", "svcd"}
  /\ kind = [p \in Pid |-> "none"]
  /\ child = [p \in Pid |-> "unused"]
  /\ status = [p \in Pid |-> 0]
  /\ sigPending = FALSE
  /\ g_svcd_pid = NoPid
  /\ pid = NoPid
  /\ backoff_sec = 1

-----------------------------------------------------------------------------
(* The kernel: fork, wait and SIGCHLD                                      *)

Set(f, x, v) == [f EXCEPT ![x] = v]
Zombies == {p \in Pid : child[p] = "zombie"}
Children == {p \in Pid : child[p] \in {"running", "zombie"}}

\* Pids are handed out in order.
NewChild(k, p) ==
  /\ child[p] = "unused"
  /\ \A q \in Pid : q < p => child[q] # "unused"
  /\ kind' = Set(kind, p, k)
  /\ child' = Set(child, p, "running")
  /\ UNCHANGED status

\* while (waitpid(-1, &st, WNOHANG) > 0);
ReapAll == child' = [p \in Pid |-> IF p \in Zombies THEN "reaped" ELSE child[p]]

\* Only the supervisor's status is ever looked at.
ChildExit(p, st) ==
  /\ child[p] = "running"
  /\ child' = Set(child, p, "zombie")
  /\ status' = IF kind[p] = "svcd" THEN Set(status, p, st) ELSE status
  /\ sigPending' = TRUE
  /\ UNCHANGED <<pc, bootVars, kind, g_svcd_pid, pid, backoff_sec>>

\* A grandchild loses its parent and becomes a child of PID 1.
Reparent(p) ==
  /\ NewChild("orphan", p)
  /\ UNCHANGED <<pc, bootVars, sigPending, g_svcd_pid, pid, backoff_sec>>

\* Mutant: the handler does not tell main that svcd is gone.
SigchldHandlerSilent ==
  /\ sigPending
  /\ sigPending' = FALSE
  /\ ReapAll
  /\ UNCHANGED <<pc, bootVars, kind, status, g_svcd_pid, pid, backoff_sec>>

\* Mutant: one waitpid per signal.
SigchldHandlerOne ==
  /\ sigPending
  /\ sigPending' = FALSE
  /\ \/ \E p \in Zombies :
          /\ child' = Set(child, p, "reaped")
          /\ g_svcd_pid' = IF g_svcd_pid = p THEN NoPid ELSE g_svcd_pid
     \/ Zombies = {} /\ UNCHANGED <<child, g_svcd_pid>>
  /\ UNCHANGED <<pc, bootVars, kind, status, pid, backoff_sec>>

sigchld_handler ==
  /\ sigPending
  /\ sigPending' = FALSE
  /\ ReapAll
  /\ g_svcd_pid' = IF g_svcd_pid \in Zombies THEN NoPid ELSE g_svcd_pid
  /\ UNCHANGED <<pc, bootVars, kind, status, pid, backoff_sec>>

-----------------------------------------------------------------------------
(* Boot: the reaper test and the debug shell                               *)

test_zombie_reaper ==
  /\ pc = "test"
  /\ \/ UNCHANGED kernelVars                        \* fork fails
     \/ \E p \in Pid : NewChild("test", p)
  /\ pc' = "usleep"
  /\ UNCHANGED <<bootVars, sigPending, g_svcd_pid, pid, backoff_sec>>

TestDone ==
  /\ pc = "usleep"
  /\ pc' = IF debug THEN "debug" ELSE "check"
  /\ UNCHANGED <<bootVars, kernelVars, sigPending, g_svcd_pid, pid, backoff_sec>>

\* Called before the supervisor in debug mode, else only instead of it.
spawn_debug_shell ==
  /\ pc \in {"debug", "shell"}
  /\ \/ /\ "sh" \in executable
        /\ \E p \in Pid : NewChild("shell", p) /\ pid' = p
        /\ pc' = "shellwait"
     \/ /\ pc' = IF pc = "debug" THEN "check" ELSE "idle"   \* no shell or no fork
        /\ UNCHANGED <<kernelVars, pid>>
  /\ UNCHANGED <<bootVars, sigPending, g_svcd_pid, backoff_sec>>

\* waitpid(pid): the shell is gone, reaped here or by the handler before.
ShellDone ==
  /\ pc = "shellwait"
  /\ child[pid] \in {"zombie", "reaped"}
  /\ child' = Set(child, pid, "reaped")
  /\ pc' = IF debug THEN "check" ELSE "idle"
  /\ UNCHANGED <<bootVars, kind, status, sigPending, g_svcd_pid, pid, backoff_sec>>

CheckSupervisor ==
  /\ pc = "check"
  /\ pc' = IF "svcd" \in executable THEN "fork"
           ELSE IF debug THEN "idle" ELSE "shell"
  /\ UNCHANGED <<bootVars, kernelVars, sigPending, g_svcd_pid, pid, backoff_sec>>

-----------------------------------------------------------------------------
(* The supervisor loop                                                     *)

ForkSupervisor ==
  /\ pc = "fork"
  /\ \/ /\ \E p \in Pid : NewChild("svcd", p) /\ pid' = p
        /\ pc' = "assign"
     \/ /\ pc' = "forksleep"                        \* fork fails
        /\ UNCHANGED <<kernelVars, pid>>
  /\ UNCHANGED <<bootVars, sigPending, g_svcd_pid, backoff_sec>>

\* sleep(2) ends, by time or by a signal.
ForkRetry ==
  /\ pc = "forksleep"
  /\ pc' = "fork"
  /\ UNCHANGED <<bootVars, kernelVars, sigPending, g_svcd_pid, pid, backoff_sec>>

\* g_svcd_pid = pid, whether or not the child still lives.
AssignPid ==
  /\ pc = "assign"
  /\ g_svcd_pid' = pid
  /\ pc' = "while"
  /\ UNCHANGED <<bootVars, kernelVars, sigPending, pid, backoff_sec>>

\* while (g_svcd_pid == pid)
WhileSupervisor ==
  /\ pc = "while"
  /\ pc' = IF g_svcd_pid = pid THEN "wait" ELSE "drain"
  /\ UNCHANGED <<bootVars, kernelVars, sigPending, g_svcd_pid, pid, backoff_sec>>

\* Mutant: the loop ends with whichever child is reaped.
WaitReturnsAny(p) ==
  /\ pc = "wait"
  /\ p \in Zombies
  /\ child' = Set(child, p, "reaped")
  /\ g_svcd_pid' = NoPid
  /\ pc' = IF status[p] \in ShutdownCode THEN "return" ELSE "drain"
  /\ UNCHANGED <<bootVars, kind, status, sigPending, pid, backoff_sec>>

\* waitpid(-1, &status, 0) returns a child.
WaitReturns(p) ==
  /\ pc = "wait"
  /\ p \in Zombies
  /\ child' = Set(child, p, "reaped")
  /\ IF p = pid
     THEN /\ g_svcd_pid' = NoPid
          /\ pc' = IF status[p] \in ShutdownCode THEN "return" ELSE "drain"
     ELSE pc' = "while" /\ UNCHANGED g_svcd_pid
  /\ UNCHANGED <<bootVars, kind, status, sigPending, pid, backoff_sec>>

\* ECHILD: no children are left.
WaitFails ==
  /\ pc = "wait"
  /\ Children = {}
  /\ pc' = "while"
  /\ UNCHANGED <<bootVars, kernelVars, sigPending, g_svcd_pid, pid, backoff_sec>>

Drain ==
  /\ pc = "drain"
  /\ ReapAll
  /\ pc' = "sleep"
  /\ UNCHANGED <<bootVars, kind, status, sigPending, g_svcd_pid, pid, backoff_sec>>

\* Mutant: the backoff grows by one second.
BackoffLinear ==
  /\ pc = "sleep"
  /\ backoff_sec' = IF backoff_sec < 10 THEN backoff_sec + 1 ELSE backoff_sec
  /\ pc' = "fork"
  /\ UNCHANGED <<bootVars, kernelVars, sigPending, g_svcd_pid, pid>>

\* sleep(backoff_sec) ends, by time or by a signal.
Backoff ==
  /\ pc = "sleep"
  /\ backoff_sec' = IF backoff_sec < 10 THEN 2 * backoff_sec ELSE backoff_sec
  /\ pc' = "fork"
  /\ UNCHANGED <<bootVars, kernelVars, sigPending, g_svcd_pid, pid>>

-----------------------------------------------------------------------------
(* Without a supervisor: reap, pause, reap                                 *)

IdleReap ==
  /\ pc = "idle"
  /\ ReapAll
  /\ pc' = "pause"
  /\ UNCHANGED <<bootVars, kind, status, sigPending, g_svcd_pid, pid, backoff_sec>>

\* pause() ends after the handler has run.
PauseEnds ==
  /\ pc = "pause"
  /\ sigPending
  /\ sigPending' = FALSE
  /\ ReapAll
  /\ pc' = "idle"
  /\ UNCHANGED <<bootVars, kind, status, g_svcd_pid, pid, backoff_sec>>

MainStep ==
  \/ test_zombie_reaper \/ TestDone \/ spawn_debug_shell \/ ShellDone
  \/ CheckSupervisor \/ ForkSupervisor \/ ForkRetry \/ AssignPid
  \/ WhileSupervisor \/ (\E p \in Pid : WaitReturns(p)) \/ WaitFails
  \/ Drain \/ Backoff \/ IdleReap \/ PauseEnds

\* When main returns, PID 1 is gone and the kernel panics.
Next ==
  /\ pc # "return"
  /\ \/ MainStep
     \/ pc # "pause" /\ sigchld_handler
     \/ \E p \in Pid : Reparent(p) \/ (\E st \in ExitStatus : ChildExit(p, st))

Spec == Init /\ [][Next]_vars

-----------------------------------------------------------------------------
(* Properties *)

\* A child of PID 1 that runs, or ran, the supervisor and is not reaped yet.
Supervisors == {p \in Children : kind[p] = "svcd"}

\* There are never two supervisors: the loop forks again only once the last
\* one was reaped, whether waitpid, the handler or the drain loop got it.
OneSupervisor == \A p, q \in Supervisors : p = q

\* A signal handler runs as soon as the thread is scheduled, and the main
\* program is never starved: weak fairness of both.
Fairness ==
  /\ WF_vars(pc # "return" /\ MainStep)
  /\ WF_vars(pc \notin {"return", "pause"} /\ sigchld_handler)
FairSpec == Spec /\ Fairness

\* PID 1 leaves no zombie, whichever of its calls the exit interrupts.
ZombiesReaped == \A p \in Pid : child[p] = "zombie" ~> child[p] = "reaped" \/ pc = "return"

\* Once main has noted its pid, the end of the supervisor brings main back to
\* fork, or makes it return, unless the handler reaps it between the test of
\* the loop and a waitpid that then blocks on another child.
DeathNoticed ==
  \A p \in Pid : (child[p] = "zombie" /\ g_svcd_pid = p) ~>
    \/ pc \in {"fork", "return"}
    \/ pc = "wait" /\ child[p] = "reaped" /\ Children # {}

-----------------------------------------------------------------------------
(* What the documentation says of PID 1                                    *)

\* "anything else, or a signal | crash | clean up orphan processes, restart
\* karim-svcd after backoff": no crash of the supervisor goes unnoticed.
CrashRestarts ==
  \A p \in Pid : (kind[p] = "svcd" /\ child[p] = "zombie" /\ status[p] \notin ShutdownCode)
                   ~> pc \in {"fork", "return"}
=============================================================================
