-------------------------- MODULE KarimInitProofs --------------------------
(***************************************************************************)
(* PID 1 never has two supervisors, for every number of children and every *)
(* way they may end.                                                       *)
(***************************************************************************)
EXTENDS KarimInit, TLAPS

Unreaped(p) == kind[p] = "svcd" /\ child[p] \in {"running", "zombie"}

\* A supervisor that is not reaped is the one main watches; and once main has
\* stored its pid, g_svcd_pid still holds it.
WatchInv ==
  \A p \in Pid : Unreaped(p) =>
    /\ pid = p
    /\ pc \in {"assign", "while", "wait"}
    /\ pc # "assign" => g_svcd_pid = p

\* The local pid names a child while main waits for it; an unused pid has no kind.
PidInv ==
  /\ pc \in {"shellwait", "assign", "while", "wait"} => pid \in Pid
  /\ pc = "shellwait" => kind[pid] = "shell"
  /\ \A p \in Pid : child[p] = "unused" => kind[p] = "none"

Inv == TypeOK /\ PidInv /\ WatchInv

USE DEF Set

\* What a new child changes, without the order in which pids are handed out.
LEMMA NewChildTypes ==
  ASSUME TypeOK, NEW k \in Kind, NEW p \in Pid, NewChild(k, p)
  PROVE  /\ kind' = Set(kind, p, k) /\ kind' \in [Pid -> Kind]
         /\ child' = Set(child, p, "running") /\ child[p] = "unused"
         /\ child' \in [Pid -> {"unused", "running", "zombie", "reaped"}]
         /\ status' = status
  BY DEF NewChild, TypeOK

\* Reaping only turns zombies into reaped children.
LEMMA ReapAllTypes ==
  ASSUME TypeOK, ReapAll
  PROVE  /\ child' \in [Pid -> {"unused", "running", "zombie", "reaped"}]
         /\ \A p \in Pid : child'[p] = IF child[p] = "zombie" THEN "reaped" ELSE child[p]
  BY DEF ReapAll, TypeOK, Zombies

LEMMA InvInit == Init => Inv
<1> SUFFICES ASSUME Init PROVE Inv
  OBVIOUS
<1>1. TypeOK
  <2>1. debug \in BOOLEAN /\ sigPending \in BOOLEAN /\ executable \subseteq {"sh", "svcd"}
    BY Zenon DEF Init
  <2>2. status \in [Pid -> Int]
    BY DEF Init
  <2>3. QED
    BY <2>1, <2>2 DEF Init, TypeOK, Pc, Kind
<1>2. PidInv /\ WatchInv
  BY DEF Init, PidInv, WatchInv, Unreaped
<1>3. QED
  BY <1>1, <1>2 DEF Inv

LEMMA InvStep == Inv /\ [Next]_vars => Inv'
<1> SUFFICES ASSUME Inv, [Next]_vars PROVE Inv'
  OBVIOUS
<1>0. TypeOK /\ PidInv /\ WatchInv
  BY DEF Inv
<1> USE DEF bootVars, kernelVars, Pc
<1>1. ASSUME test_zombie_reaper PROVE Inv'
  <2>1. CASE UNCHANGED kernelVars
    BY <1>0, <1>1, <2>1 DEF test_zombie_reaper, Inv, TypeOK, PidInv, WatchInv, Unreaped
  <2>2. ASSUME NEW p \in Pid, NewChild("test", p) PROVE Inv'
    <3>1. /\ kind' = Set(kind, p, "test") /\ kind' \in [Pid -> Kind]
          /\ child' = Set(child, p, "running") /\ child[p] = "unused"
          /\ child' \in [Pid -> {"unused", "running", "zombie", "reaped"}] /\ status' = status
      BY <1>0, <2>2, NewChildTypes DEF Kind
    <3>2. QED
      BY <1>0, <1>1, <3>1 DEF test_zombie_reaper, Inv, TypeOK, PidInv, WatchInv, Unreaped
  <2>3. QED
    BY <1>1, <2>1, <2>2 DEF test_zombie_reaper
<1>2. ASSUME TestDone PROVE Inv'
  BY <1>0, <1>2 DEF TestDone, Inv, TypeOK, PidInv, WatchInv, Unreaped
<1>3. ASSUME spawn_debug_shell PROVE Inv'
  <2>1. CASE UNCHANGED <<kernelVars, pid>> /\ pc' \in {"check", "idle"}
    BY <1>0, <1>3, <2>1 DEF spawn_debug_shell, Inv, TypeOK, PidInv, WatchInv, Unreaped
  <2>2. ASSUME NEW p \in Pid, NewChild("shell", p), pid' = p, pc' = "shellwait" PROVE Inv'
    <3>1. /\ kind' = Set(kind, p, "shell") /\ kind' \in [Pid -> Kind]
          /\ child' = Set(child, p, "running") /\ child[p] = "unused"
          /\ child' \in [Pid -> {"unused", "running", "zombie", "reaped"}] /\ status' = status
      BY <1>0, <2>2, NewChildTypes DEF Kind
    <3>2. TypeOK' /\ PidInv'
      BY <1>0, <1>3, <2>2, <3>1 DEF spawn_debug_shell, TypeOK, PidInv
    <3>3. WatchInv'
      BY <1>0, <1>3, <2>2, <3>1 DEF spawn_debug_shell, TypeOK, PidInv, WatchInv, Unreaped
    <3>4. QED
      BY <3>2, <3>3 DEF Inv
  <2>3. QED
    BY <1>3, <2>1, <2>2 DEF spawn_debug_shell
<1>4. ASSUME ShellDone PROVE Inv'
  BY <1>0, <1>4 DEF ShellDone, Inv, TypeOK, PidInv, WatchInv, Unreaped
<1>5. ASSUME CheckSupervisor PROVE Inv'
  BY <1>0, <1>5 DEF CheckSupervisor, Inv, TypeOK, PidInv, WatchInv, Unreaped
<1>6. ASSUME ForkSupervisor PROVE Inv'
  <2>1. CASE UNCHANGED <<kernelVars, pid>> /\ pc' = "forksleep"
    BY <1>0, <1>6, <2>1 DEF ForkSupervisor, Inv, TypeOK, PidInv, WatchInv, Unreaped
  <2>2. ASSUME NEW p \in Pid, NewChild("svcd", p), pid' = p, pc' = "assign" PROVE Inv'
    <3>1. /\ kind' = Set(kind, p, "svcd") /\ kind' \in [Pid -> Kind]
          /\ child' = Set(child, p, "running") /\ child[p] = "unused"
          /\ child' \in [Pid -> {"unused", "running", "zombie", "reaped"}] /\ status' = status
      BY <1>0, <2>2, NewChildTypes DEF Kind
    <3>2. TypeOK' /\ PidInv'
      BY <1>0, <1>6, <2>2, <3>1 DEF ForkSupervisor, TypeOK, PidInv
    <3>3. \A q \in Pid : ~Unreaped(q)
      BY <1>0, <1>6 DEF ForkSupervisor, WatchInv
    <3>4. WatchInv'
      BY <1>0, <2>2, <3>1, <3>3 DEF TypeOK, WatchInv, Unreaped
    <3>5. QED
      BY <3>2, <3>4 DEF Inv
  <2>3. QED
    BY <1>6, <2>1, <2>2 DEF ForkSupervisor
<1>7. ASSUME ForkRetry PROVE Inv'
  BY <1>0, <1>7 DEF ForkRetry, Inv, TypeOK, PidInv, WatchInv, Unreaped
<1>8. ASSUME AssignPid PROVE Inv'
  BY <1>0, <1>8 DEF AssignPid, Inv, TypeOK, PidInv, WatchInv, Unreaped
<1>9. ASSUME WhileSupervisor PROVE Inv'
  BY <1>0, <1>9 DEF WhileSupervisor, Inv, TypeOK, PidInv, WatchInv, Unreaped
<1>10. ASSUME NEW p \in Pid, WaitReturns(p) PROVE Inv'
  <2>1. TypeOK' /\ PidInv'
    BY <1>0, <1>10 DEF WaitReturns, TypeOK, PidInv, Zombies
  <2>2. WatchInv'
    BY <1>0, <1>10 DEF WaitReturns, TypeOK, WatchInv, Unreaped, Zombies
  <2>3. QED
    BY <2>1, <2>2 DEF Inv
<1>11. ASSUME WaitFails PROVE Inv'
  BY <1>0, <1>11 DEF WaitFails, Inv, TypeOK, PidInv, WatchInv, Unreaped
<1>12. ASSUME Drain PROVE Inv'
  BY <1>0, <1>12, ReapAllTypes DEF Drain, Inv, TypeOK, PidInv, WatchInv, Unreaped
<1>13. ASSUME Backoff PROVE Inv'
  BY <1>0, <1>13 DEF Backoff, Inv, TypeOK, PidInv, WatchInv, Unreaped
<1>14. ASSUME IdleReap PROVE Inv'
  BY <1>0, <1>14, ReapAllTypes DEF IdleReap, Inv, TypeOK, PidInv, WatchInv, Unreaped
<1>15. ASSUME PauseEnds PROVE Inv'
  BY <1>0, <1>15, ReapAllTypes DEF PauseEnds, Inv, TypeOK, PidInv, WatchInv, Unreaped
<1>16. ASSUME sigchld_handler PROVE Inv'
  <2>1. ReapAll /\ UNCHANGED <<pc, bootVars, kind, status, pid, backoff_sec>>
    BY <1>16 DEF sigchld_handler
  <2>2. TypeOK' /\ PidInv'
    <3>1. child' \in [Pid -> {"unused", "running", "zombie", "reaped"}]
          /\ \A p \in Pid : child'[p] = "unused" => child[p] = "unused"
      BY <1>0, <2>1, ReapAllTypes
    <3>2. g_svcd_pid' \in {g_svcd_pid, NoPid} /\ sigPending' = FALSE
      BY <1>16 DEF sigchld_handler
    <3>3. TypeOK'
      BY <1>0, <2>1, <3>1, <3>2 DEF TypeOK, bootVars
    <3>4. PidInv'
      BY <1>0, <2>1, <3>1 DEF PidInv
    <3>5. QED
      BY <3>3, <3>4
  <2>3. ASSUME NEW p \in Pid, child[p] # "zombie", g_svcd_pid = p PROVE g_svcd_pid' = p
    BY <1>16, <2>3 DEF sigchld_handler, Zombies
  <2>4. WatchInv'
    BY <1>0, <2>1, <2>3, ReapAllTypes DEF WatchInv, Unreaped
  <2>5. QED
    BY <2>2, <2>4 DEF Inv
<1>17. ASSUME NEW p \in Pid, Reparent(p) PROVE Inv'
  <2>1. /\ kind' = Set(kind, p, "orphan") /\ kind' \in [Pid -> Kind]
        /\ child' = Set(child, p, "running") /\ child[p] = "unused"
        /\ child' \in [Pid -> {"unused", "running", "zombie", "reaped"}] /\ status' = status
    BY <1>0, <1>17, NewChildTypes DEF Reparent, Kind
  <2>2. kind[p] = "none"
    BY <1>0, <2>1 DEF PidInv
  <2>3. TypeOK' /\ PidInv'
    BY <1>0, <1>17, <2>1, <2>2 DEF Reparent, TypeOK, PidInv
  <2>4. WatchInv'
    BY <1>0, <1>17, <2>1, <2>2 DEF Reparent, TypeOK, WatchInv, Unreaped
  <2>5. QED
    BY <2>3, <2>4 DEF Inv
<1>18. ASSUME NEW p \in Pid, NEW st \in ExitStatus, ChildExit(p, st) PROVE Inv'
  <2>1. TypeOK' /\ PidInv'
    BY <1>0, <1>18, InitAssumption DEF ChildExit, TypeOK, PidInv
  <2>2. WatchInv'
    BY <1>0, <1>18 DEF ChildExit, TypeOK, WatchInv, Unreaped
  <2>3. QED
    BY <2>1, <2>2 DEF Inv
<1>19. CASE UNCHANGED vars
  BY <1>0, <1>19 DEF vars, Inv, TypeOK, PidInv, WatchInv, Unreaped
<1>20. QED
  BY <1>1, <1>2, <1>3, <1>4, <1>5, <1>6, <1>7, <1>8, <1>9, <1>10, <1>11, <1>12,
     <1>13, <1>14, <1>15, <1>16, <1>17, <1>18, <1>19 DEF Next, MainStep

\* Types hold in every state; in particular backoff_sec stays within 16.
THEOREM TypeCorrect == Spec => []TypeOK
<1>1. Inv => TypeOK
  BY DEF Inv
<1>2. QED
  BY InvInit, InvStep, <1>1, PTL DEF Spec

\* PID 1 forks a supervisor only when the last one was reaped, wherever the
\* SIGCHLD handler interrupts main.
THEOREM OneSupervisorHolds == Spec => []OneSupervisor
<1>1. Inv => OneSupervisor
  BY DEF Inv, OneSupervisor, WatchInv, Unreaped, Supervisors, Children
<1>2. QED
  BY InvInit, InvStep, <1>1, PTL DEF Spec
=============================================================================
