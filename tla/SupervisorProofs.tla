-------------------------- MODULE SupervisorProofs --------------------------
(***************************************************************************)
(* A service that was never stopped never has two live processes.          *)
(***************************************************************************)
EXTENDS SupervisorTypeProofs

\* ms.mu is held exactly by the goroutine inside Start.
LockInv ==
  /\ \A c \in Caller : pc[c] \in InStart => mu[on[c]] = c
  /\ \A i \in Inst : mu[i] # NoPid <=> state[i] = "Starting"
  /\ \A i \in Inst : mu[i] # NoPid => pc[mu[i]] \in InStart /\ on[mu[i]] = i

\* A process without a monitor is the one its owner's Start has just forked.
LaunchInv ==
  \A i \in Inst : launched[i] # NoPid =>
    /\ mu[i] # NoPid
    /\ owner[launched[i]] = i
    /\ pc[launched[i]] = "none"
    /\ proc[launched[i]] # "unused"
OwnerInv ==
  /\ \A p \in Pid : proc[p] # "unused" =>
       owner[p] \in Inst /\ (pc[p] = "none" => launched[owner[p]] = p)
  /\ \A p \in Pid : pc[p] # "none" => on[p] = owner[p] /\ proc[p] # "unused"

\* A service that was never stopped has at most one monitor at work, that of
\* the process in ms.Cmd; the processes of its other monitors are reaped.
QuietInv ==
  \A p \in Pid : pc[p] # "none" /\ on[p] \notin stopped =>
    /\ pc[p] \in AtWork => state[on[p]] = "Running" /\ cmd[on[p]] = p
    /\ pc[p] # "spawned" => target[p] = p
    /\ pc[p] \notin {"spawned", "waiting"} => proc[p] = "reaped"

Inv2 == LockInv /\ LaunchInv /\ OwnerInv /\ QuietInv

-----------------------------------------------------------------------------
USE DEF Set

\* Stop as the invariants see it: a service leaves "Running", and
\* only by joining the stopped ones.
StopSpec ==
  /\ stopped \subseteq stopped'
  /\ \A j \in Inst : state'[j] # state[j] => state[j] = "Running" /\ state'[j] = "Stopping" /\ j \in stopped'

LEMMA StopEffect ==
  ASSUME TypeOK, NEW i \in Inst, Stop(i)
  PROVE  StopSpec
<1>1. CASE state[i] = "Running" /\ cmd[i] # NoPid
  BY <1>1 DEF StopSpec, Stop, TypeOK, InstTypes
<1>2. CASE ~(state[i] = "Running" /\ cmd[i] # NoPid)
  BY <1>2 DEF StopSpec, Stop
<1>3. QED
  BY <1>1, <1>2

\* The types the proofs of this module use.
LEMMA Types ==
  ASSUME TypeOK
  PROVE  /\ pc \in [Caller -> PcType] /\ on \in [Caller -> Inst \cup {NoInst}]
         /\ mu \in [Inst -> Caller \cup {NoPid}] /\ state \in [Inst -> StateType]
         /\ cmd \in [Inst -> Pid \cup {NoPid}] /\ launched \in [Inst -> Pid \cup {NoPid}]
         /\ owner \in [Pid -> Inst \cup {NoInst}] /\ target \in [Pid -> Pid \cup {NoPid}]
         /\ proc \in [Pid -> {"unused", "running", "zombie", "reaped"}]
         /\ stopped \subseteq Inst
  BY DEF TypeOK, InstTypes, ThreadTypes, ProcTypes, MainTypes

\* A goroutine inside Start holds the lock of a service that is "Starting".
LEMMA Inside ==
  ASSUME LockInv, NEW c \in Caller, pc[c] \in InStart, on[c] \in Inst
  PROVE  mu[on[c]] = c /\ state[on[c]] = "Starting"
<1>1. mu[on[c]] = c
  BY DEF LockInv
<1>2. c # NoPid
  BY ConstantFacts
<1>3. QED
  BY <1>1, <1>2 DEF LockInv

LEMMA Inv2Init == Init => Inv2
  BY ConstantFacts DEF Init, Inv2, LockInv, LaunchInv, OwnerInv, QuietInv, InStart

\* A step of a client or of main outside Start: it moves only its own program
\* counter, may stop services and may reap zombies.
Outside(d) ==
  /\ pc[d] \notin InStart /\ pc'[d] \notin InStart
  /\ \A c \in Caller \ {d} : pc'[c] = pc[c] /\ on'[c] = on[c]
  /\ UNCHANGED <<mu, cmd, launched, owner, target>>
  /\ StopSpec
  /\ \A q \in Pid : proc'[q] = proc[q] \/ (proc[q] = "zombie" /\ proc'[q] = "reaped")

LEMMA OutsideStep ==
  ASSUME Inv1, Inv2, NEW d \in Caller \ Pid, Outside(d)
  PROVE  Inv2'
<1>0. TypeOK /\ LockInv /\ LaunchInv /\ OwnerInv /\ QuietInv
  BY DEF Inv1, Inv2
<1>1. /\ \A p \in Pid : pc'[p] = pc[p] /\ on'[p] = on[p]
      /\ \A p \in Pid : proc[p] # "unused" <=> proc'[p] # "unused"
      /\ \A p \in Pid : proc[p] = "reaped" => proc'[p] = "reaped"
  BY ConstantFacts DEF Outside
<1>2. UNCHANGED <<mu, cmd, launched, owner, target>>
  BY DEF Outside
<1>3. LockInv'
  <2>1. \A c \in Caller : pc'[c] \in InStart => mu'[on'[c]] = c
    BY <1>0, <1>2 DEF Outside, LockInv
  <2>2. \A i \in Inst : mu'[i] # NoPid <=> state'[i] = "Starting"
    BY <1>0, <1>2 DEF Outside, StopSpec, LockInv
  <2>3. \A i \in Inst : mu'[i] # NoPid => pc'[mu'[i]] \in InStart /\ on'[mu'[i]] = i
    <3> SUFFICES ASSUME NEW i \in Inst, mu[i] # NoPid
                 PROVE  pc'[mu[i]] \in InStart /\ on'[mu[i]] = i
      BY <1>2
    <3>1. mu[i] \in Caller /\ pc[mu[i]] \in InStart /\ on[mu[i]] = i
      BY <1>0, Types DEF LockInv
    <3>2. QED
      BY <3>1 DEF Outside
  <2>4. QED
    BY <2>1, <2>2, <2>3 DEF LockInv
<1>4. LaunchInv'
  <2> SUFFICES ASSUME NEW i \in Inst, launched[i] # NoPid
               PROVE  /\ mu[i] # NoPid /\ owner[launched[i]] = i
                      /\ pc'[launched[i]] = "none" /\ proc'[launched[i]] # "unused"
    BY <1>2 DEF LaunchInv
  <2>1. launched[i] \in Pid
    BY <1>0, Types
  <2>2. QED
    BY <1>0, <1>1, <2>1 DEF LaunchInv
<1>5. OwnerInv'
  BY <1>0, <1>1, <1>2 DEF OwnerInv
<1>6. QuietInv'
  <2> SUFFICES ASSUME NEW p \in Pid, pc[p] # "none", on[p] \notin stopped'
               PROVE  /\ pc[p] \in AtWork => state'[on[p]] = "Running" /\ cmd[on[p]] = p
                      /\ pc[p] # "spawned" => target[p] = p
                      /\ pc[p] \notin {"spawned", "waiting"} => proc'[p] = "reaped"
    BY <1>1, <1>2 DEF QuietInv
  <2>1. on[p] \in Inst
    BY <1>0 DEF OwnerInv
  <2>2. on[p] \notin stopped /\ state'[on[p]] = state[on[p]]
    BY <2>1 DEF Outside, StopSpec
  <2>3. QED
    BY <1>0, <1>1, <2>2 DEF QuietInv
<1>7. QED
  BY <1>3, <1>4, <1>5, <1>6 DEF Inv2

\* A step of the monitor of p outside Start and Cmd.Wait, or a Start of p that
\* is refused: nothing of a service changes.
Late(p) ==
  /\ pc[p] \in {"counting", "backoff"} /\ pc'[p] \in {"backoff", "done"}
  /\ \A c \in Caller \ {p} : pc'[c] = pc[c]
  /\ UNCHANGED <<on, mu, state, cmd, launched, owner, target, proc, stopped>>

LEMMA LateStep ==
  ASSUME Inv1, Inv2, NEW p \in Pid, Late(p)
  PROVE  Inv2'
<1>0. TypeOK /\ LockInv /\ LaunchInv /\ OwnerInv /\ QuietInv
  BY DEF Inv1, Inv2
<1>1. UNCHANGED <<on, mu, state, cmd, launched, owner, target, proc, stopped>>
  BY DEF Late
<1>2. /\ \A c \in Caller : pc'[c] \in InStart <=> pc[c] \in InStart
      /\ \A q \in Pid : pc'[q] = "none" <=> pc[q] = "none"
      /\ \A q \in Pid : pc'[q] \in AtWork => pc'[q] = pc[q]
      /\ \A q \in Pid : pc'[q] \in {"spawned", "waiting"} <=> pc[q] \in {"spawned", "waiting"}
      /\ \A q \in Pid : pc'[q] = "spawned" <=> pc[q] = "spawned"
  BY ConstantFacts DEF Late, InStart, AtWork
<1>3. LockInv'
  <2>1. \A i \in Inst : mu[i] # NoPid => mu[i] \in Caller
    BY <1>0, Types
  <2>2. QED
    BY <1>0, <1>1, <1>2, <2>1 DEF LockInv
<1>4. LaunchInv'
  <2>1. \A i \in Inst : launched[i] # NoPid => launched[i] \in Pid
    BY <1>0, Types
  <2>2. QED
    BY <1>0, <1>1, <1>2, <2>1 DEF LaunchInv
<1>5. OwnerInv'
  BY <1>0, <1>1, <1>2 DEF OwnerInv
<1>6. QuietInv'
  <2> SUFFICES ASSUME NEW q \in Pid, pc'[q] # "none", on[q] \notin stopped
               PROVE  /\ pc'[q] \in AtWork => state[on[q]] = "Running" /\ cmd[on[q]] = q
                      /\ pc'[q] # "spawned" => target[q] = q
                      /\ pc'[q] \notin {"spawned", "waiting"} => proc[q] = "reaped"
    BY <1>1 DEF QuietInv
  <2>1. QED
    BY <1>0, <1>2 DEF QuietInv
<1>7. QED
  BY <1>3, <1>4, <1>5, <1>6 DEF Inv2

-----------------------------------------------------------------------------
\* A signal before signal.Notify ends the supervisor in the middle of Start: the
\* lock then has no living holder, and no step follows.
Killed == Terminate /\ ~Notified

LEMMA Inv2Step == Inv1 /\ Inv2 /\ [Next]_vars /\ ~Killed => Inv2'
<1> SUFFICES ASSUME Inv1, Inv2, [Next]_vars, ~Killed PROVE Inv2'
  OBVIOUS
<1>0. /\ TypeOK /\ PcInv /\ OnInv /\ RefInv
      /\ LockInv /\ LaunchInv /\ OwnerInv /\ QuietInv
  BY DEF Inv1, Inv2
<1> USE ConstantFacts DEF instVars, regVars, procVars, monVars, mainVars, histVars,
        Calling, InStart, AtWork
<1>a. Main \in Caller \ Pid /\ \A c \in Client : c \in Caller \ Pid
  OBVIOUS
<1>1. ASSUME NEW c \in Caller, StartRefused(c) PROVE Inv2'
  <2>1. pc' = Set(pc, c, Returned(c, FALSE)) /\ pc[c] \in {"start", "load", "backoff"}
    BY <1>1 DEF StartRefused
  <2>2. UNCHANGED <<on, mu, state, cmd, launched, owner, target, proc, stopped>>
    BY <1>1 DEF StartRefused
  <2>3. CASE c \in Pid
    <3>1. pc[c] = "backoff" /\ Returned(c, FALSE) = "done"
      BY <1>0, <2>1, <2>3 DEF PcInv, MonitorPc, Returned
    <3>2. Late(c)
      BY <1>0, <2>1, <2>2, <3>1, Types DEF Late
    <3>3. QED
      BY <2>3, <3>2, LateStep
  <2>4. CASE c \notin Pid
    <3>1. Returned(c, FALSE) \in {"boot", "done", "idle"}
      BY DEF Returned
    <3>2. Outside(c)
      BY <1>0, <2>1, <2>2, <3>1, Types DEF Outside, StopSpec
    <3>3. QED
      BY <2>4, <3>2, OutsideStep
  <2>5. QED
    BY <2>3, <2>4
<1>2. ASSUME NEW c \in Caller, StartEnter(c) PROVE Inv2'
  <2>1. on[c] \in Inst
    BY <1>0, <1>2 DEF StartEnter, OnInv, NoObject
  <2>2. PICK r \in InStart : pc' = Set(pc, c, r)
    BY <1>2 DEF StartEnter, Entered
  <2>3. /\ pc[c] \in {"start", "load", "backoff"} /\ mu[on[c]] = NoPid /\ state[on[c]] # "Running"
        /\ mu' = Set(mu, on[c], c) /\ state' = Set(state, on[c], "Starting")
        /\ UNCHANGED <<on, cmd, launched, owner, target, proc, stopped>>
    BY <1>2 DEF StartEnter, Free
  <2>4. LockInv'
    BY <1>0, <2>1, <2>2, <2>3, Types DEF LockInv
  <2>5. LaunchInv'
    BY <1>0, <2>1, <2>2, <2>3, Types DEF LaunchInv
  <2>6. OwnerInv'
    BY <1>0, <2>1, <2>2, <2>3, Types DEF OwnerInv
  <2>7. QuietInv'
    BY <1>0, <2>1, <2>2, <2>3, Types DEF QuietInv, OwnerInv
  <2>8. QED
    BY <2>4, <2>5, <2>6, <2>7 DEF Inv2
<1>3. ASSUME NEW c \in Caller, StartFail(c) PROVE Inv2'
  <2>1. on[c] \in Inst /\ pc[c] \in InStart /\ launched[on[c]] = NoPid
    BY <1>0, <1>3 DEF StartFail, OnInv, NoObject
  <2>2. PICK r \in {"boot", "done", "persist", "idle"} :
          pc' = Set(pc, c, r) /\ (c \in Pid => r = "done")
    BY <1>3 DEF StartFail, Returned
  <2>3. /\ mu' = Set(mu, on[c], NoPid) /\ state' = Set(state, on[c], "Stopped")
        /\ UNCHANGED <<cmd, on, launched, owner, proc, stopped, target>>
    BY <1>3 DEF StartFail
  <2>4. mu[on[c]] = c /\ state[on[c]] = "Starting"
    BY <1>0, <2>1, Inside
  <2>5. LockInv'
    BY <1>0, <2>1, <2>2, <2>3, <2>4, Types DEF LockInv
  <2>6. LaunchInv'
    BY <1>0, <2>1, <2>2, <2>3, <2>4, Types DEF LaunchInv
  <2>7. OwnerInv'
    BY <1>0, <2>1, <2>2, <2>3, <2>4, Types DEF OwnerInv
  <2>8. QuietInv'
    BY <1>0, <2>1, <2>2, <2>3, <2>4, Types DEF QuietInv, OwnerInv
  <2>9. QED
    BY <2>5, <2>6, <2>7, <2>8 DEF Inv2
<1>4. ASSUME NEW c \in Caller, StartFork(c) PROVE Inv2'
  <2>1. on[c] \in Inst /\ pc[c] \in InStart /\ launched[on[c]] = NoPid
    BY <1>0, <1>4 DEF StartFork, OnInv, NoObject
  <2>2. PICK p \in Pid :
          /\ proc[p] = "unused" /\ proc' = Set(proc, p, "running")
          /\ launched' = Set(launched, on[c], p) /\ owner' = Set(owner, p, on[c])
    BY <1>4 DEF StartFork
  <2>3. UNCHANGED <<pc, on, mu, state, cmd, stopped, target>>
    BY <1>4 DEF StartFork
  <2>4. mu[on[c]] = c /\ state[on[c]] = "Starting"
    BY <1>0, <2>1, Inside
  <2>5. LockInv'
    BY <1>0, <2>1, <2>2, <2>3, <2>4, Types DEF LockInv
  <2>6. LaunchInv'
    BY <1>0, <2>1, <2>2, <2>3, <2>4, Types DEF LaunchInv, OwnerInv
  <2>7. OwnerInv'
    BY <1>0, <2>1, <2>2, <2>3, <2>4, Types DEF OwnerInv
  <2>8. QuietInv'
    BY <1>0, <2>1, <2>2, <2>3, <2>4, Types DEF QuietInv, OwnerInv
  <2>9. QED
    BY <2>5, <2>6, <2>7, <2>8 DEF Inv2
<1>5. ASSUME NEW c \in Caller, StartPublish(c) PROVE Inv2'
  <2>1. on[c] \in Inst /\ pc[c] \in InStart /\ launched[on[c]] # NoPid
    BY <1>0, <1>5 DEF StartPublish, OnInv, NoObject
  <2>2. launched[on[c]] \in Pid
    BY <1>0, <2>1, Types
  <2>3. PICK p \in Pid : p = launched[on[c]]
    BY <2>2
  <2>4. owner[p] = on[c] /\ pc[p] = "none" /\ proc[p] # "unused"
    BY <1>0, <2>1, <2>3 DEF LaunchInv
  <2>5. p # c
    BY <2>1, <2>4
  <2>6. PICK r \in {"boot", "done", "persist", "idle"} :
          pc' = [pc EXCEPT ![c] = r, ![p] = "spawned"] /\ (c \in Pid => r = "done")
    BY <2>3, <1>5 DEF StartPublish, Returned
  <2>7. /\ cmd' = Set(cmd, on[c], p) /\ state' = Set(state, on[c], "Running")
        /\ launched' = Set(launched, on[c], NoPid) /\ mu' = Set(mu, on[c], NoPid)
        /\ on' = Set(on, p, on[c]) /\ UNCHANGED <<owner, proc, stopped, target>>
    BY <2>3, <1>5 DEF StartPublish
  <2>8. mu[on[c]] = c /\ state[on[c]] = "Starting"
    BY <1>0, <2>1, Inside
  <2>9. /\ \A d \in Caller : pc'[d] = IF d = p THEN "spawned" ELSE IF d = c THEN r ELSE pc[d]
        /\ \A d \in Caller : on'[d] = IF d = p THEN on[c] ELSE on[d]
    BY <1>0, <2>5, <2>6, <2>7, Types
  <2>10. \A j \in Inst : /\ cmd'[j] = IF j = on[c] THEN p ELSE cmd[j]
                         /\ state'[j] = IF j = on[c] THEN "Running" ELSE state[j]
                         /\ launched'[j] = IF j = on[c] THEN NoPid ELSE launched[j]
                         /\ mu'[j] = IF j = on[c] THEN NoPid ELSE mu[j]
    BY <1>0, <2>7, Types
  <2>11. UNCHANGED <<owner, proc, stopped, target>>
    BY <2>7
  <2>12. LockInv'
    <3>1. \A d \in Caller : pc'[d] \in InStart => mu'[on'[d]] = d
      <4> SUFFICES ASSUME NEW d \in Caller, pc'[d] \in InStart PROVE mu'[on'[d]] = d
        OBVIOUS
      <4>1. d # c /\ d # p /\ pc[d] \in InStart /\ on'[d] = on[d]
        BY <2>5, <2>9
      <4>2. mu[on[d]] = d /\ on[d] \in Inst
        BY <1>0, <4>1 DEF LockInv, OnInv, NoObject
      <4>3. QED
        BY <2>8, <2>10, <4>1, <4>2
    <3>2. \A j \in Inst : mu'[j] # NoPid <=> state'[j] = "Starting"
      BY <1>0, <2>10 DEF LockInv
    <3>3. \A j \in Inst : mu'[j] # NoPid => pc'[mu'[j]] \in InStart /\ on'[mu'[j]] = j
      <4> SUFFICES ASSUME NEW j \in Inst, mu'[j] # NoPid
                   PROVE  pc'[mu'[j]] \in InStart /\ on'[mu'[j]] = j
        OBVIOUS
      <4>1. j # on[c] /\ mu'[j] = mu[j] /\ mu[j] # NoPid
        BY <2>10
      <4>2. mu[j] \in Caller /\ pc[mu[j]] \in InStart /\ on[mu[j]] = j
        BY <1>0, <4>1, Types DEF LockInv
      <4>3. mu[j] # p /\ mu[j] # c
        BY <2>4, <4>1, <4>2
      <4>4. QED
        BY <2>9, <4>1, <4>2, <4>3
    <3>4. QED
      BY <3>1, <3>2, <3>3 DEF LockInv
  <2>13. LaunchInv'
    <3> SUFFICES ASSUME NEW j \in Inst, launched'[j] # NoPid
                 PROVE  /\ mu'[j] # NoPid /\ owner'[launched'[j]] = j
                        /\ pc'[launched'[j]] = "none" /\ proc'[launched'[j]] # "unused"
      BY DEF LaunchInv
    <3>1. j # on[c] /\ launched'[j] = launched[j] /\ mu'[j] = mu[j]
      BY <2>10
    <3>2. /\ launched[j] \in Pid /\ mu[j] # NoPid /\ owner[launched[j]] = j
          /\ pc[launched[j]] = "none" /\ proc[launched[j]] # "unused"
      BY <1>0, <3>1, Types DEF LaunchInv
    <3>3. launched[j] # p /\ launched[j] # c
      BY <2>1, <2>4, <3>1, <3>2
    <3>4. QED
      BY <2>9, <2>11, <3>1, <3>2, <3>3
  <2>14. OwnerInv'
    <3> SUFFICES ASSUME NEW q \in Pid
                 PROVE  /\ proc[q] # "unused" =>
                             owner[q] \in Inst /\ (pc'[q] = "none" => launched'[owner[q]] = q)
                        /\ pc'[q] # "none" => on'[q] = owner[q] /\ proc[q] # "unused"
      BY <2>11 DEF OwnerInv
    <3>1. /\ proc[q] # "unused" =>
               owner[q] \in Inst /\ (pc[q] = "none" => launched[owner[q]] = q)
          /\ pc[q] # "none" => on[q] = owner[q] /\ proc[q] # "unused"
      BY <1>0 DEF OwnerInv
    <3>2. CASE q = p
      BY <2>1, <2>4, <2>9, <3>2
    <3>3. CASE q # p
      <4>1. pc'[q] = "none" <=> pc[q] = "none"
        BY <2>1, <2>9, <3>3
      <4>2. pc[q] = "none" /\ proc[q] # "unused" => owner[q] # on[c]
        BY <2>3, <3>1, <3>3
      <4>3. QED
        BY <2>9, <2>10, <3>1, <3>3, <4>1, <4>2
    <3>4. QED
      BY <3>2, <3>3
  <2>15. QuietInv'
    <3> SUFFICES ASSUME NEW q \in Pid, pc'[q] # "none", on'[q] \notin stopped
                 PROVE  /\ pc'[q] \in AtWork => state'[on'[q]] = "Running" /\ cmd'[on'[q]] = q
                        /\ pc'[q] # "spawned" => target[q] = q
                        /\ pc'[q] \notin {"spawned", "waiting"} => proc[q] = "reaped"
      BY <2>11 DEF QuietInv
    <3>1. CASE q = p
      BY <2>1, <2>9, <2>10, <3>1
    <3>2. CASE q # p
      <4>1. on'[q] = on[q] /\ pc[q] # "none"
        BY <2>1, <2>9, <3>2
      <4>2. /\ on[q] \in Inst
            /\ pc[q] \in AtWork => state[on[q]] = "Running" /\ cmd[on[q]] = q
            /\ pc[q] # "spawned" => target[q] = q
            /\ pc[q] \notin {"spawned", "waiting"} => proc[q] = "reaped"
        BY <1>0, <4>1 DEF QuietInv, OwnerInv
      <4>3. pc[q] \in AtWork => on[q] # on[c]
        BY <2>8, <4>2
      <4>4. CASE q = c
        BY <2>1, <2>5, <2>6, <2>9, <4>1, <4>2, <4>4
      <4>5. CASE q # c
        <5>1. pc'[q] = pc[q]
          BY <2>9, <3>2, <4>5
        <5>2. pc[q] \in AtWork => state'[on[q]] = state[on[q]] /\ cmd'[on[q]] = cmd[on[q]]
          BY <2>10, <4>2, <4>3
        <5>3. QED
          BY <4>1, <4>2, <5>1, <5>2
      <4>6. QED
        BY <4>4, <4>5
    <3>3. QED
      BY <3>1, <3>2
  <2>16. QED
    BY <2>12, <2>13, <2>14, <2>15 DEF Inv2
<1>6. ASSUME NEW p \in Pid, MonitorWait(p) PROVE Inv2'
  <2>1. on[p] \in Inst /\ pc[p] = "spawned"
    BY <1>0, <1>6 DEF MonitorWait, OnInv, NoObject
  <2>2. /\ pc' = Set(pc, p, "waiting") /\ target' = Set(target, p, cmd[on[p]])
        /\ UNCHANGED <<on, mu, state, cmd, launched, owner, proc, stopped>>
    BY <1>6 DEF MonitorWait
  <2>3. LockInv'
    BY <1>0, <2>1, <2>2, Types DEF LockInv
  <2>4. LaunchInv'
    BY <1>0, <2>1, <2>2, Types DEF LaunchInv
  <2>5. OwnerInv'
    BY <1>0, <2>1, <2>2, Types DEF OwnerInv
  <2>6. QuietInv'
    BY <1>0, <2>1, <2>2, Types DEF QuietInv
  <2>7. QED
    BY <2>3, <2>4, <2>5, <2>6 DEF Inv2
<1>7. ASSUME NEW p \in Pid, MonitorWaited(p) PROVE Inv2'
  <2>1. on[p] \in Inst /\ pc[p] = "waiting"
    BY <1>0, <1>7 DEF MonitorWaited, OnInv, NoObject
  <2>2. /\ \A q \in Pid : proc'[q] = proc[q] \/ (proc[q] = "zombie" /\ proc'[q] = "reaped")
        /\ target[p] \in Pid => proc'[target[p]] = "reaped"
    BY <1>0, <1>7, Types DEF MonitorWaited
  <2>3. /\ pc' = Set(pc, p, "exited")
        /\ UNCHANGED <<cmd, state, launched, mu, on, owner, stopped, target>>
    BY <1>7 DEF MonitorWaited
  <2>4. \A q \in Pid : /\ proc[q] # "unused" => proc'[q] # "unused"
                      /\ pc[q] = "none" => pc'[q] = "none"
    BY <1>0, <2>1, <2>2, <2>3, Types
  <2>5. LockInv'
    BY <1>0, <2>1, <2>2, <2>3, <2>4, Types DEF LockInv
  <2>6. LaunchInv'
    <3> SUFFICES ASSUME NEW i \in Inst, launched'[i] # NoPid
                 PROVE  /\ mu'[i] # NoPid /\ owner'[launched'[i]] = i
                        /\ pc'[launched'[i]] = "none" /\ proc'[launched'[i]] # "unused"
      BY DEF LaunchInv
    <3>1. /\ launched[i] \in Pid /\ mu[i] # NoPid /\ owner[launched[i]] = i
          /\ pc[launched[i]] = "none" /\ proc[launched[i]] # "unused"
      BY <1>0, <2>1, <2>2, <2>3, <2>4, Types DEF LaunchInv
    <3>2. QED
      BY <3>1, <2>1, <2>2, <2>3, <2>4
  <2>7. OwnerInv'
    BY <1>0, <2>1, <2>2, <2>3, <2>4, Types DEF OwnerInv
  <2>8. QuietInv'
    <3> SUFFICES ASSUME NEW q \in Pid, pc'[q] # "none", on[q] \notin stopped
                 PROVE  /\ pc'[q] \in AtWork => state[on[q]] = "Running" /\ cmd[on[q]] = q
                        /\ pc'[q] # "spawned" => target[q] = q
                        /\ pc'[q] \notin {"spawned", "waiting"} => proc'[q] = "reaped"
      BY <2>3 DEF QuietInv
    <3>1. CASE q = p
      <4>1. state[on[p]] = "Running" /\ cmd[on[p]] = p /\ target[p] = p
        BY <1>0, <2>1, <3>1 DEF QuietInv
      <4>2. QED
        BY <2>2, <3>1, <4>1
    <3>2. CASE q # p
      <4>1. pc'[q] = pc[q]
        BY <1>0, <2>3, <3>2, Types
      <4>2. QED
        BY <1>0, <2>2, <4>1 DEF QuietInv
    <3>3. QED
      BY <3>1, <3>2
  <2>9. QED
    BY <2>5, <2>6, <2>7, <2>8 DEF Inv2
<1>8. ASSUME NEW p \in Pid, MonitorExit(p) PROVE Inv2'
  <2>1. on[p] \in Inst /\ pc[p] = "exited"
    BY <1>0, <1>8 DEF MonitorExit, OnInv, NoObject
  <2>2. PICK r \in {"counting", "done"} : pc' = Set(pc, p, r)
    BY <1>8 DEF MonitorExit
  <2>3. /\ mu[on[p]] = NoPid /\ state' = Set(state, on[p], "Terminated")
        /\ UNCHANGED <<on, mu, cmd, launched, owner, target, proc, stopped>>
    BY <1>8 DEF MonitorExit, Free
  <2>4. LockInv'
    BY <1>0, <2>1, <2>2, <2>3, Types DEF LockInv
  <2>5. LaunchInv'
    BY <1>0, <2>1, <2>2, <2>3, Types DEF LaunchInv
  <2>6. OwnerInv'
    BY <1>0, <2>1, <2>2, <2>3, Types DEF OwnerInv
  <2>7. QuietInv'
    <3> SUFFICES ASSUME NEW q \in Pid, pc'[q] # "none", on[q] \notin stopped
                 PROVE  /\ pc'[q] \in AtWork => state'[on[q]] = "Running" /\ cmd[on[q]] = q
                        /\ pc'[q] # "spawned" => target[q] = q
                        /\ pc'[q] \notin {"spawned", "waiting"} => proc[q] = "reaped"
      BY <2>3 DEF QuietInv
    <3>1. CASE q = p
      <4>1. pc'[p] = r
        BY <1>0, <2>2, Types
      <4>2. target[p] = p /\ proc[p] = "reaped"
        BY <1>0, <2>1, <3>1 DEF QuietInv
      <4>3. QED
        BY <3>1, <4>1, <4>2
    <3>2. CASE q # p
      <4>1. pc'[q] = pc[q]
        BY <1>0, <2>2, <3>2, Types
      <4>2. pc[q] \in AtWork => on[q] # on[p]
        BY <1>0, <2>1, <3>2, <4>1 DEF QuietInv
      <4>3. pc[q] \in AtWork => state'[on[q]] = state[on[q]]
        BY <1>0, <2>3, <4>1, <4>2, Types DEF OnInv, NoObject
      <4>4. QED
        BY <1>0, <4>1, <4>3 DEF QuietInv
    <3>3. QED
      BY <3>1, <3>2
  <2>8. QED
    BY <2>4, <2>5, <2>6, <2>7 DEF Inv2
<1>9. ASSUME NEW p \in Pid, MonitorCount(p) PROVE Inv2'
  <2>1. PICK r \in {"backoff", "done"} : pc' = Set(pc, p, r)
    BY <1>9 DEF MonitorCount
  <2>2. Late(p)
    BY <1>0, <1>9, <2>1, Types DEF MonitorCount, Late
  <2>3. QED
    BY <2>2, LateStep
<1>10. ASSUME NEW c \in Client, NEW n \in Name, StartService(c, n) PROVE Inv2'
  <2>1. Outside(c)
    BY <1>0, <1>10, Types DEF StartService, Outside, StopSpec
  <2>2. QED
    BY <1>a, <2>1, OutsideStep
<1>11. ASSUME NEW c \in Client, NEW n \in Name, StopService(c, n) PROVE Inv2'
  <2>1. Outside(c)
    BY <1>0, <1>11, Types DEF StopService, Outside, StopSpec
  <2>2. QED
    BY <1>a, <2>1, OutsideStep
<1>12. ASSUME NEW c \in Client, StopServiceStop(c) PROVE Inv2'
  <2>1. on[c] \in Inst
    BY <1>0, <1>12 DEF StopServiceStop, OnInv, NoObject
  <2>2. StopSpec
    BY <1>0, <1>12, <2>1, StopEffect DEF StopServiceStop
  <2>3. Outside(c)
    BY <1>0, <1>12, <2>2, Types DEF StopServiceStop, Outside
  <2>4. QED
    BY <1>a, <2>3, OutsideStep
<1>13. ASSUME NEW c \in Client, NEW s \in Specs, NEW next \in {"loadswap", "applyswap"},
            Replace(c, s, next) PROVE Inv2'
  <2>1. PICK i \in Inst : on' = Set(on, c, i)
    BY <1>13 DEF Replace, Unmade
  <2>2. /\ pc[c] = "idle" /\ pc' = Set(pc, c, next)
        /\ UNCHANGED <<cmd, launched, mu, state, owner, proc, target, stopped>>
    BY <1>13 DEF Replace
  <2>3. Outside(c)
    BY <1>0, <2>1, <2>2, Types DEF Outside, StopSpec
  <2>4. QED
    BY <1>a, <2>3, OutsideStep
<1>swap. ASSUME NEW c \in Client, Swap(c) PROVE Inv2'
  <2>1. existing[c] \in Inst \cup {NoInst}
    BY <1>0 DEF TypeOK, MainTypes
  <2>2. StopSpec
    BY <1>0, <1>swap, <2>1, StopEffect DEF Swap, StopSpec
  <2>3. PICK next \in {"load", "start"} : pc' = Set(pc, c, next)
    BY <1>swap DEF Swap
  <2>4. /\ pc[c] \in {"loadswap", "applyswap"}
        /\ UNCHANGED <<on, cmd, launched, mu, owner, proc, target>>
    BY <1>swap DEF Swap
  <2>5. Outside(c)
    BY <1>0, <2>2, <2>3, <2>4, Types DEF Outside
  <2>6. QED
    BY <1>a, <2>5, OutsideStep
<1>14. ASSUME NEW c \in Client, Persist(c) PROVE Inv2'
  <2>1. Outside(c)
    BY <1>0, <1>14, Types DEF Persist, Outside, StopSpec
  <2>2. QED
    BY <1>a, <2>1, OutsideStep
<1>write. ASSUME NEW c \in Client, PersistWrite(c) PROVE Inv2'
  <2>1. Outside(c)
    BY <1>0, <1>write, Types DEF PersistWrite, Outside, StopSpec
  <2>2. QED
    BY <1>a, <2>1, OutsideStep
<1>15. ASSUME BootNext PROVE Inv2'
  <2>1. PICK i \in Inst : on' = Set(on, Main, i)
    BY <1>15 DEF BootNext, Unmade
  <2>2. /\ pc[Main] = "boot" /\ pc' = Set(pc, Main, "start")
        /\ UNCHANGED <<cmd, launched, mu, state, owner, proc, target, stopped>>
    BY <1>15 DEF BootNext
  <2>3. Outside(Main)
    BY <1>0, <2>1, <2>2, Types DEF Outside, StopSpec
  <2>4. QED
    BY <1>a, <2>3, OutsideStep
<1>16. ASSUME BootDone PROVE Inv2'
  <2>1. Outside(Main)
    BY <1>0, <1>16, Types DEF BootDone, Outside, StopSpec
  <2>2. QED
    BY <1>a, <2>1, OutsideStep
<1>17. ASSUME ReceiveChld PROVE Inv2'
  <2>1. Outside(Main)
    BY <1>0, <1>17, Types DEF ReceiveChld, Outside, StopSpec
  <2>2. QED
    BY <1>a, <2>1, OutsideStep
<1>18. ASSUME NEW p \in Pid, Reap(p) PROVE Inv2'
  <2>1. Outside(Main)
    BY <1>0, <1>18, Types DEF Reap, Outside, StopSpec
  <2>2. QED
    BY <1>a, <2>1, OutsideStep
<1>19. ASSUME ReapDone PROVE Inv2'
  <2>1. Outside(Main)
    BY <1>0, <1>19, Types DEF ReapDone, Outside, StopSpec
  <2>2. QED
    BY <1>a, <2>1, OutsideStep
<1>20. ASSUME Match PROVE Inv2'
  <2>1. Outside(Main)
    BY <1>0, <1>20, Types DEF Match, Outside, StopSpec
  <2>2. QED
    BY <1>a, <2>1, OutsideStep
<1>21. ASSUME RecordExitStatus PROVE Inv2'
  <2>1. Outside(Main)
    BY <1>0, <1>21, Types DEF RecordExitStatus, Outside, StopSpec
  <2>2. QED
    BY <1>a, <2>1, OutsideStep
<1>22. ASSUME ReceiveTerm PROVE Inv2'
  <2>1. Outside(Main)
    BY <1>0, <1>22, Types DEF ReceiveTerm, Outside, StopSpec
  <2>2. QED
    BY <1>a, <2>1, OutsideStep
<1>23. ASSUME NEW i \in Inst, ShutdownStop(i) PROVE Inv2'
  <2>1. StopSpec
    BY <1>0, <1>23, StopEffect DEF ShutdownStop
  <2>2. Outside(Main)
    BY <1>0, <1>23, <2>1 DEF ShutdownStop, Outside
  <2>3. QED
    BY <1>a, <2>2, OutsideStep
<1>24. ASSUME Exit PROVE Inv2'
  <2>1. Outside(Main)
    BY <1>0, <1>24, Types DEF Exit, Outside, StopSpec
  <2>2. QED
    BY <1>a, <2>1, OutsideStep
<1>25. ASSUME NEW p \in Pid, NEW st \in ExitStatus, ProcessExit(p, st) PROVE Inv2'
  <2>1. UNCHANGED <<pc, on, mu, state, cmd, launched, owner, target, stopped>>
    BY <1>25 DEF ProcessExit
  <2>2. /\ proc[p] = "running"
        /\ \A q \in Pid : proc'[q] = IF q = p THEN "zombie" ELSE proc[q]
    BY <1>0, <1>25, Types DEF ProcessExit
  <2>3. LockInv'
    BY <1>0, <2>1 DEF LockInv
  <2>4. LaunchInv'
    <3>1. \A i \in Inst : launched[i] # NoPid => launched[i] \in Pid
      BY <1>0, Types
    <3>2. QED
      BY <1>0, <2>1, <2>2, <3>1 DEF LaunchInv
  <2>5. OwnerInv'
    BY <1>0, <2>1, <2>2 DEF OwnerInv
  <2>6. QuietInv'
    <3> SUFFICES ASSUME NEW q \in Pid, pc[q] # "none", on[q] \notin stopped
                 PROVE  /\ pc[q] \in AtWork => state[on[q]] = "Running" /\ cmd[on[q]] = q
                        /\ pc[q] # "spawned" => target[q] = q
                        /\ pc[q] \notin {"spawned", "waiting"} => proc'[q] = "reaped"
      BY <2>1 DEF QuietInv
    <3>1. QED
      BY <1>0, <2>2 DEF QuietInv
  <2>7. QED
    BY <2>3, <2>4, <2>5, <2>6 DEF Inv2
<1>26. ASSUME Terminate PROVE Inv2'
  <2>1. UNCHANGED <<pc, on, mu, state, cmd, launched, owner, target, proc, stopped>>
    BY <1>26 DEF Terminate, Killed
  <2>2. QED
    BY <1>0, <2>1 DEF Inv2, LockInv, LaunchInv, OwnerInv, QuietInv
<1>27. CASE UNCHANGED vars
  BY <1>0, <1>27 DEF vars, Inv2, LockInv, LaunchInv, OwnerInv, QuietInv
<1>28. QED
  BY <1>1, <1>2, <1>3, <1>4, <1>5, <1>6, <1>7, <1>8, <1>9, <1>10, <1>11,
     <1>12, <1>13, <1>14, <1>15, <1>16, <1>17, <1>18, <1>19, <1>20, <1>21,
     <1>22, <1>23, <1>24, <1>25, <1>26, <1>27, <1>swap, <1>write DEF Next, StartStep,
     MonitorStep, ClientStep, MainStep, LoadService, ApplyBundle

\* A live process is the one its service has just forked, or the one in ms.Cmd:
\* the first only while the service is "Starting", the second while "Running".
LEMMA LiveProcess ==
  ASSUME Inv1, Inv2, NEW i \in Inst \ stopped, NEW p \in Live(i)
  PROVE  \/ launched[i] = p /\ state[i] = "Starting"
         \/ cmd[i] = p /\ state[i] = "Running"
<1>0. TypeOK /\ LockInv /\ LaunchInv /\ OwnerInv /\ QuietInv
  BY DEF Inv1, Inv2
<1>1. p \in Pid /\ owner[p] = i /\ proc[p] = "running"
  BY DEF Live
<1>2. CASE pc[p] = "none"
  <2>1. launched[i] = p
    BY <1>0, <1>1, <1>2 DEF OwnerInv
  <2>2. mu[i] # NoPid
    BY <1>0, <1>1, <2>1, ConstantFacts DEF LaunchInv
  <2>3. QED
    BY <1>0, <2>1, <2>2 DEF LockInv
<1>3. CASE pc[p] # "none"
  <2>1. on[p] = i
    BY <1>0, <1>1, <1>3 DEF OwnerInv
  <2>2. pc[p] \in {"spawned", "waiting"}
    BY <1>0, <1>1, <1>3, <2>1 DEF QuietInv
  <2>3. QED
    BY <1>0, <1>1, <1>3, <2>1, <2>2 DEF QuietInv, AtWork
<1>4. QED
  BY <1>2, <1>3

LEMMA Single == Inv1 /\ Inv2 => SingleProcess
<1> SUFFICES ASSUME Inv1, Inv2, NEW i \in Inst \ stopped,
                    NEW p \in Live(i), NEW q \in Live(i)
             PROVE  p = q
  BY DEF SingleProcess
<1>1. QED
  BY LiveProcess

\* Inv2 holds as long as the supervisor runs.
Inv3 == pc[Main] # "gone" => Inv2

LEMMA Inv3Step == Inv1 /\ Inv3 /\ SingleProcess /\ [Next]_vars => Inv3' /\ (Inv2' \/ SingleProcess')
<1> SUFFICES ASSUME Inv1, Inv3, SingleProcess, [Next]_vars
             PROVE  Inv3' /\ (Inv2' \/ SingleProcess')
  OBVIOUS
<1>1. CASE UNCHANGED vars
  <2>1. UNCHANGED <<pc, on, mu, state, cmd, launched, owner, target, proc, stopped>>
    BY <1>1 DEF vars, instVars, procVars, monVars, histVars
  <2>2. Inv3'
    BY <2>1 DEF Inv3, Inv2, LockInv, LaunchInv, OwnerInv, QuietInv
  <2>3. SingleProcess'
    BY <2>1 DEF SingleProcess, Live
  <2>4. QED
    BY <2>2, <2>3
<1>2. CASE Killed
  <2>1. pc' = Set(pc, Main, "gone") /\ UNCHANGED <<owner, proc, stopped>>
    BY <1>2 DEF Killed, Terminate, procVars
  <2>2. pc'[Main] = "gone"
    BY <2>1, Types, ConstantFacts DEF Inv1
  <2>3. SingleProcess'
    BY <2>1 DEF SingleProcess, Live
  <2>4. QED
    BY <2>2, <2>3 DEF Inv3
<1>3. CASE Next /\ ~Killed
  <2>1. Inv2
    BY <1>3 DEF Next, Inv3
  <2>2. QED
    BY <1>3, <2>1, Inv2Step DEF Inv3
<1>4. QED
  BY <1>1, <1>2, <1>3

\* Whatever the number of services, processes, clients and commands, a service
\* that Stop was never applied to has at most one live process, although its
\* monitors, the reaper, StartService and replacements race for its exit and its
\* restart, and although the supervisor may be killed while it boots.
THEOREM SingleProcessHolds == Spec => []SingleProcess
<1>1. Init => Inv1 /\ Inv3 /\ SingleProcess
  BY Inv1Init, Inv2Init, Single DEF Inv3
<1>2. QED
  BY <1>1, Inv1Step, Inv3Step, Single, PTL DEF Spec
=============================================================================
