----------------------- MODULE SupervisorTypeProofs -----------------------
(***************************************************************************)
(* Type correctness of Supervisor, for every number of instances,          *)
(* processes, clients and commands.  TypeOK is not inductive by itself: a  *)
(* goroutine dereferences on[c], target[p] or ms.Cmd, so the invariant     *)
(* Inv1 also says which program counters come with which objects.          *)
(***************************************************************************)
EXTENDS Supervisor, TLAPS

Calling == {"start", "load", "backoff"}
InStart == {"starting", "loading", "restarting"}
AtWork  == {"spawned", "waiting", "exited"}
NoObject == {"none", "idle", "boot", "select", "reap", "match", "shutdown", "gone"}

\* Goroutines that work on an instance have one, and it has been made.
PcInv ==
  /\ pc[Main] \in MainPc
  /\ \A c \in Client : pc[c] \in ClientPc
  /\ \A p \in Pid : pc[p] \in MonitorPc
OnInv == \A c \in Caller : pc[c] \notin NoObject => on[c] \in Inst /\ spec[on[c]] # NoSpec
RefInv ==
  /\ pc[Main] \in {"match", "record"} => reaped \in Pid
  /\ \A p \in Pid : pc[p] \notin {"none", "spawned"} => target[p] \in Pid
  /\ \A p \in Pid : pc[p] # "none" => cmd[on[p]] # NoPid
  /\ \A n \in Name : registry[n] # NoInst => spec[registry[n]] # NoSpec
Inv1 == TypeOK /\ PcInv /\ OnInv /\ RefInv

-----------------------------------------------------------------------------
LEMMA ConstantFacts ==
  /\ NoPid \notin Caller /\ NoPid \notin Pid /\ NoInst \notin Inst
  /\ Pid \subseteq Caller /\ Client \subseteq Caller /\ Main \in Caller
  /\ Main \notin Pid /\ Main \notin Client /\ Pid \cap Client = {}
  /\ Caller = Client \cup Pid \cup {Main}
  /\ Pid \subseteq Int /\ Inst \subseteq Int
  BY ConstantsAssumption DEF Caller, Pid, Inst, NoPid, NoInst

USE DEF Set

LEMMA StopTypes ==
  ASSUME TypeOK, NEW i \in Inst, Stop(i)
  PROVE  /\ state' \in [Inst -> StateType]
         /\ interrupted' \subseteq Pid
         /\ stopped' \subseteq Inst
<1>1. CASE state[i] = "Running" /\ cmd[i] # NoPid
  <2>1. cmd[i] \in Pid
    BY <1>1 DEF TypeOK, InstTypes
  <2>2. state' \in [Inst -> StateType]
    BY DEF Stop, TypeOK, InstTypes, StateType
  <2>3. interrupted' \subseteq Pid
    BY <2>1 DEF Stop, TypeOK, ProcTypes
  <2>4. QED
    BY <2>2, <2>3 DEF Stop, TypeOK, MainTypes
<1>2. CASE ~(state[i] = "Running" /\ cmd[i] # NoPid)
  BY <1>2 DEF Stop, TypeOK, InstTypes, ProcTypes, MainTypes
<1>3. QED
  BY <1>1, <1>2

LEMMA Inv1Init == Init => Inv1
<1> SUFFICES ASSUME Init PROVE Inv1
  OBVIOUS
<1> USE ConstantFacts
<1>1. TypeOK
  BY ConstantsAssumption DEF Init, TypeOK, InstTypes, ProcTypes, ThreadTypes, MainTypes,
     PcType, StateType, MonitorPc, ClientPc, MainPc
<1>2. PcInv
  BY DEF Init, PcInv, MonitorPc, ClientPc, MainPc
<1>3. OnInv /\ RefInv
  BY DEF Init, OnInv, RefInv, NoObject
<1>4. QED
  BY <1>1, <1>2, <1>3 DEF Inv1

LEMMA Inv1Step == Inv1 /\ [Next]_vars => Inv1'
<1> SUFFICES ASSUME Inv1, [Next]_vars PROVE Inv1'
  OBVIOUS
<1>0. TypeOK /\ PcInv /\ OnInv /\ RefInv
  BY DEF Inv1
<1>t. /\ pc \in [Caller -> PcType] /\ on \in [Caller -> Inst \cup {NoInst}]
      /\ spec \in [Inst -> SpecType \cup {NoSpec}] /\ cmd \in [Inst -> Pid \cup {NoPid}]
      /\ target \in [Pid -> Pid \cup {NoPid}] /\ registry \in [Name -> Inst \cup {NoInst}]
  BY <1>0 DEF TypeOK, InstTypes, ThreadTypes, MainTypes
<1> USE ConstantFacts DEF instVars, regVars, procVars, monVars, mainVars, histVars, Calling
<1>1. ASSUME NEW c \in Caller, StartRefused(c) PROVE Inv1'
  <2>1. on[c] \in Inst /\ spec[on[c]] # NoSpec
    BY <1>0, <1>1 DEF StartRefused, OnInv, NoObject
  <2>2. InstTypes'
    BY <1>0, <1>1 DEF StartRefused, TypeOK, InstTypes
  <2>3. ProcTypes'
    BY <1>0, <1>1 DEF StartRefused, TypeOK, ProcTypes
  <2>4. ThreadTypes'
    BY <1>0, <1>1 DEF StartRefused, Returned, TypeOK, ThreadTypes, PcType,
       MonitorPc, ClientPc, MainPc
  <2>5. MainTypes'
    BY <1>0, <1>1 DEF StartRefused, TypeOK, MainTypes
  <2>6. PcInv'
    BY <1>0, <1>t, <1>1 DEF StartRefused, Returned, PcInv, MonitorPc, ClientPc,
       MainPc
  <2>7. OnInv'
    BY <1>0, <1>t, <1>1, <2>1 DEF StartRefused, OnInv
  <2>8. RefInv'
    BY <1>0, <1>t, <1>1 DEF StartRefused, Returned, RefInv
  <2>9. QED
    BY <2>2, <2>3, <2>4, <2>5, <2>6, <2>7, <2>8 DEF Inv1, TypeOK
<1>2. ASSUME NEW c \in Caller, StartEnter(c) PROVE Inv1'
  <2>1. on[c] \in Inst /\ spec[on[c]] # NoSpec
    BY <1>0, <1>2 DEF StartEnter, OnInv, NoObject
  <2>2. InstTypes'
    BY <1>0, <1>2, <2>1 DEF StartEnter, TypeOK, InstTypes, StateType
  <2>3. ProcTypes'
    BY <1>0, <1>2 DEF StartEnter, TypeOK, ProcTypes
  <2>4. ThreadTypes'
    BY <1>0, <1>2 DEF StartEnter, Entered, TypeOK, ThreadTypes, PcType,
       MonitorPc, ClientPc
  <2>5. MainTypes'
    BY <1>0, <1>2 DEF StartEnter, TypeOK, MainTypes
  <2>6. PcInv'
    BY <1>0, <1>t, <1>2 DEF StartEnter, Entered, PcInv, MonitorPc, ClientPc,
       MainPc
  <2>7. OnInv'
    BY <1>0, <1>t, <1>2, <2>1 DEF StartEnter, OnInv
  <2>8. RefInv'
    BY <1>0, <1>t, <1>2 DEF StartEnter, Entered, RefInv
  <2>9. QED
    BY <2>2, <2>3, <2>4, <2>5, <2>6, <2>7, <2>8 DEF Inv1, TypeOK
<1>3. ASSUME NEW c \in Caller, StartFail(c) PROVE Inv1'
  <2>1. InstTypes'
    BY <1>0, <1>3 DEF StartFail, TypeOK, InstTypes, StateType
  <2>2. ProcTypes'
    BY <1>0, <1>3 DEF StartFail, TypeOK, ProcTypes
  <2>3. ThreadTypes'
    BY <1>0, <1>3 DEF StartFail, Returned, TypeOK, ThreadTypes, PcType,
       MonitorPc, ClientPc, MainPc
  <2>4. MainTypes'
    BY <1>0, <1>3 DEF StartFail, TypeOK, MainTypes
  <2>5. PcInv'
    BY <1>0, <1>t, <1>3 DEF StartFail, Returned, PcInv, MonitorPc, ClientPc,
       MainPc
  <2>6. OnInv'
    BY <1>0, <1>t, <1>3 DEF StartFail, OnInv, NoObject
  <2>7. RefInv'
    BY <1>0, <1>t, <1>3 DEF StartFail, Returned, RefInv
  <2>8. QED
    BY <2>1, <2>2, <2>3, <2>4, <2>5, <2>6, <2>7 DEF Inv1, TypeOK
<1>4. ASSUME NEW c \in Caller, StartFork(c) PROVE Inv1'
  <2>1. on[c] \in Inst /\ spec[on[c]] # NoSpec
    BY <1>0, <1>4 DEF StartFork, OnInv, NoObject
  <2>2. InstTypes'
    BY <1>0, <1>4, <2>1 DEF StartFork, TypeOK, InstTypes
  <2>3. ProcTypes'
    BY <1>0, <1>4, <2>1 DEF StartFork, TypeOK, ProcTypes
  <2>4. ThreadTypes'
    BY <1>0, <1>4 DEF StartFork, TypeOK, ThreadTypes
  <2>5. MainTypes'
    BY <1>0, <1>4 DEF StartFork, TypeOK, MainTypes
  <2>6. PcInv'
    BY <1>0, <1>t, <1>4 DEF StartFork, PcInv
  <2>7. OnInv'
    BY <1>0, <1>t, <1>4 DEF StartFork, OnInv
  <2>8. RefInv'
    BY <1>0, <1>t, <1>4 DEF StartFork, RefInv
  <2>9. QED
    BY <2>2, <2>3, <2>4, <2>5, <2>6, <2>7, <2>8 DEF Inv1, TypeOK
<1>5. ASSUME NEW c \in Caller, StartPublish(c) PROVE Inv1'
  <2>1. on[c] \in Inst /\ spec[on[c]] # NoSpec
    BY <1>0, <1>5 DEF StartPublish, OnInv, NoObject
  <2>2. launched[on[c]] \in Pid /\ launched[on[c]] # Main /\ launched[on[c]] \notin Client
    BY <1>0, <1>5, <2>1 DEF StartPublish, TypeOK, InstTypes
  <2>3. Returned(c, TRUE) \in IF c = Main THEN {"boot"} ELSE IF c \in Pid THEN {"done"} ELSE {"persist", "idle"}
    BY DEF Returned
  <2>4. InstTypes'
    BY <1>0, <1>5 DEF StartPublish, TypeOK, InstTypes, StateType
  <2>5. ProcTypes'
    BY <1>0, <1>5 DEF StartPublish, TypeOK, ProcTypes
  <2>6. ThreadTypes'
    BY <1>0, <1>5, <2>3 DEF StartPublish, TypeOK, ThreadTypes, PcType,
       MonitorPc, ClientPc, MainPc
  <2>7. MainTypes'
    BY <1>0, <1>5 DEF StartPublish, TypeOK, MainTypes
  <2>8. PcInv'
    <3>1. \A d \in Caller : pc'[d] = IF d = launched[on[c]] THEN "spawned"
                                     ELSE IF d = c THEN Returned(c, TRUE) ELSE pc[d]
      BY <1>t, <1>5, <2>2 DEF StartPublish
    <3>2. pc'[Main] \in MainPc
      BY <1>0, <2>2, <2>3, <3>1 DEF PcInv, MainPc
    <3>3. ASSUME NEW d \in Client PROVE pc'[d] \in ClientPc
      <4>1. pc'[d] = IF d = c THEN Returned(c, TRUE) ELSE pc[d]
        BY <2>2, <3>1
      <4>2. d = c => Returned(c, TRUE) \in ClientPc
        BY DEF Returned, ClientPc
      <4>3. QED
        BY <1>0, <4>1, <4>2 DEF PcInv
    <3>4. ASSUME NEW p \in Pid PROVE pc'[p] \in MonitorPc
      <4>1. pc'[p] \in {"spawned", pc[p]} \/ (p = c /\ pc'[p] = Returned(c, TRUE))
        BY <3>1
      <4>2. p = c => Returned(c, TRUE) = "done"
        BY DEF Returned
      <4>3. pc[p] \in MonitorPc /\ "spawned" \in MonitorPc /\ "done" \in MonitorPc
        BY <1>0 DEF PcInv, MonitorPc
      <4>4. QED
        BY <4>1, <4>2, <4>3
    <3>5. QED
      BY <3>2, <3>3, <3>4 DEF PcInv
  <2>9. OnInv'
    BY <1>0, <1>t, <1>5, <2>1 DEF StartPublish, OnInv
  <2>10. RefInv'
    BY <1>0, <1>t, <1>5, <2>3 DEF StartPublish, OnInv, RefInv, NoObject, PcInv,
       MonitorPc
  <2>11. QED
    BY <2>4, <2>5, <2>6, <2>7, <2>8, <2>9, <2>10 DEF Inv1, TypeOK
<1>6. ASSUME NEW p \in Pid, MonitorWait(p) PROVE Inv1'
  <2>1. on[p] \in Inst /\ spec[on[p]] # NoSpec
    BY <1>0, <1>6 DEF MonitorWait, OnInv, NoObject
  <2>2. cmd[on[p]] \in Pid
    BY <1>0, <1>6, <2>1 DEF MonitorWait, RefInv, TypeOK, InstTypes
  <2>3. InstTypes'
    BY <1>0, <1>6 DEF MonitorWait, TypeOK, InstTypes
  <2>4. ProcTypes'
    BY <1>0, <1>6 DEF MonitorWait, TypeOK, ProcTypes
  <2>5. ThreadTypes'
    BY <1>0, <1>6, <2>2 DEF MonitorWait, TypeOK, ThreadTypes, PcType, MonitorPc
  <2>6. MainTypes'
    BY <1>0, <1>6 DEF MonitorWait, TypeOK, MainTypes
  <2>7. PcInv'
    BY <1>0, <1>t, <1>6 DEF MonitorWait, PcInv, MonitorPc
  <2>8. OnInv'
    BY <1>0, <1>t, <1>6, <2>1 DEF MonitorWait, OnInv
  <2>9. RefInv'
    BY <1>0, <1>t, <1>6, <2>2 DEF MonitorWait, RefInv
  <2>10. QED
    BY <2>3, <2>4, <2>5, <2>6, <2>7, <2>8, <2>9 DEF Inv1, TypeOK
<1>7. ASSUME NEW p \in Pid, MonitorWaited(p) PROVE Inv1'
  <2>1. target[p] \in Pid
    BY <1>0, <1>7 DEF MonitorWaited, RefInv
  <2>2. status[target[p]] \in Int
    BY <1>0, <2>1 DEF TypeOK, ProcTypes
  <2>3. WaitCode(status[target[p]]) \in Int
    BY <2>2 DEF WaitCode
  <2>4. PICK code \in Int : exitCode' = Set(exitCode, p, code)
    BY <1>7, <2>3 DEF MonitorWaited
  <2>5. proc' \in [Pid -> {"unused", "running", "zombie", "reaped"}]
    BY <1>0, <1>7 DEF MonitorWaited, TypeOK, ProcTypes
  <2>6. InstTypes'
    BY <1>0, <1>7 DEF MonitorWaited, TypeOK, InstTypes
  <2>7. ProcTypes'
    BY <1>0, <1>7 DEF MonitorWaited, TypeOK, ProcTypes
  <2>8. ThreadTypes'
    BY <1>0, <1>7, <2>4 DEF MonitorWaited, TypeOK, ThreadTypes, PcType,
       MonitorPc
  <2>9. MainTypes'
    BY <1>0, <1>7 DEF MonitorWaited, TypeOK, MainTypes
  <2>10. PcInv'
    BY <1>0, <1>t, <1>7 DEF MonitorWaited, PcInv, MonitorPc
  <2>11. OnInv'
    BY <1>0, <1>t, <1>7 DEF MonitorWaited, OnInv, NoObject
  <2>12. RefInv'
    BY <1>0, <1>t, <1>7 DEF MonitorWaited, RefInv
  <2>13. QED
    BY <2>6, <2>7, <2>8, <2>9, <2>10, <2>11, <2>12 DEF Inv1, TypeOK
<1>8. ASSUME NEW p \in Pid, MonitorExit(p) PROVE Inv1'
    BY <1>8 DEF MonitorExit, Inv1, OnInv, RefInv, NoObject, PcInv, MonitorPc,
       ClientPc, TypeOK, InstTypes, ProcTypes, ThreadTypes, MainTypes, PcType,
       StateType
<1>9. ASSUME NEW p \in Pid, MonitorCount(p) PROVE Inv1'
  <2>1. on[p] \in Inst /\ spec[on[p]] # NoSpec
    BY <1>0, <1>9 DEF MonitorCount, OnInv, NoObject
  <2>2. restartCount[on[p]] \in Nat
    BY <1>0, <2>1 DEF TypeOK, InstTypes
  <2>3. restartCount[on[p]] + 1 \in Nat
    BY <2>2
  <2>4. InstTypes'
    BY <1>0, <1>9, <2>3 DEF MonitorCount, TypeOK, InstTypes
  <2>5. ProcTypes'
    BY <1>0, <1>9 DEF MonitorCount, TypeOK, ProcTypes
  <2>6. ThreadTypes'
    BY <1>0, <1>9, <2>3 DEF MonitorCount, TypeOK, ThreadTypes, PcType,
       MonitorPc
  <2>7. MainTypes'
    BY <1>0, <1>9 DEF MonitorCount, TypeOK, MainTypes
  <2>8. PcInv'
    BY <1>0, <1>t, <1>9 DEF MonitorCount, PcInv, MonitorPc
  <2>9. OnInv'
    BY <1>0, <1>t, <1>9, <2>1 DEF MonitorCount, OnInv
  <2>10. RefInv'
    BY <1>0, <1>t, <1>9 DEF MonitorCount, RefInv
  <2>11. QED
    BY <2>4, <2>5, <2>6, <2>7, <2>8, <2>9, <2>10 DEF Inv1, TypeOK
<1>10. ASSUME NEW c \in Client, NEW n \in Name, StartService(c, n) PROVE Inv1'
  <2>1. InstTypes'
    BY <1>0, <1>10 DEF StartService, TypeOK, InstTypes
  <2>2. ProcTypes'
    BY <1>0, <1>10 DEF StartService, TypeOK, ProcTypes
  <2>3. ThreadTypes'
    BY <1>0, <1>10 DEF StartService, TypeOK, ThreadTypes, MainTypes, PcType,
       MainPc
  <2>4. MainTypes'
    BY <1>0, <1>10, ConstantsAssumption DEF StartService, TypeOK, MainTypes
  <2>5. PcInv'
    BY <1>0, <1>t, <1>10 DEF StartService, PcInv, ClientPc
  <2>6. OnInv'
    BY <1>0, <1>t, <1>10 DEF StartService, OnInv, RefInv
  <2>7. RefInv'
    BY <1>0, <1>t, <1>10 DEF StartService, RefInv
  <2>8. QED
    BY <2>1, <2>2, <2>3, <2>4, <2>5, <2>6, <2>7 DEF Inv1, TypeOK
<1>11. ASSUME NEW c \in Client, NEW n \in Name, StopService(c, n) PROVE Inv1'
  <2>1. InstTypes'
    BY <1>0, <1>11 DEF StopService, TypeOK, InstTypes
  <2>2. ProcTypes'
    BY <1>0, <1>11 DEF StopService, TypeOK, ProcTypes
  <2>3. ThreadTypes'
    BY <1>0, <1>11 DEF StopService, TypeOK, ThreadTypes, MainTypes, PcType,
       ClientPc
  <2>4. MainTypes'
    BY <1>0, <1>11, ConstantsAssumption DEF StopService, TypeOK, MainTypes
  <2>5. PcInv'
    BY <1>0, <1>t, <1>11 DEF StopService, PcInv, ClientPc
  <2>6. OnInv'
    BY <1>0, <1>t, <1>11 DEF StopService, OnInv, RefInv
  <2>7. RefInv'
    BY <1>0, <1>t, <1>11 DEF StopService, RefInv
  <2>8. QED
    BY <2>1, <2>2, <2>3, <2>4, <2>5, <2>6, <2>7 DEF Inv1, TypeOK
<1>12. ASSUME NEW c \in Client, StopServiceStop(c) PROVE Inv1'
  <2>1. on[c] \in Inst /\ spec[on[c]] # NoSpec
    BY <1>0, <1>12 DEF StopServiceStop, OnInv, NoObject
  <2>2. state' \in [Inst -> StateType] /\ interrupted' \subseteq Pid /\ stopped' \subseteq Inst
    BY <1>0, <1>12, <2>1, StopTypes DEF StopServiceStop
  <2>3. InstTypes'
    BY <1>0, <1>12, <2>2 DEF StopServiceStop, TypeOK, InstTypes
  <2>4. ProcTypes'
    BY <1>0, <1>12, <2>2 DEF StopServiceStop, TypeOK, ProcTypes
  <2>5. ThreadTypes'
    BY <1>0, <1>12 DEF StopServiceStop, TypeOK, ThreadTypes, PcType, ClientPc
  <2>6. MainTypes'
    BY <1>0, <1>12, <2>2 DEF StopServiceStop, TypeOK, MainTypes
  <2>7. PcInv'
    BY <1>0, <1>t, <1>12 DEF StopServiceStop, PcInv, ClientPc
  <2>8. OnInv'
    BY <1>0, <1>t, <1>12, <2>1 DEF StopServiceStop, OnInv
  <2>9. RefInv'
    BY <1>0, <1>t, <1>12 DEF StopServiceStop, RefInv
  <2>10. QED
    BY <2>3, <2>4, <2>5, <2>6, <2>7, <2>8, <2>9 DEF Inv1, TypeOK
<1>13. ASSUME NEW c \in Client, NEW s \in Specs, NEW next \in {"loadswap", "applyswap"},
            Replace(c, s, next) PROVE Inv1'
  <2>1. s \in SpecType
    BY ConstantsAssumption
  <2>2. PICK i \in Inst : spec[i] = NoSpec /\ spec' = Set(spec, i, s) /\ on' = Set(on, c, i)
    BY <1>13 DEF Replace, Unmade
  <2>3. registry[s.name] \in Inst \cup {NoInst}
    BY <1>0, <2>1 DEF TypeOK, MainTypes, SpecType
  <2>4. spec'[i] # NoSpec /\ \A j \in Inst : spec[j] # NoSpec => spec'[j] # NoSpec
    BY <1>0, <2>1, <2>2, ConstantsAssumption DEF TypeOK, InstTypes
  <2>5. InstTypes'
    BY <1>0, <1>13, <2>1, <2>2 DEF Replace, TypeOK, InstTypes
  <2>6. ProcTypes'
    BY <1>0, <1>13 DEF Replace, TypeOK, ProcTypes
  <2>7. ThreadTypes'
    BY <1>0, <1>13, <2>2 DEF Replace, TypeOK, ThreadTypes, PcType, ClientPc
  <2>8. MainTypes'
    BY <1>0, <1>13, <2>3, ConstantsAssumption DEF Replace, TypeOK, MainTypes
  <2>9. PcInv'
    BY <1>0, <1>t, <1>13 DEF Replace, PcInv, ClientPc
  <2>10. OnInv'
    BY <1>0, <1>t, <1>13, <2>2, <2>4 DEF Replace, OnInv
  <2>11. RefInv'
    BY <1>0, <1>t, <1>13, <2>2, <2>4 DEF Replace, RefInv
  <2>12. QED
    BY <2>5, <2>6, <2>7, <2>8, <2>9, <2>10, <2>11 DEF Inv1, TypeOK
<1>swap. ASSUME NEW c \in Client, Swap(c) PROVE Inv1'
  <2>1. on[c] \in Inst /\ spec[on[c]] # NoSpec
    BY <1>0, <1>swap DEF Swap, OnInv, NoObject
  <2>2. spec[on[c]].name \in Name /\ existing[c] \in Inst \cup {NoInst}
    BY <1>0, <2>1 DEF TypeOK, InstTypes, MainTypes, SpecType
  <2>3. state' \in [Inst -> StateType] /\ interrupted' \subseteq Pid /\ stopped' \subseteq Inst
    BY <1>0, <1>swap, <2>2, StopTypes DEF Swap, TypeOK, InstTypes, ProcTypes,
       MainTypes
  <2>4. PICK next \in {"load", "start"} : pc' = Set(pc, c, next)
    BY <1>swap DEF Swap
  <2>5. InstTypes'
    BY <1>0, <1>swap, <2>3 DEF Swap, TypeOK, InstTypes
  <2>6. ProcTypes'
    BY <1>0, <1>swap, <2>3 DEF Swap, TypeOK, ProcTypes
  <2>7. ThreadTypes'
    BY <1>0, <1>swap, <2>4 DEF Swap, TypeOK, ThreadTypes, PcType, ClientPc
  <2>8. MainTypes'
    BY <1>0, <1>swap, <2>1, <2>2, <2>3 DEF Swap, TypeOK, MainTypes
  <2>9. PcInv'
    BY <1>0, <1>t, <2>4 DEF PcInv, ClientPc
  <2>10. OnInv'
    BY <1>0, <1>t, <1>swap, <2>1, <2>4 DEF Swap, OnInv
  <2>11. RefInv'
    BY <1>0, <1>t, <1>swap, <2>1, <2>2, <2>4 DEF Swap, RefInv
  <2>12. QED
    BY <2>5, <2>6, <2>7, <2>8, <2>9, <2>10, <2>11 DEF Inv1, TypeOK
<1>14. ASSUME NEW c \in Client, Persist(c) PROVE Inv1'
  <2>1. on[c] \in Inst /\ spec[on[c]] # NoSpec
    BY <1>0, <1>14 DEF Persist, OnInv, NoObject
  <2>2. spec[on[c]] \in SpecType /\ spec[on[c]].name \in Name
    BY <1>0, <2>1 DEF TypeOK, InstTypes, SpecType
  <2>3. InstTypes'
    BY <1>0, <1>14 DEF Persist, TypeOK, InstTypes
  <2>4. ProcTypes'
    BY <1>0, <1>14 DEF Persist, TypeOK, ProcTypes
  <2>5. ThreadTypes'
    BY <1>0, <1>14 DEF Persist, TypeOK, ThreadTypes, PcType, ClientPc
  <2>6. MainTypes'
    BY <1>0, <1>14, <2>2 DEF Persist, TypeOK, MainTypes
  <2>7. PcInv'
    BY <1>0, <1>t, <1>14 DEF Persist, PcInv, ClientPc
  <2>8. OnInv'
    BY <1>0, <1>t, <1>14, <2>1 DEF Persist, OnInv
  <2>9. RefInv'
    BY <1>0, <1>t, <1>14 DEF Persist, RefInv
  <2>10. QED
    BY <2>3, <2>4, <2>5, <2>6, <2>7, <2>8, <2>9 DEF Inv1, TypeOK
<1>write. ASSUME NEW c \in Client, PersistWrite(c) PROVE Inv1'
  <2>1. on[c] \in Inst /\ spec[on[c]] # NoSpec
    BY <1>0, <1>write DEF PersistWrite, OnInv, NoObject
  <2>2. spec[on[c]] \in SpecType /\ spec[on[c]].name \in Name
    BY <1>0, <2>1 DEF TypeOK, InstTypes, SpecType
  <2>3. InstTypes'
    BY <1>0, <1>write DEF PersistWrite, TypeOK, InstTypes
  <2>4. ProcTypes'
    BY <1>0, <1>write DEF PersistWrite, TypeOK, ProcTypes
  <2>5. ThreadTypes'
    BY <1>0, <1>write DEF PersistWrite, TypeOK, ThreadTypes, PcType, ClientPc
  <2>6. MainTypes'
    BY <1>0, <1>write, <2>2 DEF PersistWrite, TypeOK, MainTypes
  <2>7. PcInv'
    BY <1>0, <1>t, <1>write DEF PersistWrite, PcInv, ClientPc
  <2>8. OnInv'
    BY <1>0, <1>t, <1>write, <2>1 DEF PersistWrite, OnInv
  <2>9. RefInv'
    BY <1>0, <1>t, <1>write DEF PersistWrite, RefInv
  <2>10. QED
    BY <2>3, <2>4, <2>5, <2>6, <2>7, <2>8, <2>9 DEF Inv1, TypeOK
<1>15. ASSUME BootNext PROVE Inv1'
  <2>1. Head(bootLeft) \in SpecType /\ Tail(bootLeft) \in Seq(SpecType)
    BY <1>0, <1>15 DEF BootNext, TypeOK, MainTypes
  <2>2. PICK i \in Inst : /\ spec[i] = NoSpec /\ spec' = Set(spec, i, Head(bootLeft))
                         /\ registry' = Set(registry, Head(bootLeft).name, i) /\ on' = Set(on, Main, i)
    BY <1>15 DEF BootNext, Unmade
  <2>3. spec'[i] # NoSpec /\ \A j \in Inst : spec[j] # NoSpec => spec'[j] # NoSpec
    BY <1>0, <2>1, <2>2, ConstantsAssumption DEF TypeOK, InstTypes
  <2>4. InstTypes'
    BY <1>0, <1>15, <2>1, <2>2 DEF BootNext, TypeOK, InstTypes
  <2>5. ProcTypes'
    BY <1>0, <1>15 DEF BootNext, TypeOK, ProcTypes
  <2>6. ThreadTypes'
    BY <1>0, <1>15, <2>2 DEF BootNext, TypeOK, ThreadTypes, PcType, MainPc
  <2>7. MainTypes'
    BY <1>0, <1>15, <2>1, <2>2 DEF BootNext, TypeOK, MainTypes
  <2>8. PcInv'
    BY <1>0, <1>t, <1>15 DEF BootNext, PcInv, MainPc
  <2>9. OnInv'
    BY <1>0, <1>t, <1>15, <2>2, <2>3 DEF BootNext, OnInv
  <2>10. RefInv'
    <3>1. /\ pc[Main] = "boot" /\ pc'[Main] = "start" /\ \A p \in Pid : pc'[p] = pc[p] /\ on'[p] = on[p]
      BY <1>t, <1>15, <2>2 DEF BootNext
    <3>2. UNCHANGED <<cmd, target, reaped>>
      BY <1>15 DEF BootNext
    <3>3. \A n \in Name : registry'[n] # NoInst => spec'[registry'[n]] # NoSpec
      <4> SUFFICES ASSUME NEW n \in Name, registry'[n] # NoInst PROVE spec'[registry'[n]] # NoSpec
        OBVIOUS
      <4>1. registry'[n] = i \/ registry'[n] = registry[n]
        BY <1>t, <2>2
      <4>2. registry'[n] = registry[n] => registry[n] \in Inst /\ spec[registry[n]] # NoSpec
        BY <1>0, <1>t DEF RefInv
      <4>3. QED
        BY <2>3, <4>1, <4>2
    <3>4. QED
      BY <1>0, <3>1, <3>2, <3>3 DEF RefInv
  <2>11. QED
    BY <2>4, <2>5, <2>6, <2>7, <2>8, <2>9, <2>10 DEF Inv1, TypeOK
<1>16. ASSUME BootDone PROVE Inv1'
    BY <1>16 DEF BootDone, Inv1, OnInv, RefInv, NoObject, PcInv, MonitorPc,
       MainPc, TypeOK, InstTypes, ProcTypes, ThreadTypes, MainTypes, PcType
<1>17. ASSUME ReceiveChld PROVE Inv1'
    BY <1>17 DEF ReceiveChld, Inv1, OnInv, RefInv, NoObject, PcInv, MonitorPc,
       MainPc, TypeOK, InstTypes, ProcTypes, ThreadTypes, MainTypes, PcType
<1>18. ASSUME NEW p \in Pid, Reap(p) PROVE Inv1'
    BY <1>0, <1>18 DEF Reap, Inv1, OnInv, RefInv, NoObject, PcInv, MonitorPc,
       MainPc, TypeOK, InstTypes, ProcTypes, ThreadTypes, MainTypes, PcType
<1>19. ASSUME ReapDone PROVE Inv1'
    BY <1>19 DEF ReapDone, Inv1, OnInv, RefInv, NoObject, PcInv, MonitorPc,
       MainPc, TypeOK, InstTypes, ProcTypes, ThreadTypes, MainTypes, PcType
<1>20. ASSUME Match PROVE Inv1'
  <2>1. InstTypes'
    BY <1>0, <1>20 DEF Match, TypeOK, InstTypes
  <2>2. ProcTypes'
    BY <1>0, <1>20 DEF Match, TypeOK, ProcTypes
  <2>3. ThreadTypes'
    BY <1>0, <1>20 DEF Match, Registered, TypeOK, ThreadTypes, MainTypes,
       PcType, ClientPc, MainPc
  <2>4. MainTypes'
    BY <1>0, <1>20 DEF Match, TypeOK, MainTypes
  <2>5. PcInv'
    BY <1>0, <1>t, <1>20 DEF Match, PcInv, MainPc
  <2>6. OnInv'
    <3>1. \A c \in Caller \ {Main} : pc'[c] = pc[c] /\ on'[c] = on[c]
      BY <1>t, <1>20 DEF Match
    <3>2. spec' = spec
      BY <1>20 DEF Match
    <3>3. pc'[Main] \notin NoObject => on'[Main] \in Inst /\ spec[on'[Main]] # NoSpec
      <4>1. \A j \in Registered : j \in Inst /\ spec[j] # NoSpec
        BY <1>0, <1>t DEF Registered, RefInv
      <4>2. CASE pc' = Set(pc, Main, "reap")
        BY <1>t, <4>2 DEF NoObject
      <4>3. CASE \E j \in Registered : on' = Set(on, Main, j)
        BY <1>t, <4>1, <4>3
      <4>4. QED
        BY <1>20, <4>2, <4>3 DEF Match
    <3>4. QED
      BY <1>0, <3>1, <3>2, <3>3 DEF OnInv
  <2>7. RefInv'
    BY <1>0, <1>t, <1>20 DEF Match, Registered, OnInv, RefInv
  <2>8. QED
    BY <2>1, <2>2, <2>3, <2>4, <2>5, <2>6, <2>7 DEF Inv1, TypeOK
<1>21. ASSUME RecordExitStatus PROVE Inv1'
  <2>1. on[Main] \in Inst /\ spec[on[Main]] # NoSpec
    BY <1>0, <1>21 DEF RecordExitStatus, OnInv, NoObject
  <2>2. reaped \in Pid
    BY <1>0, <1>21 DEF RecordExitStatus, RefInv
  <2>3. ReaperCode(status[reaped]) \in Int
    BY <1>0, <2>2 DEF ReaperCode, TypeOK, ProcTypes
  <2>4. InstTypes'
    BY <1>0, <1>21, <2>3 DEF RecordExitStatus, TypeOK, InstTypes
  <2>5. ProcTypes'
    BY <1>0, <1>21 DEF RecordExitStatus, TypeOK, ProcTypes
  <2>6. ThreadTypes'
    BY <1>0, <1>21 DEF RecordExitStatus, TypeOK, ThreadTypes, PcType, MainPc
  <2>7. MainTypes'
    BY <1>0, <1>21 DEF RecordExitStatus, TypeOK, MainTypes
  <2>8. PcInv'
    BY <1>0, <1>t, <1>21 DEF RecordExitStatus, PcInv, MainPc
  <2>9. OnInv'
    BY <1>0, <1>t, <1>21, <2>1 DEF RecordExitStatus, OnInv
  <2>10. RefInv'
    BY <1>0, <1>t, <1>21 DEF RecordExitStatus, RefInv
  <2>11. QED
    BY <2>4, <2>5, <2>6, <2>7, <2>8, <2>9, <2>10 DEF Inv1, TypeOK
<1>22. ASSUME ReceiveTerm PROVE Inv1'
  <2>1. InstTypes'
    BY <1>0, <1>22 DEF ReceiveTerm, TypeOK, InstTypes
  <2>2. ProcTypes'
    BY <1>0, <1>22 DEF ReceiveTerm, TypeOK, ProcTypes
  <2>3. ThreadTypes'
    BY <1>0, <1>22 DEF ReceiveTerm, TypeOK, ThreadTypes, PcType, MainPc
  <2>4. MainTypes'
    BY <1>0, <1>22 DEF ReceiveTerm, Registered, TypeOK, MainTypes
  <2>5. PcInv'
    BY <1>0, <1>t, <1>22 DEF ReceiveTerm, PcInv, MainPc
  <2>6. OnInv'
    BY <1>0, <1>t, <1>22 DEF ReceiveTerm, OnInv, NoObject
  <2>7. RefInv'
    BY <1>0, <1>t, <1>22 DEF ReceiveTerm, RefInv
  <2>8. QED
    BY <2>1, <2>2, <2>3, <2>4, <2>5, <2>6, <2>7 DEF Inv1, TypeOK
<1>23. ASSUME NEW i \in Inst, ShutdownStop(i) PROVE Inv1'
  <2>1. state' \in [Inst -> StateType] /\ interrupted' \subseteq Pid /\ stopped' \subseteq Inst
    BY <1>0, <1>23, StopTypes DEF ShutdownStop
  <2>2. InstTypes'
    BY <1>0, <1>23, <2>1 DEF ShutdownStop, TypeOK, InstTypes
  <2>3. ProcTypes'
    BY <1>0, <1>23, <2>1 DEF ShutdownStop, TypeOK, ProcTypes
  <2>4. ThreadTypes'
    BY <1>0, <1>23 DEF ShutdownStop, TypeOK, ThreadTypes
  <2>5. MainTypes'
    BY <1>0, <1>23, <2>1 DEF ShutdownStop, TypeOK, MainTypes
  <2>6. PcInv'
    BY <1>0, <1>t, <1>23 DEF ShutdownStop, PcInv
  <2>7. OnInv'
    BY <1>0, <1>t, <1>23 DEF ShutdownStop, OnInv
  <2>8. RefInv'
    BY <1>0, <1>t, <1>23 DEF ShutdownStop, RefInv
  <2>9. QED
    BY <2>2, <2>3, <2>4, <2>5, <2>6, <2>7, <2>8 DEF Inv1, TypeOK
<1>24. ASSUME Exit PROVE Inv1'
    BY <1>24 DEF Exit, Inv1, OnInv, RefInv, NoObject, PcInv, MonitorPc, MainPc,
       TypeOK, InstTypes, ProcTypes, ThreadTypes, MainTypes, PcType
<1>25. ASSUME NEW p \in Pid, NEW st \in ExitStatus, ProcessExit(p, st) PROVE Inv1'
  <2>1. InstTypes'
    BY <1>0, <1>25 DEF ProcessExit, TypeOK, InstTypes
  <2>2. ProcTypes'
    BY <1>0, <1>25, ConstantsAssumption DEF ProcessExit, TypeOK, ProcTypes
  <2>3. ThreadTypes'
    BY <1>0, <1>25 DEF ProcessExit, TypeOK, ThreadTypes
  <2>4. MainTypes'
    BY <1>0, <1>25 DEF ProcessExit, Deliver, TypeOK, MainTypes
  <2>5. PcInv'
    BY <1>0, <1>t, <1>25 DEF ProcessExit, PcInv
  <2>6. OnInv'
    BY <1>0, <1>t, <1>25 DEF ProcessExit, OnInv
  <2>7. RefInv'
    BY <1>0, <1>t, <1>25 DEF ProcessExit, RefInv
  <2>8. QED
    BY <2>1, <2>2, <2>3, <2>4, <2>5, <2>6, <2>7 DEF Inv1, TypeOK
<1>26. ASSUME Terminate PROVE Inv1'
  <2>1. InstTypes'
    BY <1>0, <1>26 DEF Terminate, TypeOK, InstTypes
  <2>2. ProcTypes'
    BY <1>0, <1>26 DEF Terminate, TypeOK, ProcTypes
  <2>3. ThreadTypes'
    BY <1>0, <1>26 DEF Terminate, TypeOK, ThreadTypes, PcType, MainPc
  <2>4. MainTypes'
    BY <1>0, <1>26, ConstantsAssumption DEF Terminate, Deliver, TypeOK,
       MainTypes
  <2>5. PcInv'
    BY <1>0, <1>t, <1>26 DEF Terminate, PcInv, MainPc
  <2>6. OnInv'
    BY <1>0, <1>t, <1>26 DEF Terminate, OnInv, NoObject
  <2>7. RefInv'
    BY <1>0, <1>t, <1>26 DEF Terminate, RefInv
  <2>8. QED
    BY <2>1, <2>2, <2>3, <2>4, <2>5, <2>6, <2>7 DEF Inv1, TypeOK
<1>27. CASE UNCHANGED vars
  BY <1>27 DEF vars, Inv1, PcInv, OnInv, RefInv, TypeOK, InstTypes, ProcTypes,
     ThreadTypes, MainTypes
<1>28. QED
  BY <1>1, <1>2, <1>3, <1>4, <1>5, <1>6, <1>7, <1>8, <1>9, <1>10, <1>11,
     <1>12, <1>13, <1>14, <1>15, <1>16, <1>17, <1>18, <1>19, <1>20, <1>21,
     <1>22, <1>23, <1>24, <1>25, <1>26, <1>27, <1>swap, <1>write DEF Next, StartStep,
     MonitorStep, ClientStep, MainStep, LoadService, ApplyBundle

\* Every variable of the supervisor keeps its type: in particular ms.Cmd is set
\* before a monitor dereferences it (supervisor.go:215) and reaped names a child.
THEOREM TypeCorrect == Spec => []TypeOK
<1>1. Inv1 => TypeOK
  BY DEF Inv1
<1>2. QED
  BY Inv1Init, Inv1Step, <1>1, PTL DEF Spec
=============================================================================
