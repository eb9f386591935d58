----------------------------- MODULE Supervisor -----------------------------
(***************************************************************************)
(* karim-svcd: the ManagedService objects of internal/svcd/supervisor.go,  *)
(* one monitor goroutine per launched process, the control-plane handlers  *)
(* of cmd/karim-svcd/main.go and its main goroutine, which launches the    *)
(* boot services and then reaps every child on SIGCHLD.                    *)
(*                                                                         *)
(* An instance is one ManagedService.  Start holds ms.mu from its first    *)
(* line to its last, so it is three steps (enter, fork, publish or fail)   *)
(* between which the kernel, the reaper and the other instances move.      *)
(* Every other locked section is one step, enabled when ms.mu is free.     *)
(* sb.mu needs no variable.  Its sections are single steps but for two:    *)
(* LoadService and ApplyBundle hold it while they wait for the ms.mu of    *)
(* the service they replace, the shutdown loop holds it for reading.       *)
(***************************************************************************)
EXTENDS Integers, Sequences, FiniteSets

CONSTANTS
  Name,        \* service names
  Specs,       \* the service definitions a client may load
  BootSpecs,   \* the specs main starts, in dependency order (a sequence)
  ExitStatus,  \* how a process may end: n >= 0 exited, -s killed by signal s
  Client,      \* RPC connections, each served by a goroutine of its own
  Main,        \* the main goroutine
  NoSpec,
  Cut,         \* what an unfinished os.WriteFile leaves: an empty or partial file
  MaxInst,     \* bound: ManagedService objects ever made
  MaxPid,      \* bound: processes ever forked
  MaxOps       \* bound: control-plane commands ever issued

Inst == 1..MaxInst
Pid  == 1..MaxPid
NoPid  == 0
NoInst == 0
Caller == Client \cup Pid \cup {Main}
Policy == {"always", "on-failure", "never"}
SpecType == [name : Name, restart : Policy, max : Nat]

ASSUME ConstantsAssumption ==
  /\ MaxInst \in Nat /\ MaxPid \in Nat /\ MaxOps \in Nat
  /\ Specs \subseteq SpecType
  /\ BootSpecs \in Seq(SpecType) /\ Len(BootSpecs) <= MaxInst
  /\ NoSpec \notin SpecType /\ Cut \notin SpecType /\ Cut # NoSpec
  /\ ExitStatus \subseteq Int
  /\ Main \notin Client \cup Pid \cup {NoPid}
  /\ Client \cap (Pid \cup {NoPid}) = {}

VARIABLES
  \* ManagedService fields; mu is the Caller inside Start, or NoPid when free
  spec, state, cmd, mu, restartCount, exitCodeRecorded, recordedExitCode,
  \* Start's local cmd between cmd.Start() and ms.Cmd = cmd
  launched,
  \* supervisorBridge.managedServices and /etc/karim/services
  registry, disk,
  \* the entry LoadService or ApplyBundle found under sb.mu
  existing,
  \* the kernel's view of the service processes
  proc, status, owner, interrupted,
  \* goroutines: RPC clients, main, and the monitor spawned for each Pid
  pc, on,
  \* monitor locals: the process Cmd.Wait is called on, the exit code, count
  target, exitCode, attempt,
  \* main locals: signal channel, process just reaped, remaining work
  sigChan, reaped, bootLeft, toStop,
  \* history: instances whose Stop took effect, monitors that called Start
  \* again; and the number of commands issued
  stopped, relaunched, ops

instVars == <<spec, state, cmd, mu, restartCount, exitCodeRecorded,
              recordedExitCode, launched>>
regVars  == <<registry, disk, existing>>
procVars == <<proc, status, owner, interrupted>>
monVars  == <<target, exitCode, attempt>>
mainVars == <<sigChan, reaped, bootLeft, toStop>>
histVars == <<stopped, relaunched, ops>>
vars == <<instVars, regVars, procVars, pc, on, monVars, mainVars, histVars>>

\* Program counters.  "start", "load" and "backoff" are about to call Start,
\* "starting", "loading" and "restarting" are inside it.  "loadswap" and
\* "applyswap" hold sb.mu, "write" has opened the file of the service.
MonitorPc == {"none", "spawned", "waiting", "exited", "counting", "backoff",
              "restarting", "done"}
ClientPc  == {"idle", "start", "starting", "loadswap", "load", "loading",
              "applyswap", "stop", "persist", "write"}
MainPc    == {"boot", "start", "starting", "select", "reap", "match", "record",
              "shutdown", "gone"}

PcType == MonitorPc \cup ClientPc \cup MainPc
StateType == {"Stopped", "Starting", "Running", "Stopping", "Terminated"}

InstTypes ==
  /\ spec \in [Inst -> SpecType \cup {NoSpec}]
  /\ state \in [Inst -> StateType]
  /\ cmd \in [Inst -> Pid \cup {NoPid}]
  /\ mu \in [Inst -> Caller \cup {NoPid}]
  /\ restartCount \in [Inst -> Nat]
  /\ exitCodeRecorded \in [Inst -> BOOLEAN]
  /\ recordedExitCode \in [Inst -> Int]
  /\ launched \in [Inst -> Pid \cup {NoPid}]
ProcTypes ==
  /\ proc \in [Pid -> {"unused", "running", "zombie", "reaped"}]
  /\ status \in [Pid -> Int]
  /\ owner \in [Pid -> Inst \cup {NoInst}]
  /\ interrupted \subseteq Pid
ThreadTypes ==
  /\ pc \in [Caller -> PcType]
  /\ on \in [Caller -> Inst \cup {NoInst}]
  /\ target \in [Pid -> Pid \cup {NoPid}]
  /\ exitCode \in [Pid -> Int]
  /\ attempt \in [Pid -> Nat]
MainTypes ==
  /\ registry \in [Name -> Inst \cup {NoInst}]
  /\ disk \in [Name -> SpecType \cup {NoSpec, Cut}]
  /\ existing \in [Client -> Inst \cup {NoInst}]
  /\ sigChan \in {"none", "chld", "term"}
  /\ reaped \in Pid \cup {NoPid}
  /\ bootLeft \in Seq(SpecType)
  /\ toStop \subseteq Inst
  /\ stopped \subseteq Inst
  /\ relaunched \subseteq Pid
  /\ ops \in 0..MaxOps
TypeOK == InstTypes /\ ProcTypes /\ ThreadTypes /\ MainTypes

Init ==
  /\ spec = [i \in Inst |-> NoSpec]
  /\ state = [i \in Inst |-> "Stopped"]
  /\ cmd = [i \in Inst |-> NoPid]
  /\ mu = [i \in Inst |-> NoPid]
  /\ restartCount = [i \in Inst |-> 0]
  /\ exitCodeRecorded = [i \in Inst |-> FALSE]
  /\ recordedExitCode = [i \in Inst |-> 0]
  /\ launched = [i \in Inst |-> NoPid]
  /\ registry = [n \in Name |-> NoInst]
  /\ disk = [n \in Name |-> NoSpec]
  /\ existing = [c \in Client |-> NoInst]
  /\ proc = [p \in Pid |-> "unused"]
  /\ status = [p \in Pid |-> 0]
  /\ owner = [p \in Pid |-> NoInst]
  /\ interrupted = {}
  /\ pc = [c \in Caller |-> IF c = Main THEN "boot"
                            ELSE IF c \in Client THEN "idle" ELSE "none"]
  /\ on = [c \in Caller |-> NoInst]
  /\ target = [p \in Pid |-> NoPid]
  /\ exitCode = [p \in Pid |-> 0]
  /\ attempt = [p \in Pid |-> 0]
  /\ sigChan = "none"
  /\ reaped = NoPid
  /\ bootLeft = BootSpecs
  /\ toStop = {}
  /\ stopped = {}
  /\ relaunched = {}
  /\ ops = 0

-----------------------------------------------------------------------------
(* Helpers *)

Set(f, x, v) == [f EXCEPT ![x] = v]

\* Mutant: ms.mu is never taken.
FreeAlways(i) == TRUE

Free(i) == mu[i] = NoPid
Unmade == {i \in Inst : spec[i] = NoSpec}
Registered == {registry[n] : n \in Name} \ {NoInst}

\* signal.Notify is called only after the boot loop: an earlier SIGCHLD is
\* lost, and an earlier SIGTERM or SIGINT ends the process.
Notified == pc[Main] \in {"select", "reap", "match", "record", "shutdown"}

\* sb.mu.RLock() succeeds when no client holds the lock, sb.mu.Lock() when the
\* shutdown loop, which keeps its read lock until os.Exit, does not either.
RegistryReadable == \A c \in Client : pc[c] \notin {"loadswap", "applyswap"}
RegistryWritable == RegistryReadable /\ pc[Main] # "shutdown"

\* A buffered channel of one signal; the runtime drops what does not fit.
Deliver(sig) == sigChan' = IF Notified /\ sigChan = "none" THEN sig ELSE sigChan

\* err.ExitCode() of Cmd.Wait is -1 for a signalled process; the reaper
\* reports 128 + the signal.
WaitCode(st)   == IF st < 0 THEN -1 ELSE st
ReaperCode(st) == IF st < 0 THEN 128 - st ELSE st

\* Mutant: on-failure restarts after a clean exit too.
ShouldRestartClean(s, code) == s.restart # "never"

ShouldRestart(s, code) ==
  \/ s.restart = "always"
  \/ s.restart = "on-failure" /\ code # 0

\* Mutant: one restart too many.
MayRestartOnceMore(s, count) == ~(s.max > 0 /\ count > s.max + 1)

MayRestart(s, count) == ~(s.max > 0 /\ count > s.max)

-----------------------------------------------------------------------------
(* ManagedService.Start.  A caller is about to call it when its pc is      *)
(* "start" (main, an RPC), "load" (LoadService) or "backoff" (a monitor).  *)

Entered(p) == IF p = "start" THEN "starting"
              ELSE IF p = "load" THEN "loading" ELSE "restarting"

\* Mutant: LoadService ignores the error of Start.
ReturnedAnyway(c, ok) == IF c = Main THEN "boot"
                         ELSE IF c \in Pid THEN "done"
                         ELSE IF pc[c] = "loading" THEN "persist" ELSE "idle"

\* Where a caller goes when Start returns.
Returned(c, ok) == IF c = Main THEN "boot"
                   ELSE IF c \in Pid THEN "done"
                   ELSE IF pc[c] = "loading" /\ ok THEN "persist" ELSE "idle"

StartRefused(c) ==
  LET i == on[c] IN
  /\ pc[c] \in {"start", "load", "backoff"}
  /\ Free(i)
  /\ state[i] = "Running"
  /\ pc' = Set(pc, c, Returned(c, FALSE))
  /\ UNCHANGED <<instVars, regVars, procVars, on, monVars, mainVars, histVars>>

StartEnter(c) ==
  LET i == on[c] IN
  /\ pc[c] \in {"start", "load", "backoff"}
  /\ Free(i)
  /\ state[i] # "Running"
  /\ mu' = Set(mu, i, c)
  /\ exitCodeRecorded' = Set(exitCodeRecorded, i, FALSE)
  /\ recordedExitCode' = Set(recordedExitCode, i, 0)
  /\ state' = Set(state, i, "Starting")
  /\ pc' = Set(pc, c, Entered(pc[c]))
  /\ relaunched' = relaunched \cup ({c} \cap Pid)
  /\ UNCHANGED <<spec, cmd, restartCount, launched, regVars, procVars, on,
                 monVars, mainVars, stopped, ops>>

\* Mutant: an error path of Start returns without unlocking ms.mu.
StartFailLocked(c) ==
  /\ pc[c] \in {"starting", "loading", "restarting"}
  /\ launched[on[c]] = NoPid
  /\ state' = Set(state, on[c], "Stopped")
  /\ pc' = Set(pc, c, Returned(c, FALSE))
  /\ UNCHANGED <<spec, cmd, mu, restartCount, exitCodeRecorded,
                 recordedExitCode, launched, regVars, procVars, on, monVars,
                 mainVars, histVars>>

\* The executable is missing, a pipe cannot be made or cmd.Start fails.
StartFail(c) ==
  LET i == on[c] IN
  /\ pc[c] \in {"starting", "loading", "restarting"}
  /\ launched[i] = NoPid
  /\ state' = Set(state, i, "Stopped")
  /\ mu' = Set(mu, i, NoPid)
  /\ pc' = Set(pc, c, Returned(c, FALSE))
  /\ UNCHANGED <<spec, cmd, restartCount, exitCodeRecorded, recordedExitCode,
                 launched, regVars, procVars, on, monVars, mainVars, histVars>>

\* cmd.Start succeeds: the child exists, ms.Cmd does not name it yet.
StartFork(c) ==
  LET i == on[c] IN
  /\ pc[c] \in {"starting", "loading", "restarting"}
  /\ launched[i] = NoPid
  /\ \E p \in Pid :
       /\ proc[p] = "unused"
       /\ \A q \in Pid : q < p => proc[q] # "unused"
       /\ launched' = Set(launched, i, p)
       /\ proc' = Set(proc, p, "running")
       /\ owner' = Set(owner, p, i)
  /\ UNCHANGED <<spec, state, cmd, mu, restartCount, exitCodeRecorded,
                 recordedExitCode, regVars, status, interrupted, pc, on,
                 monVars, mainVars, histVars>>

\* ms.Cmd = cmd; ms.State = StateRunning; go ms.monitor(); unlock.
StartPublish(c) ==
  LET i == on[c]
      p == launched[i] IN
  /\ pc[c] \in {"starting", "loading", "restarting"}
  /\ p # NoPid
  /\ cmd' = Set(cmd, i, p)
  /\ state' = Set(state, i, "Running")
  /\ launched' = Set(launched, i, NoPid)
  /\ mu' = Set(mu, i, NoPid)
  /\ pc' = [pc EXCEPT ![c] = Returned(c, TRUE), ![p] = "spawned"]
  /\ on' = Set(on, p, i)
  /\ UNCHANGED <<spec, restartCount, exitCodeRecorded, recordedExitCode,
                 regVars, procVars, monVars, mainVars, histVars>>

-----------------------------------------------------------------------------
(* ManagedService.Stop: SIGINT to a running service, nothing otherwise.    *)

Stop(i) ==
  IF state[i] = "Running" /\ cmd[i] # NoPid
  THEN /\ state' = Set(state, i, "Stopping")
       /\ interrupted' = IF proc[cmd[i]] = "running"
                         THEN interrupted \cup {cmd[i]} ELSE interrupted
       /\ stopped' = stopped \cup {i}
  ELSE UNCHANGED <<state, interrupted, stopped>>

-----------------------------------------------------------------------------
(* ManagedService.monitor, one goroutine per launched process.             *)

\* Line 215 reads ms.Cmd without ms.mu: a later Start may have replaced it.
MonitorWait(p) ==
  /\ pc[p] = "spawned"
  /\ target' = Set(target, p, cmd[on[p]])
  /\ pc' = Set(pc, p, "waiting")
  /\ UNCHANGED <<instVars, regVars, procVars, on, exitCode, attempt, mainVars,
                 histVars>>

\* Cmd.Wait returns.  It reaps the process itself, or finds it reaped already:
\* "no child processes" counts as code 0, and a second Wait on the same Cmd
\* may instead fail with an error that counts as code 1.
MonitorWaited(p) ==
  LET q == target[p] IN
  /\ pc[p] = "waiting"
  /\ \/ /\ proc[q] = "zombie"
        /\ proc' = Set(proc, q, "reaped")
        /\ exitCode' = Set(exitCode, p, WaitCode(status[q]))
     \/ /\ proc[q] = "reaped"
        /\ \E code \in IF \E r \in Pid \ {p} : target[r] = q THEN {0, 1} ELSE {0} :
             exitCode' = Set(exitCode, p, code)
        /\ UNCHANGED proc
  /\ pc' = Set(pc, p, "exited")
  /\ UNCHANGED <<instVars, regVars, status, owner, interrupted, on, target,
                 attempt, mainVars, histVars>>

\* Lines 217-256: the first locked section and the restart policy.
MonitorExit(p) ==
  LET i == on[p]
      code == IF exitCodeRecorded[i] THEN recordedExitCode[i] ELSE exitCode[p] IN
  /\ pc[p] = "exited"
  /\ Free(i)
  /\ state' = Set(state, i, "Terminated")
  /\ exitCode' = Set(exitCode, p, code)
  /\ pc' = Set(pc, p, IF ShouldRestart(spec[i], code) THEN "counting" ELSE "done")
  /\ UNCHANGED <<spec, cmd, mu, restartCount, exitCodeRecorded,
                 recordedExitCode, launched, regVars, procVars, on, target,
                 attempt, mainVars, histVars>>

\* Mutant: RestartCount-- for RestartCount++.
MonitorCountDown(p) ==
  LET i == on[p]
      count == restartCount[i] - 1 IN
  /\ pc[p] = "counting"
  /\ Free(i)
  /\ restartCount' = Set(restartCount, i, count)
  /\ attempt' = Set(attempt, p, count)
  /\ pc' = Set(pc, p, IF MayRestart(spec[i], count) THEN "backoff" ELSE "done")
  /\ UNCHANGED <<spec, state, cmd, mu, exitCodeRecorded, recordedExitCode,
                 launched, regVars, procVars, on, target, exitCode, mainVars,
                 histVars>>

\* Lines 258-282: count the restart, give up beyond max_restarts, else sleep.
MonitorCount(p) ==
  LET i == on[p]
      count == restartCount[i] + 1 IN
  /\ pc[p] = "counting"
  /\ Free(i)
  /\ restartCount' = Set(restartCount, i, count)
  /\ attempt' = Set(attempt, p, count)
  /\ pc' = Set(pc, p, IF MayRestart(spec[i], count) THEN "backoff" ELSE "done")
  /\ UNCHANGED <<spec, state, cmd, mu, exitCodeRecorded, recordedExitCode,
                 launched, regVars, procVars, on, target, exitCode, mainVars,
                 histVars>>

-----------------------------------------------------------------------------
(* supervisorBridge: one goroutine per connection                          *)

\* StartService looks the name up under sb.mu and calls Start after it.
StartService(c, n) ==
  /\ pc[c] = "idle" /\ ops < MaxOps
  /\ RegistryReadable
  /\ registry[n] # NoInst
  /\ ops' = ops + 1
  /\ pc' = Set(pc, c, "start")
  /\ on' = Set(on, c, registry[n])
  /\ UNCHANGED <<instVars, regVars, procVars, monVars, mainVars, stopped,
                 relaunched>>

StopService(c, n) ==
  /\ pc[c] = "idle" /\ ops < MaxOps
  /\ RegistryReadable
  /\ registry[n] # NoInst
  /\ ops' = ops + 1
  /\ pc' = Set(pc, c, "stop")
  /\ on' = Set(on, c, registry[n])
  /\ UNCHANGED <<instVars, regVars, procVars, monVars, mainVars, stopped,
                 relaunched>>

StopServiceStop(c) ==
  /\ pc[c] = "stop"
  /\ Free(on[c])
  /\ Stop(on[c])
  /\ pc' = Set(pc, c, "idle")
  /\ UNCHANGED <<spec, cmd, mu, restartCount, exitCodeRecorded, recordedExitCode,
                 launched, regVars, proc, status, owner, on, monVars, mainVars,
                 relaunched, ops>>

\* LoadService and ApplyBundle make a ManagedService, lock sb.mu and look up
\* the one to replace.
Replace(c, s, next) ==
  /\ pc[c] = "idle" /\ ops < MaxOps
  /\ RegistryWritable
  /\ Cardinality(Unmade) > Len(bootLeft)   \* bound: keep objects for the boot
  /\ existing' = Set(existing, c, registry[s.name])
  /\ \E i \in Unmade :
       /\ \A j \in Unmade : i <= j
       /\ spec' = Set(spec, i, s)
       /\ on' = Set(on, c, i)
  /\ ops' = ops + 1
  /\ pc' = Set(pc, c, next)
  /\ UNCHANGED <<state, cmd, mu, restartCount, exitCodeRecorded, recordedExitCode,
                 launched, registry, disk, procVars, monVars, mainVars, stopped,
                 relaunched>>

LoadService(c, s) == Replace(c, s, "loadswap")

\* A bundle is started like a loaded service but never written to disk.
ApplyBundle(c, s) == Replace(c, s, "applyswap")

\* With sb.mu held: wait for the ms.mu of the old service, stop it, take its
\* name and unlock.
Swap(c) ==
  LET i == on[c]
      old == existing[c] IN
  /\ pc[c] \in {"loadswap", "applyswap"}
  /\ IF old = NoInst THEN UNCHANGED <<state, interrupted, stopped>>
                     ELSE Free(old) /\ Stop(old)
  /\ registry' = Set(registry, spec[i].name, i)
  /\ pc' = Set(pc, c, IF pc[c] = "loadswap" THEN "load" ELSE "start")
  /\ UNCHANGED <<spec, cmd, mu, restartCount, exitCodeRecorded, recordedExitCode,
                 launched, disk, existing, proc, status, owner, on, monVars,
                 mainVars, relaunched, ops>>

\* LoadService after a successful Start: os.WriteFile opens <name>.toml with
\* O_TRUNC, or cannot open it.
Persist(c) ==
  LET s == spec[on[c]] IN
  /\ pc[c] = "persist"
  /\ \/ disk' = Set(disk, s.name, Cut) /\ pc' = Set(pc, c, "write")
     \/ UNCHANGED disk /\ pc' = Set(pc, c, "idle")
  /\ UNCHANGED <<instVars, registry, existing, procVars, on, monVars, mainVars,
                 histVars>>

\* Then it writes from offset 0: all of it; or only a part, or over a longer
\* text that another load has written meanwhile; or nothing.  An error is only
\* printed.
PersistWrite(c) ==
  LET s == spec[on[c]] IN
  /\ pc[c] = "write"
  /\ \E text \in {s, Cut, disk[s.name]} : disk' = Set(disk, s.name, text)
  /\ pc' = Set(pc, c, "idle")
  /\ UNCHANGED <<instVars, registry, existing, procVars, on, monVars, mainVars,
                 histVars>>

-----------------------------------------------------------------------------
(* The main goroutine: boot loop, then the signal loop                     *)

\* The map write of line 287 takes no lock.
BootNext ==
  /\ pc[Main] = "boot"
  /\ bootLeft # <<>>
  /\ LET s == Head(bootLeft) IN
     \E i \in Unmade :
       /\ \A j \in Unmade : i <= j
       /\ spec' = Set(spec, i, s)
       /\ registry' = Set(registry, s.name, i)
       /\ on' = Set(on, Main, i)
  /\ bootLeft' = Tail(bootLeft)
  /\ pc' = Set(pc, Main, "start")
  /\ UNCHANGED <<state, cmd, mu, restartCount, exitCodeRecorded,
                 recordedExitCode, launched, disk, existing, procVars, monVars,
                 sigChan, reaped, toStop, histVars>>

BootDone ==
  /\ pc[Main] = "boot"
  /\ bootLeft = <<>>
  /\ pc' = Set(pc, Main, "select")
  /\ UNCHANGED <<instVars, regVars, procVars, on, monVars, mainVars, histVars>>

ReceiveChld ==
  /\ pc[Main] = "select"
  /\ sigChan = "chld"
  /\ sigChan' = "none"
  /\ pc' = Set(pc, Main, "reap")
  /\ UNCHANGED <<instVars, regVars, procVars, on, monVars, reaped, bootLeft,
                 toStop, histVars>>

\* Wait4(-1, WNOHANG) consumes the status of any zombie child.
Reap(p) ==
  /\ pc[Main] = "reap"
  /\ proc[p] = "zombie"
  /\ proc' = Set(proc, p, "reaped")
  /\ reaped' = p
  /\ pc' = Set(pc, Main, "match")
  /\ UNCHANGED <<instVars, regVars, status, owner, interrupted, on, monVars,
                 sigChan, bootLeft, toStop, histVars>>

\* Mutant: one Wait4 per SIGCHLD.
ReapOne ==
  /\ pc[Main] = "reap"
  /\ pc' = Set(pc, Main, "select")
  /\ UNCHANGED <<instVars, regVars, procVars, on, monVars, mainVars, histVars>>

ReapDone ==
  /\ pc[Main] = "reap"
  /\ \A p \in Pid : proc[p] # "zombie"
  /\ pc' = Set(pc, Main, "select")
  /\ UNCHANGED <<instVars, regVars, procVars, on, monVars, mainVars, histVars>>

\* Find the registered service whose Cmd has this pid; else log an orphan.
Match ==
  LET found == {i \in Registered : cmd[i] = reaped} IN
  /\ pc[Main] = "match"
  /\ RegistryReadable
  /\ \/ /\ found # {}
        /\ \E i \in found : on' = Set(on, Main, i)
        /\ pc' = Set(pc, Main, "record")
     \/ /\ found = {}
        /\ pc' = Set(pc, Main, "reap")
        /\ UNCHANGED on
  /\ UNCHANGED <<instVars, regVars, procVars, monVars, mainVars, histVars>>

RecordExitStatus ==
  LET i == on[Main] IN
  /\ pc[Main] = "record"
  /\ Free(i)
  /\ exitCodeRecorded' = Set(exitCodeRecorded, i, TRUE)
  /\ recordedExitCode' = Set(recordedExitCode, i, ReaperCode(status[reaped]))
  /\ pc' = Set(pc, Main, "reap")
  /\ UNCHANGED <<spec, state, cmd, mu, restartCount, launched, regVars,
                 procVars, on, monVars, mainVars, histVars>>

ReceiveTerm ==
  /\ pc[Main] = "select"
  /\ sigChan = "term"
  /\ RegistryReadable
  /\ sigChan' = "none"
  /\ toStop' = Registered
  /\ pc' = Set(pc, Main, "shutdown")
  /\ UNCHANGED <<instVars, regVars, procVars, on, monVars, reaped, bootLeft,
                 histVars>>

ShutdownStop(i) ==
  /\ pc[Main] = "shutdown"
  /\ i \in toStop
  /\ Free(i)
  /\ Stop(i)
  /\ toStop' = toStop \ {i}
  /\ UNCHANGED <<spec, cmd, mu, restartCount, exitCodeRecorded, recordedExitCode,
                 launched, regVars, proc, status, owner, pc, on, monVars,
                 sigChan, reaped, bootLeft, relaunched, ops>>

Exit ==
  /\ pc[Main] = "shutdown"
  /\ toStop = {}
  /\ pc' = Set(pc, Main, "gone")
  /\ UNCHANGED <<instVars, regVars, procVars, on, monVars, mainVars, histVars>>

-----------------------------------------------------------------------------
(* The environment: processes end and the supervisor is asked to terminate *)

ProcessExit(p, st) ==
  /\ proc[p] = "running"
  /\ proc' = Set(proc, p, "zombie")
  /\ status' = Set(status, p, st)
  /\ Deliver("chld")
  /\ UNCHANGED <<instVars, regVars, owner, interrupted, pc, on, monVars, reaped,
                 bootLeft, toStop, histVars>>

\* Before signal.Notify the default action ends the process at once.
Terminate ==
  /\ ops < MaxOps
  /\ ops' = ops + 1
  /\ \/ Notified /\ Deliver("term") /\ UNCHANGED pc
     \/ ~Notified /\ pc' = Set(pc, Main, "gone") /\ UNCHANGED sigChan
  /\ UNCHANGED <<instVars, regVars, procVars, on, monVars, reaped, bootLeft,
                 toStop, stopped, relaunched>>

-----------------------------------------------------------------------------
StartStep(c) == StartRefused(c) \/ StartEnter(c) \/ StartFork(c)
                  \/ StartPublish(c) \/ StartFail(c)
MonitorStep(p) == MonitorWait(p) \/ MonitorWaited(p) \/ MonitorExit(p)
                    \/ MonitorCount(p)
ClientStep(c) ==
  \/ \E n \in Name : StartService(c, n) \/ StopService(c, n)
  \/ \E s \in Specs : LoadService(c, s) \/ ApplyBundle(c, s)
  \/ StopServiceStop(c) \/ Swap(c) \/ Persist(c) \/ PersistWrite(c)
MainStep ==
  \/ BootNext \/ BootDone
  \/ ReceiveChld \/ (\E p \in Pid : Reap(p)) \/ ReapDone \/ Match \/ RecordExitStatus
  \/ ReceiveTerm \/ (\E i \in Inst : ShutdownStop(i)) \/ Exit

\* The end of the process ends every goroutine, and Pdeathsig the children with them.
Next ==
  /\ pc[Main] # "gone"
  /\ \/ \E c \in Caller : StartStep(c)
     \/ \E p \in Pid : MonitorStep(p)
     \/ \E c \in Client : ClientStep(c)
     \/ MainStep
     \/ \E p \in Pid, st \in ExitStatus : ProcessExit(p, st)
     \/ Terminate

Spec == Init /\ [][Next]_vars

-----------------------------------------------------------------------------
(* Properties *)

Live(i) == {p \in Pid : owner[p] = i /\ proc[p] = "running"}

\* Unless Stop was ever applied to it, a service never has two live processes:
\* neither the restart of a monitor nor a concurrent StartService can launch a
\* second one while the first runs, whoever reaps what in between.
SingleProcess == \A i \in Inst \ stopped : \A p, q \in Live(i) : p = q

\* What restartCount enforces (supervisor.go:258-269): a ManagedService is never
\* restarted more than max_restarts times, even when several monitors of it
\* count at the same time.  The count is of the whole life of the object: no
\* time that passes and no manual start gives the service a new budget.
RestartBudget ==
  \A i \in Inst : (spec[i] # NoSpec /\ spec[i].max > 0) =>
    Cardinality({p \in relaunched : on[p] = i}) <= spec[i].max

\* An "on-failure" service that was never stopped is restarted only if one of
\* its processes really failed, although the status may be consumed by main,
\* read late, or lost to the "no child processes" branch.
RestartNeedsFailure ==
  \A p \in Pid :
    (/\ pc[p] \in {"counting", "backoff", "restarting"}
     /\ on[p] \notin stopped
     /\ spec[on[p]].restart = "on-failure")
      => \E q \in Pid : owner[q] = on[p] /\ status[q] # 0

\* LoadService touches the file of a service only after it has launched a
\* process of a definition of that name, and a whole definition on disk is one
\* that was launched, however the writes of two loads of one name interleave or
\* fail.  A failed write may still have destroyed the definition before it.
PersistedWasLaunched ==
  \A n \in Name : disk[n] # NoSpec =>
    \E i \in Inst : /\ cmd[i] # NoPid
                    /\ spec[i] = disk[n] \/ (disk[n] = Cut /\ spec[i].name = n)

-----------------------------------------------------------------------------
(* Liveness.  Go schedules every runnable goroutine and sync.Mutex hands a *)
(* lock to a waiter that has starved: strong fairness for the steps that   *)
(* take ms.mu.  Nothing is assumed of processes, clients or signals.       *)

Fairness ==
  /\ \A c \in Caller : SF_vars(pc[Main] # "gone" /\ StartStep(c))
  /\ \A p \in Pid : SF_vars(pc[Main] # "gone" /\ MonitorStep(p))
  /\ \A c \in Client : SF_vars(/\ pc[Main] # "gone"
                                /\ \/ StopServiceStop(c) \/ Swap(c)
                                   \/ Persist(c) \/ PersistWrite(c))
  /\ SF_vars(MainStep)

FairSpec == Spec /\ Fairness

\* The exit of a service that was never stopped is handled to the end: the
\* zombie is reaped and its monitor finishes, whether or not main's reaper
\* consumed the status first, unless the supervisor itself exits.
ExitHandled ==
  \A p \in Pid : proc[p] = "zombie" ~>
    \/ proc[p] = "reaped" /\ pc[p] = "done"
    \/ owner[p] \in stopped
    \/ pc[Main] = "gone"

\* One SIGCHLD in the channel stands for every exit so far: the drain loop
\* leaves no zombie behind, whichever service it belonged to.
ReaperDrains ==
  \A p \in Pid : sigChan = "chld" /\ proc[p] = "zombie" ~>
    proc[p] = "reaped" \/ pc[Main] = "gone"

\* A termination signal that reached the channel is acted on: main's loop over
\* the services and their locks always gets to os.Exit.
TermHandled == sigChan = "term" ~> pc[Main] = "gone"

-----------------------------------------------------------------------------
(* What the documentation says of the supervisor                           *)

Decided(p) == pc[p] \in {"counting", "backoff", "restarting", "done"}

\* "every exit was reported with its true code or signal": a monitor never
\* takes a failed run for a clean one.
FailureSeen ==
  \A p \in Pid : Decided(p) /\ status[p] # 0 => exitCode[p] # 0

\* "karim stop is never undone by restart = always": the monitor of a process
\* that Stop signalled does not launch the service again.
StopSticks == interrupted \cap relaunched = {}

\* "a replaced service can never keep running outside the registry": Stop
\* reaches every process of a service that has left the registry.
ReplacedStops ==
  \A i \in Inst : Live(i) \subseteq interrupted \/ i \in Registered
=============================================================================
