------------------------------ MODULE Snapshot ------------------------------
(***************************************************************************)
(* `karim snapshot save | restore | delete`: host processes that run the   *)
(* orchestrator (internal/snapshot), the guest's quiesce and unquiesce     *)
(* commands they call over VSOCK (internal/vsockd, internal/system), and   *)
(* the QEMU monitor they drive through internal/qmp.                       *)
(*                                                                         *)
(* MaxFaults bounds the failures: a monitor that cannot be reached, a      *)
(* monitor connection that breaks, a VSOCK connection that fails or breaks *)
(* and a guest command with failing steps.  That QEMU refuses a monitor    *)
(* command with an error is always possible.                               *)
(***************************************************************************)
EXTENDS Naturals

CONSTANTS
  Client,       \* host processes, one operation at a time each
  Tag,          \* snapshot names
  None,
  VSockTarget,  \* a guest address is configured
  Freezable,    \* FIFREEZE works on the guest's root filesystem
  MaxOps,       \* bound: operations started in all
  MaxFaults     \* bound: failures of all kinds

ASSUME SnapshotAssumption ==
  /\ None \notin Client /\ None \notin Tag
  /\ VSockTarget \in BOOLEAN /\ Freezable \in BOOLEAN
  /\ {MaxOps, MaxFaults} \subseteq Nat

VARIABLES
  pc, op, tag, pause,   \* per client: step, operation, its tag, PauseVM
  quiesced,             \* per client: the quiesce call succeeded
  rpc,                  \* per client: its guest call, "lost" once broken
  orphans,              \* guest calls delivered whose client is gone
  monitor,              \* the client QEMU's monitor serves, one at a time
  running,              \* the virtual CPUs run
  images,               \* QEMU's stored snapshots
  frozen,               \* the guest's filesystem
  reseeded, clockSet,   \* the guest's entropy and its clock, since loadvm
  swallowed,            \* history: the guest steps whose last attempt failed
  contRefused,          \* history: QEMU answered the last cont with an error
  overlapped,           \* history: two operations were in progress at once
  loadLost,             \* history: QEMU loaded an image, its answer was lost
  ops, dialFails, qmpLosses, vsockLosses, guestFails

clientVars == <<op, tag, pause>>
guestVars == <<frozen, reseeded, clockSet, swallowed, guestFails>>
qemuVars == <<monitor, running, images, contRefused>>
histVars == <<overlapped, loadLost>>
faultVars == <<dialFails, qmpLosses, vsockLosses>>
vars == <<pc, clientVars, quiesced, rpc, orphans, qemuVars,
          guestVars, histVars, ops, faultVars>>

Command == {"quiesce", "unquiesce"}
Init ==
  /\ pc = [c \in Client |-> "idle"]
  /\ op = [c \in Client |-> "save"]
  /\ tag \in {[c \in Client |-> t] : t \in Tag} /\ pause = [c \in Client |-> TRUE]
  /\ quiesced = [c \in Client |-> FALSE]
  /\ rpc = [c \in Client |-> "none"]
  /\ orphans = [m \in Command |-> 0]
  /\ monitor = None /\ running = TRUE
  /\ images = [t \in Tag |-> None]
  /\ frozen = FALSE /\ reseeded = TRUE /\ clockSet = TRUE
  /\ swallowed = {} /\ contRefused = FALSE
  /\ overlapped = FALSE /\ loadLost = FALSE
  /\ ops = 0 /\ dialFails = 0 /\ qmpLosses = 0 /\ vsockLosses = 0 /\ guestFails = 0

Set(f, x, v) == [f EXCEPT ![x] = v]
MayFail == dialFails + qmpLosses + vsockLosses + guestFails < MaxFaults
Goto(c, l) == pc' = Set(pc, c, l)

\* Mutant: the connection is left open.
ReleaseNever(c) == UNCHANGED monitor

\* A deferred Close gives the monitor to the next client.
Release(c) == monitor' = IF monitor = c THEN None ELSE monitor

\* The operation returns and its local variables are gone.  What it returns is
\* left out: only the user sees it.
Ends(c) ==
  /\ Goto(c, "idle")
  /\ op' = Set(op, c, "save") /\ pause' = Set(pause, c, TRUE)
  /\ quiesced' = Set(quiesced, c, FALSE)
  /\ UNCHANGED tag
Return(c) == Ends(c) /\ Release(c)

-----------------------------------------------------------------------------
(* The guest                                                               *)

\* What each command does in the guest; any of it may fail.
GuestSteps(m) == IF m = "quiesce" THEN {"freeze"} ELSE {"thaw", "reseed", "clock"}

\* Mutant: unquiesce sets the clock but does not reseed.
GuestDoNoReseed(m) ==
  \E bad \in SUBSET GuestSteps(m) :
    LET done == GuestSteps(m) \ bad IN
    /\ IF bad = {} THEN UNCHANGED guestFails
                   ELSE MayFail /\ guestFails' = guestFails + 1
    /\ frozen' = ((frozen \/ (Freezable /\ "freeze" \in done)) /\ "thaw" \notin done)
    /\ clockSet' = (clockSet \/ "clock" \in done)
    /\ swallowed' = (swallowed \ done) \cup bad
    /\ UNCHANGED reseeded

\* Quiesce and Unquiesce of the bridge.  What FIFREEZE does not support is no
\* error, and an already frozen filesystem (EBUSY) is not either.  A step that
\* fails is at most printed: / cannot be opened or an ioctl fails, /dev/urandom
\* cannot be opened, there is no RTC or it cannot be read.  The others are
\* still done.
GuestDo(m) ==
  \E bad \in SUBSET GuestSteps(m) :
    LET done == GuestSteps(m) \ bad IN
    /\ IF bad = {} THEN UNCHANGED guestFails
                   ELSE MayFail /\ guestFails' = guestFails + 1
    /\ frozen' = ((frozen \/ (Freezable /\ "freeze" \in done)) /\ "thaw" \notin done)
    /\ reseeded' = (reseeded \/ "reseed" \in done)
    /\ clockSet' = (clockSet \/ "clock" \in done)
    /\ swallowed' = (swallowed \ done) \cup bad

CommandOf(c) == IF pc[c] = "quiescing" THEN "quiesce" ELSE "unquiesce"

\* The server's goroutine for the connection of c; it answers success.
Dispatch(c) ==
  /\ rpc[c] = "sent" /\ running
  /\ GuestDo(CommandOf(c))
  /\ rpc' = Set(rpc, c, "done")
  /\ UNCHANGED <<pc, clientVars, quiesced, orphans, qemuVars, histVars, ops, faultVars>>

\* The same for a request whose client stopped waiting.
DispatchOrphan(m) ==
  /\ orphans[m] > 0 /\ running
  /\ GuestDo(m)
  /\ orphans' = [orphans EXCEPT ![m] = @ - 1]
  /\ UNCHANGED <<pc, clientVars, quiesced, rpc, qemuVars, histVars, ops, faultVars>>

\* The connection breaks before the answer; the request may still arrive.
VsockBreaks(c) ==
  /\ rpc[c] \in {"sent", "done"}
  /\ MayFail /\ vsockLosses' = vsockLosses + 1
  /\ \/ UNCHANGED orphans
     \/ rpc[c] = "sent" /\ orphans' = [orphans EXCEPT ![CommandOf(c)] = @ + 1]
  /\ rpc' = Set(rpc, c, "lost")
  /\ UNCHANGED <<pc, clientVars, quiesced, qemuVars, guestVars,
                 histVars, ops, dialFails, qmpLosses>>

-----------------------------------------------------------------------------
(* The orchestrator: guest calls                                           *)

\* sendVSockRPC up to the answer: the request is sent, or the dial fails.
SendRPC(c, m) ==
  /\ pc[c] = m
  /\ Goto(c, IF m = "quiesce" THEN "quiescing" ELSE "unquiescing")
  /\ \/ /\ rpc' = Set(rpc, c, "sent")
        /\ UNCHANGED vsockLosses
     \/ /\ MayFail /\ vsockLosses' = vsockLosses + 1
        /\ rpc' = Set(rpc, c, "lost")
  /\ UNCHANGED <<clientVars, quiesced, orphans, qemuVars,
                 guestVars, histVars, ops, dialFails, qmpLosses>>

\* Mutant: the quiesce call does not wait for its answer.
QuiescedEarly(c) ==
  /\ pc[c] = "quiescing"
  /\ quiesced' = Set(quiesced, c, rpc[c] # "lost")
  /\ rpc' = Set(rpc, c, "none")
  /\ orphans' = [orphans EXCEPT !["quiesce"] = IF rpc[c] = "sent" THEN @ + 1 ELSE @]
  /\ Goto(c, "dial")
  /\ UNCHANGED <<clientVars, qemuVars, guestVars, histVars, ops, faultVars>>

\* An error of the quiesce call is a notice; the save goes on.
Quiesced(c) ==
  /\ pc[c] = "quiescing" /\ rpc[c] \in {"done", "lost"}
  /\ quiesced' = Set(quiesced, c, rpc[c] = "done")
  /\ rpc' = Set(rpc, c, "none")
  /\ Goto(c, "dial")
  /\ UNCHANGED <<clientVars, orphans, qemuVars, guestVars, histVars, ops, faultVars>>

\* An error of the unquiesce call is ignored.
Unquiesced(c) ==
  /\ pc[c] = "unquiescing" /\ rpc[c] \in {"done", "lost"}
  /\ rpc' = Set(rpc, c, "none")
  /\ Return(c)
  /\ UNCHANGED <<orphans, running, contRefused, images,
                 guestVars, histVars, ops, faultVars>>

-----------------------------------------------------------------------------
(* The orchestrator: operations and monitor commands                       *)

\* One CLI call. The empty tag is refused before anything is done.
Begin(c) ==
  /\ pc[c] = "idle" /\ ops < MaxOps
  /\ \E o \in {"save", "restore", "delete"}, t \in Tag, p \in BOOLEAN :
       /\ op' = Set(op, c, o) /\ tag' = Set(tag, c, t)
       /\ pause' = Set(pause, c, o # "save" \/ p)
       /\ Goto(c, IF o = "save" /\ VSockTarget THEN "quiesce" ELSE "dial")
  /\ overlapped' = (overlapped \/ \E d \in Client : pc[d] # "idle")
  /\ ops' = ops + 1
  /\ UNCHANGED <<quiesced, rpc, orphans, qemuVars, guestVars, loadLost, faultVars>>

\* Mutant: the machine is stopped whether or not PauseVM is set.
DialAlwaysStop(c) ==
  /\ pc[c] = "dial" /\ monitor = None
  /\ monitor' = c
  /\ Goto(c, CASE op[c] = "restore" -> "loadvm"
               [] op[c] = "delete" -> "delvm"
               [] OTHER -> "stop")
  /\ UNCHANGED <<clientVars, quiesced, rpc, orphans, running, contRefused,
                 images, guestVars, histVars, ops, faultVars>>

\* qmp.Dial with its handshake, which waits while QEMU serves another client.
Dial(c) ==
  /\ pc[c] = "dial" /\ monitor = None
  /\ monitor' = c
  /\ Goto(c, CASE op[c] = "restore" -> "loadvm"
               [] op[c] = "delete" -> "delvm"
               [] OTHER -> IF pause[c] THEN "stop" ELSE "savevm")
  /\ UNCHANGED <<clientVars, quiesced, rpc, orphans, running, contRefused,
                 images, guestVars, histVars, ops, faultVars>>

\* The operation ends; SaveSnapshot does not undo its quiesce.
DialFails(c) ==
  /\ pc[c] = "dial"
  /\ MayFail /\ dialFails' = dialFails + 1
  /\ Return(c)
  /\ UNCHANGED <<rpc, orphans, running, contRefused, images,
                 guestVars, histVars, ops, qmpLosses, vsockLosses>>

\* The connection of c breaks: every later command of c fails.
QmpBreaks(c) ==
  /\ monitor = c
  /\ MayFail /\ qmpLosses' = qmpLosses + 1
  /\ monitor' = None
  /\ UNCHANGED <<pc, clientVars, quiesced, rpc, orphans, running, contRefused,
                 images, guestVars, histVars, ops, dialFails, vsockLosses>>

\* qmpClient.Stop(): without a connection, or refused, nothing happens and the
\* error is ignored.
Stop(c) ==
  /\ pc[c] = "stop"
  /\ \/ monitor = c /\ running' = FALSE
     \/ UNCHANGED running
  /\ Goto(c, "savevm")
  /\ UNCHANGED <<clientVars, quiesced, rpc, orphans, monitor,
                 contRefused, images, guestVars, histVars, ops, faultVars>>

\* Where SaveSnapshot goes after the commands it may skip.
AfterCont(c) ==
  IF VSockTarget /\ (op[c] = "restore" \/ quiesced[c]) THEN "unquiesce" ELSE "finish"

Stored(c) ==
  images' = Set(images, tag[c], [frozen |-> frozen, quiesced |-> quiesced[c],
                                 freezeFailed |-> "freeze" \in swallowed])

\* The connection breaks before the answer to a command QEMU carried out.
AnswerLost ==
  /\ MayFail /\ qmpLosses' = qmpLosses + 1
  /\ monitor' = None

\* Mutant: an error of savevm ends the operation at once.
SaveVMReturns(c) ==
  /\ pc[c] = "savevm"
  /\ \/ monitor = c /\ Stored(c)
     \/ UNCHANGED images
  /\ Goto(c, IF monitor # c THEN "finish" ELSE IF pause[c] THEN "cont" ELSE AfterCont(c))
  /\ UNCHANGED <<clientVars, quiesced, rpc, orphans, monitor, running, contRefused,
                 guestVars, histVars, ops, faultVars>>

\* savevm through HMP: QEMU stores the image, or refuses in text that the
\* client takes for success, or with a QMP error; without a connection or an
\* answer the call fails.
SaveVM(c) ==
  /\ pc[c] = "savevm"
  /\ \/ monitor = c /\ Stored(c) /\ (AnswerLost \/ UNCHANGED <<monitor, qmpLosses>>)
     \/ UNCHANGED <<images, monitor, qmpLosses>>
  /\ Goto(c, IF pause[c] THEN "cont" ELSE AfterCont(c))
  /\ UNCHANGED <<clientVars, quiesced, rpc, orphans, running, contRefused,
                 guestVars, histVars, ops, dialFails, vsockLosses>>

\* The guest becomes the image; its connections are reset.
Loaded(c) ==
  /\ monitor = c /\ images[tag[c]] # None
  /\ frozen' = images[tag[c]].frozen
  /\ reseeded' = FALSE /\ clockSet' = FALSE
  /\ UNCHANGED <<swallowed, guestFails>>
  /\ rpc' = [d \in Client |-> IF rpc[d] = "none" THEN "none" ELSE "lost"]
  /\ orphans' = [m \in Command |-> 0]

\* loadvm through HMP: carried out, or refused in text; an error, also for want
\* of a connection or of the answer, ends the restore.
LoadVM(c) ==
  /\ pc[c] = "loadvm"
  /\ \/ /\ Loaded(c) /\ Goto(c, "cont")
        /\ UNCHANGED <<clientVars, quiesced, monitor, qmpLosses, loadLost>>
     \/ /\ Loaded(c) /\ AnswerLost /\ loadLost' = TRUE
        /\ Ends(c)
     \/ /\ monitor = c /\ Goto(c, "cont")
        /\ UNCHANGED <<clientVars, quiesced, guestVars, rpc, orphans, monitor,
                        qmpLosses, loadLost>>
     \/ /\ Return(c)
        /\ UNCHANGED <<guestVars, rpc, orphans, qmpLosses, loadLost>>
  /\ UNCHANGED <<running, contRefused, images, overlapped,
                 ops, dialFails, vsockLosses>>

\* qmpClient.Cont(): carried out, refused, or without a connection; the error
\* is ignored.
Cont(c) ==
  /\ pc[c] = "cont"
  /\ \/ monitor = c /\ running' = TRUE /\ contRefused' = FALSE
     \/ monitor = c /\ contRefused' = TRUE /\ UNCHANGED running
     \/ monitor # c /\ UNCHANGED <<running, contRefused>>
  /\ Goto(c, AfterCont(c))
  /\ UNCHANGED <<clientVars, quiesced, rpc, orphans, monitor,
                 images, guestVars, histVars, ops, faultVars>>

\* The end of an operation that makes no last guest call.
Finish(c) ==
  /\ pc[c] = "finish"
  /\ Return(c)
  /\ UNCHANGED <<rpc, orphans, running, contRefused, images,
                 guestVars, histVars, ops, faultVars>>

\* DeleteSnapshot: delvm is carried out, with or without its answer arriving,
\* or refused in text, or fails.
DelVM(c) ==
  /\ pc[c] = "delvm"
  /\ \/ /\ monitor = c /\ images' = Set(images, tag[c], None)
        /\ \/ Return(c) /\ UNCHANGED qmpLosses
           \/ AnswerLost /\ Ends(c)
     \/ /\ Return(c)
        /\ UNCHANGED <<images, qmpLosses>>
  /\ UNCHANGED <<rpc, orphans, running, contRefused,
                 guestVars, histVars, ops, dialFails, vsockLosses>>

Step(c) ==
  \/ SendRPC(c, "quiesce") \/ Quiesced(c) \/ SendRPC(c, "unquiesce") \/ Unquiesced(c)
  \/ Dial(c) \/ Stop(c) \/ SaveVM(c) \/ LoadVM(c) \/ Cont(c) \/ Finish(c) \/ DelVM(c)
  \/ Dispatch(c)

Fault(c) == DialFails(c) \/ QmpBreaks(c) \/ VsockBreaks(c)

Next ==
  \/ \E c \in Client : Begin(c) \/ Step(c) \/ Fault(c)
  \/ \E m \in Command : DispatchOrphan(m)

Spec == Init /\ [][Next]_vars

\* Host processes and guest goroutines are scheduled; nobody is forced to
\* start an operation, and failures never have to happen.
Fairness ==
  /\ \A c \in Client : WF_vars(Step(c))
  /\ \A m \in Command : WF_vars(DispatchOrphan(m))
FairSpec == Spec /\ Fairness

-----------------------------------------------------------------------------
(* Properties *)

Idle == \A c \in Client : pc[c] = "idle"

\* SaveSnapshot and RestoreSnapshot leave no frozen guest behind, whatever the
\* order in which concurrent saves, restores and deletes quiesce, load and
\* thaw, even when monitor connections break and QEMU refuses commands.  The
\* exceptions, none of which the code recovers from: a monitor that cannot be
\* reached, a lost answer to loadvm, a lost guest call, and an FITHAW that
\* failed, which Unquiesce reports as success.
ThawedWhenIdle ==
  (/\ Idle /\ dialFails = 0 /\ vsockLosses = 0 /\ ~loadLost
   /\ "thaw" \notin swallowed) => ~frozen

\* They leave no paused machine behind either, though PauseVM stops it, unless
\* a monitor connection broke before cont or QEMU refused the last cont, whose
\* error is dropped.
RunningWhenIdle == Idle /\ qmpLosses = 0 /\ ~contRefused => running

\* Every restored guest has its entropy and its clock back before the operations
\* have ended: RestoreSnapshot's unquiesce comes after its loadvm, also when
\* other operations overlap.  The exceptions: a lost guest call, a lost answer
\* to loadvm, and a reseed or clock update that did not work in the guest and
\* was reported as success.
ReseededWhenIdle ==
  VSockTarget /\ Idle /\ vsockLosses = 0 /\ ~loadLost =>
    /\ reseeded \/ "reseed" \in swallowed
    /\ clockSet \/ "clock" \in swallowed

\* An image whose save reports Quiesced holds a frozen filesystem, if that can
\* be frozen at all and FIFREEZE did not fail, which Quiesce reports as success.
\* Another operation at the same time, or an unquiesce of an earlier one that
\* arrives late, may thaw it in between.
QuiescedImageFrozen ==
  \A t \in Tag :
    (/\ images[t] # None /\ images[t].quiesced /\ ~images[t].freezeFailed
     /\ Freezable /\ ~overlapped /\ vsockLosses = 0) => images[t].frozen

\* Every operation comes to an end: the waits for the monitor and for the
\* guest form no cycle.  Only a machine that stays paused, because a monitor
\* connection broke or QEMU refused the last cont, keeps operations waiting.
OperationEnds ==
  \A c \in Client :
    \/ []<>(pc[c] = "idle")
    \/ <>[](~running /\ (qmpLosses > 0 \/ contRefused))

-----------------------------------------------------------------------------
(* What the documentation says of snapshots                                *)

\* "unquiesce (always, even on failure)": an operation that has ended, with or
\* without an error, has thawed the guest.
ThawsAlways == Idle => ~frozen
=============================================================================
