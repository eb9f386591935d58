----------------------------- MODULE BootOrder -----------------------------
(***************************************************************************)
(* The boot sequence of karim-svcd up to its boot loop: LoadServiceDir and *)
(* ParseServiceConfig (internal/svcd/config.go), the dependency graph and  *)
(* Kahn's algorithm of internal/svcd/graph.go, and the loop of             *)
(* cmd/karim-svcd/main.go that starts the services in the resolved order.  *)
(*                                                                         *)
(* Go iterates over a map in any order: VisitSpec and Seed take the names  *)
(* one by one, in every order.  All of this runs on the main goroutine.    *)
(***************************************************************************)
EXTENDS Naturals, Sequences, FiniteSets, SequencesExt

CONSTANTS
  Name,     \* service names, those a file never defines included
  NoName,   \* the file has no name key
  Dirs      \* the configuration directories: sequences of files

\* A *.toml file in the order of os.ReadDir: the stem of its file name, the
\* keys that matter here, and whether it can be opened and read to its end, has
\* lines at all, an exec key, and only well-formed memory_limit and cpu_quota
\* values.  A directory that is missing or cannot be read counts as empty.
FileType == [stem : Name, name : Name \cup {NoName}, after : Seq(Name),
             readable : BOOLEAN, lines : BOOLEAN, exec : BOOLEAN, limits : BOOLEAN]
SpecType == [name : Name, after : Seq(Name)]

ASSUME DirsAssumption ==
  /\ NoName \notin Name
  /\ Dirs \subseteq Seq(FileType)
  /\ \A dir \in Dirs : \A k \in 1..Len(dir) :
       ~dir[k].lines => ~dir[k].exec /\ dir[k].limits

VARIABLES
  phase,     \* where the main goroutine is
  dir,       \* the directory, and the files of it still to read
  files,
  specs,     \* the result of LoadServiceDir
  services,  \* DependencyGraph.services
  inDegree, adj, queue, ordered,   \* locals of ResolveTopologicalSort
  left,      \* names a range over a map has still to visit
  curr,      \* the name the loop body works on
  pending,   \* the rest of curr's After list, then of adj[curr]
  started    \* services main has called Start on, in order

loadVars == <<dir, files, specs>>
sortVars == <<inDegree, adj, queue, ordered>>
loopVars == <<left, curr, pending>>
vars == <<phase, loadVars, services, sortVars, loopVars, started>>

Names == DOMAIN services

\* The entries of After that name a service of the graph.
Deps(n) == ToSet(services[n].after) \cap Names

TypeOK ==
  /\ phase \in {"load", "edges", "seed", "sort", "boot", "loop", "exit"}
  /\ dir \in Dirs
  /\ files \in Seq(FileType)
  /\ specs \in Seq(SpecType)
  /\ Names \subseteq Name /\ \A n \in Names : services[n] \in SpecType
  /\ inDegree \in [Names -> Nat]
  /\ adj \in [Names -> Seq(Names)]
  /\ queue \in Seq(Names) /\ ordered \in Seq(Names) /\ pending \in Seq(Name)
  /\ curr \in Names \cup {NoName}
  /\ left \subseteq Names
  /\ started \in Seq(Name)

Init ==
  /\ phase = "load"
  /\ dir \in Dirs
  /\ files = dir
  /\ specs = <<>>
  /\ services = <<>>
  /\ inDegree = <<>> /\ adj = <<>>
  /\ queue = <<>> /\ ordered = <<>> /\ pending = <<>>
  /\ left = {}
  /\ curr = NoName
  /\ started = <<>>

-----------------------------------------------------------------------------
(* ParseServiceConfig and LoadServiceDir                                   *)

\* Every key is accepted but for a malformed limit.
KeysAccepted(f) == f.limits
Parses(f) == f.readable /\ KeysAccepted(f) /\ f.exec
IsEmpty(f) == f.readable /\ ~f.lines
Parsed(f) == [name |-> IF f.name = NoName THEN f.stem ELSE f.name,
              after |-> f.after]

\* An empty file is skipped.
LoadFile ==
  /\ phase = "load" /\ files # <<>>
  /\ Parses(Head(files)) \/ IsEmpty(Head(files))
  /\ specs' = IF Parses(Head(files)) THEN Append(specs, Parsed(Head(files))) ELSE specs
  /\ files' = Tail(files)
  /\ UNCHANGED <<phase, dir, services, sortVars, loopVars, started>>

\* Any other file that does not parse makes LoadServiceDir return no specs;
\* main prints the error and goes on without services.
LoadError ==
  /\ phase = "load" /\ files # <<>>
  /\ ~Parses(Head(files)) /\ ~IsEmpty(Head(files))
  /\ specs' = <<>>
  /\ files' = <<>>
  /\ phase' = "loop"
  /\ UNCHANGED <<dir, services, sortVars, loopVars, started>>

NoServices ==
  /\ phase = "load" /\ files = <<>> /\ specs = <<>>
  /\ phase' = "loop"
  /\ UNCHANGED <<loadVars, services, sortVars, loopVars, started>>

-----------------------------------------------------------------------------
(* NewDependencyGraph and ResolveTopologicalSort                           *)

\* Of two specs with one name the later stays in the map.
LastOf(n) == LET ks == {k \in 1..Len(specs) : specs[k].name = n}
             IN  specs[CHOOSE k \in ks : \A j \in ks : j <= k]

NewDependencyGraph ==
  LET names == {specs[k].name : k \in 1..Len(specs)} IN
  /\ phase = "load" /\ files = <<>> /\ specs # <<>>
  /\ services' = [n \in names |-> LastOf(n)]
  /\ inDegree' = [n \in names |-> 0]
  /\ adj' = [n \in names |-> <<>>]
  /\ left' = names
  /\ phase' = "edges"
  /\ UNCHANGED <<loadVars, queue, ordered, curr, pending, started>>

\* The outer loop takes the next name, the inner one walks its After list.
VisitSpec(n) ==
  /\ phase = "edges" /\ pending = <<>> /\ n \in left
  /\ curr' = n
  /\ pending' = services[n].after
  /\ left' = left \ {n}
  /\ UNCHANGED <<phase, loadVars, services, sortVars, started>>

\* Mutant: a repeated dependency is counted once.
AddEdgeOnce ==
  LET d == Head(pending) IN
  /\ phase = "edges" /\ pending # <<>>
  /\ d \in Names
  /\ adj' = [adj EXCEPT ![d] = Append(@, curr)]
  /\ inDegree' = IF curr \in ToSet(adj[d]) THEN inDegree
                 ELSE [inDegree EXCEPT ![curr] = @ + 1]
  /\ pending' = Tail(pending)
  /\ UNCHANGED <<phase, loadVars, services, queue, ordered, left, curr,
                 started>>

AddEdge ==
  LET d == Head(pending) IN
  /\ phase = "edges" /\ pending # <<>>
  /\ d \in Names
  /\ adj' = [adj EXCEPT ![d] = Append(@, curr)]
  /\ inDegree' = [inDegree EXCEPT ![curr] = @ + 1]
  /\ pending' = Tail(pending)
  /\ UNCHANGED <<phase, loadVars, services, queue, ordered, left, curr,
                 started>>

\* Mutant: a dependency that does not exist is counted.
SkipUnknownCounted ==
  /\ phase = "edges" /\ pending # <<>>
  /\ Head(pending) \notin Names
  /\ inDegree' = [inDegree EXCEPT ![curr] = @ + 1]
  /\ pending' = Tail(pending)
  /\ UNCHANGED <<phase, loadVars, services, adj, queue, ordered, left, curr,
                 started>>

SkipUnknown ==
  /\ phase = "edges" /\ pending # <<>>
  /\ Head(pending) \notin Names
  /\ pending' = Tail(pending)
  /\ UNCHANGED <<phase, loadVars, services, sortVars, left, curr, started>>

EdgesBuilt ==
  /\ phase = "edges" /\ pending = <<>> /\ left = {}
  /\ left' = Names
  /\ phase' = "seed"
  /\ UNCHANGED <<loadVars, services, sortVars, curr, pending, started>>

Seed(n) ==
  /\ phase = "seed" /\ n \in left
  /\ queue' = IF inDegree[n] = 0 THEN Append(queue, n) ELSE queue
  /\ left' = left \ {n}
  /\ UNCHANGED <<phase, loadVars, services, inDegree, adj, ordered, curr,
                 pending, started>>

Seeded ==
  /\ phase = "seed" /\ left = {}
  /\ phase' = "sort"
  /\ UNCHANGED <<loadVars, services, sortVars, loopVars, started>>

Dequeue ==
  /\ phase = "sort" /\ pending = <<>> /\ queue # <<>>
  /\ queue' = Tail(queue)
  /\ ordered' = Append(ordered, Head(queue))
  /\ curr' = Head(queue)
  /\ pending' = adj[Head(queue)]
  /\ UNCHANGED <<phase, loadVars, services, inDegree, adj, left, started>>

\* Mutant: enqueue as soon as one dependency is resolved.
RelaxEarly ==
  LET m == Head(pending) IN
  /\ phase = "sort" /\ pending # <<>>
  /\ inDegree' = [inDegree EXCEPT ![m] = @ - 1]
  /\ queue' = IF inDegree'[m] <= 1 THEN Append(queue, m) ELSE queue
  /\ pending' = Tail(pending)
  /\ UNCHANGED <<phase, loadVars, services, adj, ordered, left, curr,
                 started>>

Relax ==
  LET m == Head(pending) IN
  /\ phase = "sort" /\ pending # <<>>
  /\ inDegree' = [inDegree EXCEPT ![m] = @ - 1]
  /\ queue' = IF inDegree'[m] = 0 THEN Append(queue, m) ELSE queue
  /\ pending' = Tail(pending)
  /\ UNCHANGED <<phase, loadVars, services, adj, ordered, left, curr,
                 started>>

\* On a cycle main calls os.Exit(1).
Resolved ==
  /\ phase = "sort" /\ pending = <<>> /\ queue = <<>>
  /\ phase' = IF Len(ordered) = Cardinality(Names) THEN "boot" ELSE "exit"
  /\ UNCHANGED <<loadVars, services, sortVars, loopVars, started>>

\* Mutant: the boot loop may end at a service that does not start.
StartNextOrStop ==
  /\ phase = "boot" /\ Len(started) < Len(ordered)
  /\ started' = Append(started, ordered[Len(started) + 1])
  /\ phase' \in {"boot", "loop"}
  /\ UNCHANGED <<loadVars, services, sortVars, loopVars>>

\* Start may fail; the loop goes on to the next service either way.
StartNext ==
  /\ phase = "boot" /\ Len(started) < Len(ordered)
  /\ started' = Append(started, ordered[Len(started) + 1])
  /\ UNCHANGED <<phase, loadVars, services, sortVars, loopVars>>

BootDone ==
  /\ phase = "boot" /\ Len(started) = Len(ordered)
  /\ phase' = "loop"
  /\ UNCHANGED <<loadVars, services, sortVars, loopVars, started>>

Next ==
  \/ LoadFile \/ LoadError \/ NoServices
  \/ NewDependencyGraph \/ EdgesBuilt \/ Seeded
  \/ (\E n \in left : VisitSpec(n) \/ Seed(n)) \/ AddEdge \/ SkipUnknown
  \/ Dequeue \/ Relax \/ Resolved
  \/ StartNext \/ BootDone

Spec == Init /\ [][Next]_vars

\* One goroutine that never blocks.
FairSpec == Spec /\ WF_vars(Next)

-----------------------------------------------------------------------------
(* Properties *)

Settled == phase \in {"loop", "exit"}

\* Every name once, and behind all the names it depends on.
Sorted(s) == /\ \A j, k \in 1..Len(s) : s[j] = s[k] => j = k
             /\ \A k \in 1..Len(s) : Deps(s[k]) \subseteq {s[j] : j \in 1..(k - 1)}

\* Whatever order the maps are walked in, the boot loop starts a service only
\* after every existing service it lists in After, and no service twice, also
\* when a dependency is repeated, unknown, or the service's own file is a
\* second definition of its name.
StartedAfterDeps == Sorted(started)

\* The services in or behind a cycle: each waits for another of them.
Stuck == UNION {S \in SUBSET Names : \A n \in S : Deps(n) \cap S # {}}

\* ResolveTopologicalSort reports a cycle exactly when there is one, and what
\* it resolved before giving up is exactly what does not depend on the cycle.
CycleDetected ==
  /\ phase = "exit" => Stuck # {}
  /\ phase \in {"boot", "loop"} => Stuck = {}
  /\ phase = "exit" => ToSet(ordered) = Names \ Stuck

\* The services the files define, when LoadServiceDir can use all of them.
Usable == \A k \in 1..Len(dir) : Parses(dir[k]) \/ IsEmpty(dir[k])
Defined == {Parsed(dir[k]).name : k \in {j \in 1..Len(dir) : Parses(dir[j])}}

\* The boot sequence comes to an end with a call of Start for every service the
\* files define, a failing Start included; with one malformed file, or one
\* cycle, it ends with none.
BootEnds ==
  <>(Settled /\ ToSet(started) = IF Usable /\ Stuck = {} THEN Defined ELSE {})

-----------------------------------------------------------------------------
(* What the documentation says of the boot sequence                        *)

\* "An invalid file is reported and skipped: it never prevents the other
\* services from booting."
InvalidFileSkipped ==
  phase = "loop" =>
    \A k \in 1..Len(dir) : Parses(dir[k]) => Parsed(dir[k]).name \in ToSet(started)
=============================================================================
