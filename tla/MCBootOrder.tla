---------------------------- MODULE MCBootOrder ----------------------------
(* Instances of BootOrder for TLC.                                         *)
EXTENDS BootOrder

File(s, n, a) == [stem |-> s, name |-> n, after |-> a, readable |-> TRUE,
                  lines |-> TRUE, exec |-> TRUE, limits |-> TRUE]

\* Names are numbers; the last one is a service no file defines.
Three == 1..4
AfterLists == {<<>>} \cup {<<x>> : x \in Three}
                \cup {s \in Three \X Three : s[1] <= s[2]}

\* Every graph of three services with at most two entries in After.
Graphs3 == {<<File(1, 1, a), File(2, 2, b), File(3, 3, c)>> :
              a \in AfterLists, b \in AfterLists, c \in AfterLists}

\* Directories with odd files: two definitions of one name, a name taken from
\* the file, a file without lines, without exec, with a malformed limit, or one
\* that cannot be read.
OddFiles(stem) == LET f == File(stem, 1, <<2>>) IN
  {f, File(stem, 1, <<>>), File(stem, NoName, <<1>>),
   [f EXCEPT !.lines = FALSE, !.exec = FALSE], [f EXCEPT !.exec = FALSE],
   [f EXCEPT !.limits = FALSE], [f EXCEPT !.readable = FALSE]}
OddDirs == {<<>>} \cup {<<f>> : f \in OddFiles(1)} \cup (OddFiles(1) \X OddFiles(2))
             \cup (OddFiles(1) \X OddFiles(2) \X OddFiles(3))
BootDirs == Graphs3 \cup OddDirs
=============================================================================
