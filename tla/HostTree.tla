------------------------------ MODULE HostTree ------------------------------
(***************************************************************************)
(* The file system of the host, as far as path names see it: a tree of     *)
(* directories and files.  A node is the sequence of names that leads to   *)
(* it from the root; a path is a sequence of names, "." and ".." among     *)
(* them, and whether it starts at the root.  Links to directories are left *)
(* out, and a file linked twice is two files.                              *)
(***************************************************************************)
EXTENDS Integers, SequencesExt

CONSTANT MaxDepth   \* bound: how deep guests build the tree

VARIABLE tree       \* its directories and files

Names == Seq(STRING)
Plain == STRING \ {".", ".."}

Path(abs, names) == [abs |-> abs, names |-> names]
Root == <<>>
NoNode == <<"none">>

Exists(node) == node \in tree.dirs \cup tree.files
IsDir(node) == node \in tree.dirs

\* One name further, from a directory.
Further(dirs, node, name) ==
  IF node \notin dirs THEN NoNode
  ELSE IF name = "." THEN node
  ELSE IF name = ".." THEN (IF node = Root THEN Root ELSE Front(node))
  ELSE Append(node, name)

\* The nodes a walk comes by, one after the other.
Steps(dirs, from, names) ==
  LET node[i \in 0 .. Len(names)] ==
        IF i = 0 THEN from ELSE Further(dirs, node[i - 1], names[i])
  IN  node

Start(from, path) == IF path.abs THEN Root ELSE from
Walk(from, path) ==
  Steps(tree.dirs, Start(from, path), path.names)[Len(path.names)]

\* A node is another one or lies under it.
Under(node, n) == n = node \/ IsStrictPrefix(node, n)

Within(node) == node # NoNode /\ Len(node) <= MaxDepth
Free(node) ==
  /\ node # Root /\ ~Exists(node)
  /\ IsDir(Front(node)) /\ Within(node)

Empty(node) ==
  /\ node \in tree.dirs \ {Root}
  /\ \A n \in tree.dirs \cup tree.files : Under(node, n) => n = node

MakeDir(node) == Free(node) /\ tree' = [tree EXCEPT !.dirs = @ \cup {node}]
MakeFile(node) == Free(node) /\ tree' = [tree EXCEPT !.files = @ \cup {node}]
\* With O_CREAT a file that was not there is made.
OpenNode(node) == (Exists(node) /\ UNCHANGED tree) \/ MakeFile(node)
RemoveDir(node) == Empty(node) /\ tree' = [tree EXCEPT !.dirs = @ \ {node}]
RemoveFile(node) ==
  node \in tree.files /\ tree' = [tree EXCEPT !.files = @ \ {node}]
LinkFile(old, new) == old \in tree.files /\ MakeFile(new)

\* What a node is called when old has become new.
Moved(old, new, node) ==
  IF Under(old, node) THEN new \o SubSeq(node, Len(old) + 1, Len(node)) ELSE node

\* A file may take the place of a file, a directory that of an empty one.
Replaces(old, new) == IF IsDir(old) THEN Empty(new) ELSE new \in tree.files

\* A directory moves with all that is under it.
Move(old, new) ==
  /\ old # Root /\ Exists(old) /\ ~Under(old, new)
  /\ Free(new) \/ Replaces(old, new)
  /\ \A n \in tree.dirs \cup tree.files :
       Under(old, n) => Within(Moved(old, new, n))
  /\ tree' = [dirs |-> {Moved(old, new, n) : n \in tree.dirs \ {new}},
              files |-> {Moved(old, new, n) : n \in tree.files \ {new}}]

=============================================================================
