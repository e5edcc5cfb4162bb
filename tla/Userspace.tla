----------------------------- MODULE Userspace ------------------------------
(***************************************************************************)
(* How the userspace tool (ctu_can_fd_userspace.cpp) finds the core: a     *)
(* search through the directories of /sys/devices with an explicit stack   *)
(* of open directories, one step per round of its loop.                    *)
(*                                                                         *)
(* A tree is a record: entries[d] is the sequence in which readdir returns *)
(* the entries of directory d, dirs the entries that are directories, pci  *)
(* those whose name begins with "pci", ids the vendor and device that the  *)
(* files of a directory contain ("none" without them).                     *)
(***************************************************************************)
EXTENDS Integers, Sequences, FiniteSets

CONSTANT Trees          \* the trees that are searched
VARIABLE tool           \* the search in progress

Root == 0
NoDevice == -1

Top(stack) == stack[Len(stack)]
Pop(stack) == SubSeq(stack, 1, Len(stack) - 1)

FindInit(inst) ==
  \E tree \in Trees :
    tool = [tree |-> tree, inst |-> inst, want |-> inst, level |-> 1,
            stack |-> <<[dir |-> Root, pos |-> 0]>>, clean_rest |-> FALSE,
            dev_dir |-> NoDevice]

\* readdir(dir_act->dir)
Exhausted == Top(tool.stack).pos = Len(tool.tree.entries[Top(tool.stack).dir])
Entry == tool.tree.entries[Top(tool.stack).dir][Top(tool.stack).pos + 1]
Advanced == [tool.stack EXCEPT ![Len(tool.stack)].pos = @ + 1]

\* A directory that has been read, or is of no more interest, is closed.
FindClose ==
  /\ tool.stack # <<>> /\ (Exhausted \/ tool.clean_rest)
  /\ tool' = [tool EXCEPT !.stack = Pop(@), !.level = @ - 1]

Skipped == Entry \notin tool.tree.dirs \/ (tool.level <= 1 /\ Entry \notin tool.tree.pci)

FindSkip ==
  /\ tool.stack # <<>> /\ ~Exhausted /\ ~tool.clean_rest /\ Skipped
  /\ tool' = [tool EXCEPT !.stack = Advanced]

\* Mutant: the instances are counted before the identifiers are compared.
MutSelected(dir, level) ==
  [counted |-> level > 2,
   taken |-> level > 2 /\ tool.inst <= 0 /\ tool.tree.ids[dir] = "match"]

\* What the loop does with the directory it has opened.
Selected(dir, level) ==
  LET matches == level > 2 /\ tool.tree.ids[dir] = "match"
  IN [counted |-> matches, taken |-> matches /\ tool.inst <= 0]

FindOpen ==
  /\ tool.stack # <<>> /\ ~Exhausted /\ ~tool.clean_rest /\ ~Skipped
  /\ LET s == Selected(Entry, tool.level + 1)
     IN tool' = [tool EXCEPT !.stack = Append(Advanced, [dir |-> Entry, pos |-> 0]),
                             !.level = @ + 1,
                             !.inst = IF s.counted THEN @ - 1 ELSE @,
                             !.clean_rest = s.taken,
                             !.dev_dir = IF s.taken THEN Entry ELSE @]

FindNext == FindClose \/ FindSkip \/ FindOpen

-----------------------------------------------------------------------------
(* The reference: the devices of the tree, in the order of the search.     *)

\* Directories two levels and more below the root, behind a PCI host bridge,
\* with the wanted identifiers.  path[d] is the path from the root to d; the
\* directories of a tree are numbered in the order of a depth-first search.
Devices(tree) ==
  {d \in tree.dirs :
     LET path == tree.path[d]
     IN /\ Len(path) >= 2 /\ path[1] \in tree.pci
        /\ \A i \in 1..Len(path) : path[i] \in tree.dirs
        /\ tree.ids[d] = "match"}

Instance(tree, n) ==
  LET found == {d \in Devices(tree) : Cardinality({e \in Devices(tree) : e < d}) = n}
  IN IF found = {} THEN NoDevice ELSE CHOOSE d \in found : TRUE

\* The search ends with every directory closed and with the instance that was
\* asked for, if there is one.  (pci_find_dev)
SearchFinds ==
  tool.stack = <<>> =>
    /\ tool.level = 0
    /\ tool.dev_dir = Instance(tool.tree, tool.want)
    /\ tool.clean_rest <=> tool.dev_dir # NoDevice
=============================================================================
