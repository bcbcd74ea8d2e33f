-------------------------------- MODULE Vfs --------------------------------
(***************************************************************************)
(* The in-memory file system tree of src/kernel/fs.c and the path lookup  *)
(* that syscall_open (src/kernel/syscall.c) starts with.                   *)
(*                                                                         *)
(* A node is an fs_node_t from kmalloc; the tree is kept as the code keeps *)
(* it, by pointers: `parent`, the first child `children` and the sibling   *)
(* link `nxt` (node->next).  fs_create_node fills the function pointers    *)
(* with fs_readdir/fs_finddir (directories), fs_read/fs_write (files) and  *)
(* fs_open/fs_close (all), and each of those fs_* functions calls the      *)
(* node's own pointer: fs_finddir(dir) calls dir->finddir(dir), which is   *)
(* fs_finddir again.  The recursion has no base case, so the call ends     *)
(* only when the kernel stack is exhausted; `sys` records that end.       *)
(*                                                                         *)
(* Names are not modelled: fs_finddir never compares one.  A path is the  *)
(* sequence of its components after the leading '/' is skipped; empty      *)
(* components, which fs_resolve_path skips, are left out.                  *)
(***************************************************************************)
EXTENDS Naturals, Sequences, SequencesExt, FiniteSets

CONSTANTS
  Nodes,      \* the fs_node_t blocks fs_create_node may return
  NoNode,     \* NULL
  Overflow,   \* model value: a call that never returns (stack exhausted)
  Paths       \* paths callers pass, as sequences over {".", "..", "name"}

VARIABLES
  fs_root,    \* fs_root
  alive,      \* nodes fs_create_node has returned
  ntype,      \* node->type: "file", "dir", "symlink"
  parent,     \* node->parent
  nxt,        \* node->next
  children,   \* node->children, the head of the child list
  target,     \* node->symlink_target
  sys         \* "running", or Overflow once a dispatch has recursed away

vfsVars == <<fs_root, alive, ntype, parent, nxt, children, target, sys>>

-----------------------------------------------------------------------------
(* The child list of p, walking node->next from p->children; a walk that  *)
(* has not ended after every node has been visited is cut there.           *)
RECURSIVE Chain(_, _)
Chain(n, k) == IF n = NoNode \/ k = 0 THEN <<>> ELSE <<n>> \o Chain(nxt[n], k - 1)

ListOf(p) == Chain(children[p], Cardinality(Nodes) + 1)

(* p and the nodes on its parent chain, cut after every node is visited.  *)
RECURSIVE Up(_, _)
Up(n, k) == IF n = NoNode \/ k = 0 THEN {} ELSE {n} \cup Up(parent[n], k - 1)

AncestorsOrSelf(p) == Up(p, Cardinality(Nodes))

(* fs_finddir(node, name): a directory's finddir pointer is fs_finddir    *)
(* itself, so the call does not return; any other node gives NULL.         *)
FsFinddir(n) == IF ntype[n] = "dir" THEN Overflow ELSE NoNode

(* fs_readlink(link): the target of a symlink, NULL for any other node.    *)
FsReadlink(n) == IF ntype[n] = "symlink" THEN target[n] ELSE NoNode

(* The component loop of fs_resolve_path from `cur`: "." stays, ".." goes *)
(* to the parent if there is one, a name goes through fs_finddir and then  *)
(* follows a symlink.                                                       *)
RECURSIVE Walk(_, _)
Walk(cur, path) ==
  IF path = <<>> THEN cur
  ELSE IF Head(path) = "." THEN Walk(cur, Tail(path))
  ELSE IF Head(path) = ".."
    THEN Walk(IF parent[cur] # NoNode THEN parent[cur] ELSE cur, Tail(path))
  ELSE LET found == FsFinddir(cur) IN
    IF found \in {NoNode, Overflow} THEN found
    ELSE LET next == IF ntype[found] = "symlink" THEN FsReadlink(found)
                                             ELSE found IN
      IF next = NoNode THEN NoNode ELSE Walk(next, Tail(path))

(* fs_resolve_path(path): NULL without a root, else the walk from it.     *)
FsResolvePath(path) == IF fs_root = NoNode THEN NoNode ELSE Walk(fs_root, path)

(* fs_get_parent_dir(path): the root when the path has one component,      *)
(* else the resolution of all components but the last.                     *)
FsGetParentDir(path) ==
  IF fs_root = NoNode THEN NoNode
  ELSE IF Len(path) <= 1 THEN fs_root ELSE Walk(fs_root, Front(path))

-----------------------------------------------------------------------------
VfsInit ==
  /\ fs_root = NoNode
  /\ alive = {}
  /\ ntype = [n \in Nodes |-> "file"]
  /\ parent = [n \in Nodes |-> NoNode]
  /\ nxt = [n \in Nodes |-> NoNode]
  /\ children = [n \in Nodes |-> NoNode]
  /\ target = [n \in Nodes |-> NoNode]
  /\ sys = "running"

(* fs_create_node(name, type) returning n: a fresh zeroed block of that   *)
(* type.  The mask, uid and gid it sets are not modelled.                   *)
Created(n, type, tgt) ==
  /\ alive' = alive \cup {n}
  /\ ntype' = [ntype EXCEPT ![n] = type]
  /\ target' = [target EXCEPT ![n] = tgt]

(* fs_init: fs_root = fs_create_node("/", FS_DIRECTORY).  kernel_main    *)
(* does not call it; a caller calls it once.                               *)
FsInit ==
  /\ sys = "running"
  /\ fs_root = NoNode
  /\ \E n \in Nodes \ alive :
       /\ Created(n, "dir", NoNode)
       /\ fs_root' = n
  /\ UNCHANGED <<parent, nxt, children, sys>>

(* fs_create_node(name, FS_FILE or FS_DIRECTORY): a detached node.        *)
FsCreateNode(type) ==
  /\ sys = "running"
  /\ \E n \in Nodes \ alive : Created(n, type, NoNode)
  /\ UNCHANGED <<fs_root, parent, nxt, children, sys>>

(* fs_create_symlink(name, target): return NULL for a NULL target, else a *)
(* FS_SYMLINK node whose symlink_target is set.                            *)
FsCreateSymlink(tgt) ==
  /\ sys = "running"
  /\ \E n \in Nodes \ alive : Created(n, "symlink", tgt)
  /\ UNCHANGED <<fs_root, parent, nxt, children, sys>>

(* fs_add_node(parent, child): nothing unless parent is a directory; set  *)
(* child->parent, then make child the head of an empty list or walk to the *)
(* last sibling and link it there.  The code checks nothing about child:   *)
(* callers pass a node that is in no list (fs_test and syscall_open pass   *)
(* fresh ones) and not above parent; the model's callers do the same.      *)
FsAddNode(p, c) ==
  /\ sys = "running"
  /\ ntype[p] = "dir"
  /\ parent' = [parent EXCEPT ![c] = p]
  /\ IF children[p] = NoNode
       THEN /\ children' = [children EXCEPT ![p] = c]
            /\ UNCHANGED nxt
       ELSE /\ nxt' = [nxt EXCEPT ![Last(ListOf(p))] = c]
            /\ UNCHANGED children
  /\ UNCHANGED <<fs_root, alive, ntype, target, sys>>

(* Mutant of FsRemoveNode: `node->next = NULL` left out.                  *)
FsRemoveNodeKeepNext(p, n) ==
  /\ sys = "running"
  /\ ntype[p] = "dir"
  /\ \E i \in DOMAIN ListOf(p) : ListOf(p)[i] = n
  /\ IF children[p] = n
       THEN /\ children' = [children EXCEPT ![p] = nxt[n]]
            /\ UNCHANGED nxt
       ELSE LET prev == CHOOSE m \in ToSet(ListOf(p)) : nxt[m] = n IN
              /\ nxt' = [nxt EXCEPT ![prev] = nxt[n]]
              /\ UNCHANGED children
  /\ parent' = [parent EXCEPT ![n] = NoNode]
  /\ UNCHANGED <<fs_root, alive, ntype, target, sys>>

(* fs_remove_node(parent, node): -1 unless parent is a directory; unlink  *)
(* node at the head, or after the sibling whose next it is, returning -1   *)
(* when the walk finds none; then clear node->parent and node->next.       *)
FsRemoveNode(p, n) ==
  /\ sys = "running"
  /\ ntype[p] = "dir"
  /\ \E i \in DOMAIN ListOf(p) : ListOf(p)[i] = n
  /\ IF children[p] = n
       THEN /\ children' = [children EXCEPT ![p] = nxt[n]]
            /\ nxt' = [nxt EXCEPT ![n] = NoNode]
       ELSE LET prev == CHOOSE m \in ToSet(ListOf(p)) : nxt[m] = n IN
              /\ nxt' = [nxt EXCEPT ![prev] = nxt[n], ![n] = NoNode]
              /\ UNCHANGED children
  /\ parent' = [parent EXCEPT ![n] = NoNode]
  /\ UNCHANGED <<fs_root, alive, ntype, target, sys>>

(* syscall_open(path, flags): resolve the path; with O_CREAT and no node, *)
(* find the parent, create an FS_FILE node and fs_add_node it; a node that *)
(* is not a file is refused; otherwise take a descriptor, set it used and  *)
(* call node->open(node), which is fs_open and calls node->open again.     *)
(* Every outcome but a recursion returns -1 and changes nothing, so the    *)
(* step is the one into the recursion.  The O_CREAT branch and the fd      *)
(* table write are never reached: with a root, a path resolves to the root *)
(* or one of its ancestors through "." and "..", or recurses in fs_finddir *)
(* at its first name; without one, fs_get_parent_dir is NULL too.  So      *)
(* syscall_read, syscall_write and syscall_close only ever take their      *)
(* error returns or write fd 1 and 2 to the terminal.                      *)
OpenOutcome(path, creat) ==
  LET node == FsResolvePath(path) IN
  IF node = Overflow THEN Overflow
  ELSE IF node = NoNode
    THEN IF creat /\ FsGetParentDir(path) # NoNode THEN Overflow ELSE NoNode
  ELSE IF ntype[node] = "file" THEN Overflow ELSE NoNode

SyscallOpen(path, creat) ==
  /\ sys = "running"
  /\ OpenOutcome(path, creat) = Overflow
  /\ sys' = Overflow
  /\ UNCHANGED <<fs_root, alive, ntype, parent, nxt, children, target>>

(* The callers: fs_init once; fs_create_node and fs_create_symlink (whose *)
(* NULL-target early return creates nothing); fs_add_node of a detached   *)
(* node that is not above the parent, as fs_test and syscall_open do;     *)
(* fs_remove_node of any pair, whose -1 returns change nothing; and       *)
(* syscall_open of a small set of paths.                                   *)
VfsNext ==
  \/ FsInit
  \/ \E type \in {"file", "dir"} : FsCreateNode(type)
  \/ \E tgt \in alive : FsCreateSymlink(tgt)
  \/ \E p, c \in alive :
       /\ parent[c] = NoNode /\ c # fs_root /\ c \notin AncestorsOrSelf(p)
       /\ \A q \in alive : nxt[q] # c /\ children[q] # c
       /\ FsAddNode(p, c)
  \/ \E p, n \in alive : FsRemoveNode(p, n)
  \/ \E path \in Paths, creat \in BOOLEAN : SyscallOpen(path, creat)

VfsSpec == VfsInit /\ [][VfsNext]_vfsVars

-----------------------------------------------------------------------------
VfsTypeOK ==
  /\ fs_root \in Nodes \cup {NoNode}
  /\ alive \subseteq Nodes
  /\ ntype \in [Nodes -> {"file", "dir", "symlink"}]
  /\ parent \in [Nodes -> Nodes \cup {NoNode}]
  /\ nxt \in [Nodes -> Nodes \cup {NoNode}]
  /\ children \in [Nodes -> Nodes \cup {NoNode}]
  /\ target \in [Nodes -> Nodes \cup {NoNode}]
  /\ sys \in {"running", Overflow}

(* The pointers of fs_add_node and fs_remove_node keep a tree after any   *)
(* sequence of calls: every child list ends without revisiting a node,    *)
(* a node is in p's list exactly when its parent pointer is p, and no     *)
(* node is its own ancestor.                                               *)
TreeWellFormed ==
  \A p \in alive :
    /\ Len(ListOf(p)) <= Cardinality(Nodes)
    /\ IsInjective(ListOf(p))
    /\ \A n \in alive : (n \in ToSet(ListOf(p))) <=> (parent[n] = p)
    /\ p \notin Up(parent[p], Cardinality(Nodes))
====
