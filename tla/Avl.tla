-------------------------------- MODULE Avl --------------------------------
(***************************************************************************)
(* The AVL tree of avl.go, in which UpdateDB and TopoDB are kept.  A tree  *)
(* is a value here: AvlInsert and AvlDelete return the new root, and no    *)
(* two trees share nodes.  The module lets a client insert, update and     *)
(* delete in any order and compares the tree with a plain map.             *)
(***************************************************************************)
EXTENDS Integers, Sequences, FiniteSets

CONSTANTS
  Key,         \* the keys a client uses, integers (uint64 in the code)
  Data,        \* the values
  NoData       \* AvlSearch returning nil

ASSUME AvlAssumption == Key \subseteq Nat /\ NoData \notin Data

VARIABLES
  root,    \* the tree
  map,     \* the map it should represent: map[k] is the value last stored under k
  deleted  \* history: AvlDelete was called

vars == <<root, map, deleted>>

-----------------------------------------------------------------------------
\* The nil pointer.  A node is [key, data, height, left, right].
Nil == [height |-> 0]

\* GetHeight: the cached height of a node, 0 for nil.
GetHeight(t) == t.height

Max(a, b) == IF a > b THEN a ELSE b

\* A node over two subtrees with its height recomputed.
MkNode(k, d, l, r) ==
  [key |-> k, data |-> d, left |-> l, right |-> r,
   height |-> 1 + Max(GetHeight(l), GetHeight(r))]

GetBalanceFactor(t) == IF t = Nil THEN 0 ELSE GetHeight(t.left) - GetHeight(t.right)

RotateRight(z) ==
  LET y == z.left IN MkNode(y.key, y.data, y.left, MkNode(z.key, z.data, y.right, z.right))

\* Faulty variant of RotateLeft: the keys change places, the data do not.
RotateLeftKeys(z) ==
  LET y == z.right IN MkNode(y.key, z.data, MkNode(z.key, y.data, z.left, y.left), y.right)

RotateLeft(z) ==
  LET y == z.right IN MkNode(y.key, y.data, MkNode(z.key, z.data, z.left, y.left), y.right)

\* Faulty variant of InsertBalance: no double rotations.
InsertBalanceSingle(t, k) ==
  LET bf == GetBalanceFactor(t) IN
  CASE bf > 1 -> RotateRight(t) [] bf < -1 -> RotateLeft(t) [] OTHER -> t

\* The four rotations at the end of AvlInsert, chosen by the inserted key.
InsertBalance(t, k) ==
  LET bf == GetBalanceFactor(t) IN
  CASE bf > 1 /\ k < t.left.key -> RotateRight(t)
    [] bf > 1 /\ k > t.left.key -> RotateRight(MkNode(t.key, t.data, RotateLeft(t.left), t.right))
    [] bf < -1 /\ k > t.right.key -> RotateLeft(t)
    [] bf < -1 /\ k < t.right.key -> RotateLeft(MkNode(t.key, t.data, t.left, RotateRight(t.right)))
    [] OTHER -> t

RECURSIVE AvlInsert(_, _, _, _)
AvlInsert(t, k, d, overwrite) ==
  IF t = Nil THEN MkNode(k, d, Nil, Nil)
  ELSE IF k = t.key THEN (IF overwrite THEN [t EXCEPT !.data = d] ELSE t)
  ELSE InsertBalance(
         IF k < t.key THEN MkNode(t.key, t.data, AvlInsert(t.left, k, d, overwrite), t.right)
                      ELSE MkNode(t.key, t.data, t.left, AvlInsert(t.right, k, d, overwrite)), k)

\* The rotations at the end of AvlDelete, chosen by the children's balance.
DeleteBalance(t) ==
  LET bf == GetBalanceFactor(t) IN
  CASE bf > 1 /\ GetBalanceFactor(t.left) >= 0 -> RotateRight(t)
    [] bf > 1 /\ GetBalanceFactor(t.left) < 0 ->
         RotateRight(MkNode(t.key, t.data, RotateLeft(t.left), t.right))
    [] bf < -1 /\ GetBalanceFactor(t.right) <= 0 -> RotateLeft(t)
    [] bf < -1 /\ GetBalanceFactor(t.right) > 0 ->
         RotateLeft(MkNode(t.key, t.data, t.left, RotateRight(t.right)))
    [] OTHER -> t

\* The successor: the left-most node of a subtree.
RECURSIVE LeftMost(_)
LeftMost(t) == IF t.left = Nil THEN t ELSE LeftMost(t.left)

\* With two children the successor's key is copied into the node, its data is
\* not.  A single child that moves up still gets its height recomputed.
RECURSIVE AvlDelete(_, _)
AvlDelete(t, k) ==
  IF t = Nil THEN Nil
  ELSE LET u == CASE k < t.key -> MkNode(t.key, t.data, AvlDelete(t.left, k), t.right)
                  [] k > t.key -> MkNode(t.key, t.data, t.left, AvlDelete(t.right, k))
                  [] k = t.key /\ t.left = Nil -> t.right
                  [] k = t.key /\ t.left # Nil /\ t.right = Nil -> t.left
                  [] OTHER -> LET s == LeftMost(t.right)
                              IN MkNode(s.key, t.data, t.left, AvlDelete(t.right, s.key))
       IN IF u = Nil THEN Nil ELSE DeleteBalance(u)

RECURSIVE AvlSearch(_, _)
AvlSearch(t, k) ==
  IF t = Nil THEN NoData
  ELSE IF t.key = k THEN t.data
  ELSE AvlSearch(IF t.key > k THEN t.left ELSE t.right, k)

RECURSIVE AvlUpdate(_, _, _)
AvlUpdate(t, k, d) ==
  IF t = Nil THEN Nil
  ELSE IF t.key = k THEN [t EXCEPT !.data = d]
  ELSE IF t.key > k THEN [t EXCEPT !.left = AvlUpdate(t.left, k, d)]
  ELSE [t EXCEPT !.right = AvlUpdate(t.right, k, d)]

\* Faulty variant of GetAllRound: the right subtree of a popped node is skipped.
GetAllLeft(s) ==
  IF s.current # Nil
  THEN [s EXCEPT !.stack = Append(@, s.current), !.current = s.current.left]
  ELSE [stack |-> SubSeq(s.stack, 1, Len(s.stack) - 1), current |-> Nil,
        nodes |-> Append(s.nodes, s.stack[Len(s.stack)])]

\* One round of AvlGetAll's loop: go left and push, or pop, collect and go right.
GetAllRound(s) ==
  IF s.current # Nil
  THEN [s EXCEPT !.stack = Append(@, s.current), !.current = s.current.left]
  ELSE LET top == s.stack[Len(s.stack)]
       IN [stack |-> SubSeq(s.stack, 1, Len(s.stack) - 1),
           current |-> top.right, nodes |-> Append(s.nodes, top)]

RECURSIVE GetAllLoop(_)
GetAllLoop(s) ==
  IF s.current = Nil /\ s.stack = <<>> THEN s.nodes ELSE GetAllLoop(GetAllRound(s))

AvlGetAll(t) == GetAllLoop([stack |-> <<>>, current |-> t, nodes |-> <<>>])

-----------------------------------------------------------------------------
\* AvlInsert(overwrite = false) as isisUpdateInput calls it for a new LSP; the
\* call changes nothing when the key is present.
InsertNew(k, d) ==
  /\ root' = AvlInsert(root, k, d, FALSE)
  /\ map' = IF map[k] = NoData THEN [map EXCEPT ![k] = d] ELSE map
  /\ UNCHANGED deleted

\* AvlInsert(overwrite = true), generateLocalLsp and computeSPF.
InsertOver(k, d) ==
  /\ root' = AvlInsert(root, k, d, TRUE)
  /\ map' = [map EXCEPT ![k] = d]
  /\ UNCHANGED deleted

Update(k, d) ==
  /\ root' = AvlUpdate(root, k, d)
  /\ map' = IF map[k] = NoData THEN map ELSE [map EXCEPT ![k] = d]
  /\ UNCHANGED deleted

\* Only the tests delete.
Delete(k) ==
  /\ root' = AvlDelete(root, k)
  /\ map' = [map EXCEPT ![k] = NoData]
  /\ deleted' = TRUE

\* updateDBInit and topoDBInit: an empty tree.
Init == root = Nil /\ map = [k \in Key |-> NoData] /\ deleted = FALSE

Next ==
  \E k \in Key :
    \/ \E d \in Data : InsertNew(k, d) \/ InsertOver(k, d) \/ Update(k, d)
    \/ Delete(k)

Spec == Init /\ [][Next]_vars

-----------------------------------------------------------------------------
(* Properties                                                              *)

\* The nodes of a tree.
RECURSIVE Subtrees(_)
Subtrees(t) == IF t = Nil THEN {} ELSE {t} \cup Subtrees(t.left) \cup Subtrees(t.right)

RECURSIVE Depth(_)
Depth(t) == IF t = Nil THEN 0 ELSE 1 + Max(Depth(t.left), Depth(t.right))

\* The rotations keep every node balanced, and the cached heights they are
\* chosen by are the real ones, after any sequence of inserts and deletes.
Balanced ==
  \A t \in Subtrees(root) :
    /\ t.height = Depth(t)
    /\ GetBalanceFactor(t) \in -1..1

\* AvlGetAll lists the keys stored, each once, in order: what GetLsp shows and
\* computeSPF runs on, with its explicit stack over a tree of any shape.
GetAllSorted ==
  LET all == AvlGetAll(root) IN
  /\ {all[x].key : x \in DOMAIN all} = {k \in Key : map[k] # NoData}
  /\ \A x, y \in DOMAIN all : x < y => all[x].key < all[y].key

\* A search finds a key exactly if it is stored and, as long as nothing was
\* deleted, the value last stored under it: rotations take nodes along whole,
\* AvlDelete of a node with two children moves a key without its data.
SearchAgrees ==
  \A k \in Key :
    /\ AvlSearch(root, k) = NoData <=> map[k] = NoData
    /\ deleted \/ AvlSearch(root, k) = map[k]
=============================================================================
