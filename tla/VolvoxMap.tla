----------------------------- MODULE VolvoxMap -----------------------------
(***************************************************************************)
(* A map or set variable of a Volvox program: the methods of `struct       *)
(* __map`, the map and set literals and the assignment `m[k] = v` the      *)
(* compiler generates, on the AVL tree of AvlTree.                         *)
(* Source: lib/volvox/builtin.vx, src/codegen.cc, clib/map.cc.             *)
(***************************************************************************)
EXTENDS AvlTree, FiniteSets

CONSTANTS
  Keys,       \* integers
  Values,     \* values of a map; a set stores Zero
  Zero,       \* the value 0 that __get_T and the set insertions pass
  Types,      \* types a variable may have: records of the keys it may get
              \* (keys, a set), whether they are numbers and not strings
              \* (numeric), the kind of its values (value: "number",
              \* "string", or "none" for a set), and whether the program
              \* loops over it (loops)
  Literals    \* sequences of keys of a map or set literal

ASSUME KeysAssumption == Keys \subseteq Int
ASSUME TypesAssumption ==
  Types \subseteq [keys : SUBSET Keys, numeric : BOOLEAN,
                   value : {"number", "string", "none"}, loops : BOOLEAN]

VARIABLES
  type,       \* the type of the variable
  tree,       \* __ptr and the nodes on the heap
  count,      \* the field count
  result      \* what the last insert or delete returned

mapVars == <<tree, count, result>>
vars    == <<type, mapVars>>

\* Addresses: there may be two nodes with one key, when one is replaced.
Addresses == Keys \X {1, 2}

NodeType == [key : Keys, val : Values \cup {Zero}, left : Addresses \cup {Nil},
             right : Addresses \cup {Nil}, parent : Addresses \cup {Nil},
             bf : -1 .. 1]

TypeOK ==
  /\ type \in Types
  /\ tree.root \in Addresses \cup {Nil}
  /\ DOMAIN tree.node \subseteq Addresses
  /\ \A n \in DOMAIN tree.node : tree.node[n] \in NodeType
  /\ count \in 0 .. Cardinality(Keys)
  /\ result \in BOOLEAN

Init ==
  /\ type \in Types
  /\ tree = EmptyTree
  /\ count = 0
  /\ result = TRUE

-----------------------------------------------------------------------------
(* malloc gives the address that is free for the key.                      *)

Malloc(t, k) == IF <<k, 1>> \in DOMAIN t.node THEN <<k, 2>> ELSE <<k, 1>>

\* this.count++ unless old_node says that the key existed.
CountAfterInsert(existed, n) == IF existed THEN n ELSE n + 1

InsertInto(t, k, v) == Insert(t, Malloc(t, k), k, v, type.numeric)

\* __get_T(key, create_new) gives the address of the value, in a new node
\* when there is none, and the value is stored there.
AssignWord(k, v) ==
  LET pos == Find(tree, k)
      new == InsertInto(tree, k, Zero)
      place == IF pos.is_parent THEN Malloc(tree, k) ELSE pos.node
      t     == IF pos.is_parent THEN new.tree ELSE tree
  IN /\ tree' = [t EXCEPT !.node[place].val = v]
     /\ count' = IF pos.is_parent THEN CountAfterInsert(new.existed, count) ELSE count

\* A string is stored in the node: the compiler calls T_insert itself and
\* counts when *target came back null.
AssignString(k, v) ==
  LET new == InsertInto(tree, k, v)
  IN /\ tree'  = new.tree
     /\ count' = CountAfterInsert(new.existed, count)

\* m[k] = v
Assign(k, v) ==
  /\ type.value # "none"
  /\ IF type.value = "string" THEN AssignString(k, v) ELSE AssignWord(k, v)
  /\ UNCHANGED result

\* s.insert(k) on a set: __insert_T_0 compares the count before and after.
InsertKey(k) ==
  /\ type.value = "none"
  /\ LET new == InsertInto(tree, k, Zero)
     IN /\ tree'  = new.tree
        /\ count' = CountAfterInsert(new.existed, count)
        /\ result' = (count' > count)

\* Mutant: the count is not adjusted.
DeleteKeepsCount(k) ==
  /\ tree'  = Delete(tree, k)
  /\ result' = ~Find(tree, k).is_parent
  /\ UNCHANGED count

\* m.delete(k)
DeleteKey(k) ==
  /\ tree'  = Delete(tree, k)
  /\ result' = ~Find(tree, k).is_parent
  /\ count' = IF result' THEN count - 1 ELSE count

\* ~__map at the end of the variable's scope; the next map starts empty.
Destructor ==
  /\ tree' = Destroy(tree)
  /\ count' = 0
  /\ UNCHANGED result

RECURSIVE InsertAll(_, _, _)
InsertAll(t, ks, v) ==
  IF ks = <<>> THEN t
  ELSE InsertAll(InsertInto(t, Head(ks), v).tree, Tail(ks), v)

\* m = map[..]{ .. } and s = set[..]{ .. } declare a variable: the elements are
\* inserted in order, the count is the number of elements written down.
Literal(ks, v) ==
  /\ tree.root = Nil
  /\ tree' = InsertAll(tree, ks, v)
  /\ count' = Len(ks)
  /\ UNCHANGED result

\* The literals of the type: their elements have its keys, those of a set no
\* value.
LiteralsOf(t) == {ks \in Literals : \A i \in DOMAIN ks : ks[i] \in t.keys}
LiteralValues(t) == IF t.value = "none" THEN {Zero} ELSE Values

Operation ==
  \/ \E k \in type.keys, v \in Values : Assign(k, v)
  \/ \E k \in type.keys : InsertKey(k)
  \/ \E k \in type.keys : DeleteKey(k)
  \/ Destructor
  \/ \E ks \in LiteralsOf(type), v \in LiteralValues(type) : Literal(ks, v)

Next == Operation /\ UNCHANGED type

-----------------------------------------------------------------------------
(* Properties.                                                             *)

Linked == NodesBelow(tree, tree.root)

\* map_check_avl_get_depth reports nothing wrong about any node: parent
\* links, order and balance factors are exact after every operation. Every
\* allocated node is linked into the tree: insertions, deletions with their
\* double rotations, and the destructor neither leak nor free too much.
TreeValid ==
  /\ \A n \in Linked : NodeChecks(tree, n)
  /\ DOMAIN tree.node = Linked

KeyOf(n) == tree.node[n].key

\* What find sees: the abstract content.
Present == {k \in Keys : ~Find(tree, k).is_parent}
Content == [k \in Present |-> tree.node[Find(tree, k).node].val]

Abstract == INSTANCE OrderedMap WITH
              content <- Content, Values <- Values \cup {Zero}

\* A step that is an operation is the same operation of the promised map.
OperationsMatch ==
  /\ \A k \in type.keys, v \in Values : Assign(k, v) => Abstract!Put(k, v)
  /\ \A k \in type.keys : InsertKey(k) => Abstract!Add(k, Zero)
  /\ \A k \in type.keys : DeleteKey(k) => Abstract!Remove(k)
  /\ Destructor => Abstract!Clear
  /\ \A ks \in LiteralsOf(type), v \in LiteralValues(type) :
       Literal(ks, v) => Abstract!Fill({ks[i] : i \in DOMAIN ks}, v)
=============================================================================
