------------------------------ MODULE JsonTree ------------------------------
(***************************************************************************)
(* What json::value promises its callers: value semantics.  Each local    *)
(* holds a JSON tree, and no two locals or elements share anything.  A    *)
(* call changes only the location it targets (and, for a move, its        *)
(* source) and stores there a tree made of the arguments as they were     *)
(* before the call.  There is no heap, no pointer and no allocation.      *)
(*                                                                         *)
(* A tree is [type, u, str, items, keys]: u is a scalar's value, str a     *)
(* string's characters, items the elements of an array or object and keys *)
(* an object's keys, in key order.  A location is a path: a slot followed *)
(* by element indices.                                                    *)
(***************************************************************************)
EXTENDS Naturals, Sequences, SequencesExt

CONSTANTS
  Slots,       \* the program's json::value locals
  Leaves,      \* the trees a constructor or set<T> builds from its arguments
  KeyOrder,    \* the object keys, in std::string order
  Narrow(_, _) \* what get<T> stores for a number of type number_type

NullTree == [type |-> "null", u |-> "0", str |-> <<>>, items |-> <<>>, keys |-> <<>>]
PtrTypes == {"string", "array", "object"}
Keys == ToSet(KeyOrder)

VARIABLES
  tree,    \* Slots -> tree
  scope,   \* the slots constructed and not yet destroyed
  exc      \* the exception the last call threw, or "none"

vars == <<tree, scope, exc>>

\* The subtree at path q below node n ("absent" when there is none), and
\* node n with it replaced by v.
RECURSIVE NodeAt(_, _), NodeWith(_, _, _), NodePaths(_)
NodeAt(n, q) ==
  CASE q = <<>> -> n
    [] Head(q) \in DOMAIN n.items -> NodeAt(n.items[Head(q)], Tail(q))
    [] OTHER -> [NullTree EXCEPT !.type = "absent"]
NodeWith(n, q, v) ==
  IF q = <<>> THEN v ELSE [n EXCEPT !.items[Head(q)] = NodeWith(@, Tail(q), v)]
NodePaths(n) ==
  {<<>>} \cup UNION {{<<i>> \o q : q \in NodePaths(n.items[i])} : i \in DOMAIN n.items}

Sub(T, p) == NodeAt(T[Head(p)], Tail(p))
Update(T, p, v) == [T EXCEPT ![Head(p)] = NodeWith(@, Tail(p), v)]

\* The locations a caller can hold.
Paths == UNION {{<<s>> \o q : q \in NodePaths(tree[s])} : s \in scope}

\* Neither location lies inside the other.
Disjoint(p, q) == ~IsPrefix(p, q) /\ ~IsPrefix(q, p)

\* What the arguments of a constructor or assignment can make.
Sources == Leaves \cup {Sub(tree, x) : x \in Paths}

Init ==
  /\ tree = [s \in Slots |-> NullTree]
  /\ scope = {}
  /\ exc = "none"

Returns(T) == tree' = T /\ exc' = "none"

\* A constructor: s comes into scope holding v.
Create(s, v) ==
  /\ s \notin scope /\ Returns([tree EXCEPT ![s] = v]) /\ scope' = scope \cup {s}

\* A move constructor: s takes x's tree and x is left null.
CreateMoved(s, x) ==
  /\ s \notin scope /\ tree'[s] = Sub(tree, x)
  /\ Returns([Update(tree, x, NullTree) EXCEPT ![s] = Sub(tree, x)])
  /\ scope' = scope \cup {s}

\* A destructor: s goes out of scope.
Destroy(s) ==
  /\ s \in scope /\ Returns([tree EXCEPT ![s] = NullTree]) /\ scope' = scope \ {s}

\* An assignment or set<T>: the tree at t becomes v.
Replace(t, v) == Returns(Update(tree, t, v)) /\ UNCHANGED scope

\* A swap or move assignment: the trees at t and x change places.
Exchange(t, x) ==
  /\ Sub(tree', t) = Sub(tree, x) /\ (t = x \/ Disjoint(t, x))
  /\ Returns(Update(Update(tree, t, Sub(tree, x)), x, Sub(tree, t)))
  /\ UNCHANGED scope

\* set<T>(std::move(...)): t takes x's string, array or object, and x keeps
\* its type with nothing in it.
Steal(t, x) ==
  LET v == Sub(tree, x)
  IN  /\ v.type \in PtrTypes /\ Sub(tree', t) = v /\ Disjoint(t, x)
      /\ Returns(Update(Update(tree, x, [v EXCEPT !.str = <<>>, !.items = <<>>, !.keys = <<>>]), t, v))
      /\ UNCHANGED scope

\* A narrowing get<T>: a number_type value becomes a T.
Narrowing(t, ty) ==
  LET v == Sub(tree, t)
  IN  /\ v.type = "number"
      /\ Replace(t, [NullTree EXCEPT !.type = ty, !.u = Narrow(ty, v.u)])

\* get<array>().push_back(x): the array at t gains x's tree at its end.
PushBack(t, x) ==
  LET v == Sub(tree, t)
  IN  v.type = "array" /\ Replace(t, [v EXCEPT !.items = Append(@, Sub(tree, x))])

\* get<object>()[k] = x: when k is absent a null member is first put at its
\* place in key order, then the member takes the tree x names at that time.
InsertKey(t, k, x) ==
  LET v == Sub(tree, t)
      rank(key) == CHOOSE i \in 1..Len(KeyOrder) : KeyOrder[i] = key
      pos == Cardinality({i \in DOMAIN v.keys : rank(v.keys[i]) < rank(k)}) + 1
      n == Len(t) + 1
      T1 == Update(tree, t, [v EXCEPT !.items = InsertAt(@, pos, NullTree),
                                      !.keys = InsertAt(@, pos, k)])
      x1 == IF Len(x) >= n /\ IsPrefix(t, x) /\ x[n] >= pos
            THEN [x EXCEPT ![n] = @ + 1] ELSE x
  IN  /\ v.type = "object"
      /\ IF k \in ToSet(v.keys)
         THEN Replace(t \o <<CHOOSE i \in DOMAIN v.keys : v.keys[i] = k>>, Sub(tree, x))
         ELSE Returns(Update(T1, t \o <<pos>>, Sub(T1, x1))) /\ UNCHANGED scope

\* A call that throws changes no value.
Throw == exc' \in {"overflow_error", "runtime_error"} /\ UNCHANGED <<tree, scope>>

\* A step either throws, or makes one of the calls above.  The tree an
\* assignment or constructor stores is named by the state it leads to, so
\* that no argument has to be guessed, and a call that changes a value has
\* its target in a slot whose tree changed (Changed); a call that changes
\* no tree is an assignment of a value to itself.
Next ==
  \/ Throw
  \/ LET P == Paths
         S == Sources
         Changed == {t \in P : tree'[Head(t)] # tree[Head(t)]}
     IN  \/ \E t \in IF Changed = {} THEN P ELSE Changed :
              \/ Sub(tree', t) \in S /\ Replace(t, Sub(tree', t))
              \/ \E ty \in {"int32", "uint64", "uint32", "uint16", "uint8", "float"} :
                   Narrowing(t, ty)
              \/ \E x \in P : \/ Exchange(t, x) \/ Steal(t, x) \/ PushBack(t, x)
                              \/ \E k \in Keys : InsertKey(t, k, x)
         \/ \E s \in Slots :
              \/ tree'[s] \in S /\ Create(s, tree'[s])
              \/ Destroy(s)
              \/ \E x \in P : CreateMoved(s, x)

Spec == Init /\ [][Next]_vars
=============================================================================
