---------------------------- MODULE LockFreeStack ----------------------------
(***************************************************************************)
(* LockFreeStack.h over its FreeList, as the server uses it: m_IndexStack, *)
(* the stack of the free indices of m_SessionArray. AcceptUser pops an     *)
(* index, SessionClear on any thread pushes it back.                       *)
(***************************************************************************)
EXTENDS FreeList, FiniteSets

CONSTANTS
    MaxUser,   \* m_MaxUserCount
    Taken,     \* sessions accepted before the behaviour begins
    MaxId      \* bound: no call begins once _ID has got there

ASSUME ThreadAssumption == IsFiniteSet(Threads)

ASSUME UserAssumption == MaxUser \in Nat /\ Taken \in 0..MaxUser /\ MaxId \in Int

None == -1

Indices == 0..(MaxUser - 1)

VARIABLES
    top,      \* *m_TopCheck
    next,     \* LockFreeStack::Node::_Next
    data,     \* _Data
    count,    \* m_Count
    list,     \* history: the nodes of the stack, top first
    val,      \* thread local: the index pushed, or popped
    held      \* indices that are neither in the stack nor in a call

stackVars == <<top, next, data, count, list>>
vars == <<freeVars, stackVars, pc, tmp, nxt, node, val, held>>

---------------------------------------------------------------------------
(* ServerStart pushes the indices in turn, then the accept thread pops for the  *)
(* first sessions; nobody else calls meanwhile. Each exchange counts _ID up.   *)
Filling == top.id < MaxUser - 1

Alone == top.id < MaxUser - 1 + Taken

MayCall(t) ==
    /\ pc[t] = "idle" /\ top.id < MaxId
    /\ Alone => \A u \in Threads : pc[u] = "idle"

---------------------------------------------------------------------------
(* Push *)

PushCall(t) ==
    /\ MayCall(t) /\ (Alone => Filling)
    /\ \E v \in held :
        /\ Filling => v = top.id + 1
        /\ val' = [val EXCEPT ![t] = v]
        /\ held' = held \ {v}
    /\ Goto(t, "alloc_ptr")
    /\ UNCHANGED <<freeVars, stackVars, tmp, nxt, node>>

(* Mutant of PushNode: a recycled node keeps its data. *)
PushNodeKeeps(t) ==
    /\ pc[t] = "push_node"
    /\ next' = [next EXCEPT ![node[t]] = NULL]
    /\ Goto(t, "push_ptr")
    /\ UNCHANGED <<freeVars, top, data, count, list, tmp, nxt, node, val, held>>

(* The new node; nobody else has it. *)
PushNode(t) ==
    /\ pc[t] = "push_node"
    /\ data' = [data EXCEPT ![node[t]] = val[t]]
    /\ next' = [next EXCEPT ![node[t]] = NULL]
    /\ Goto(t, "push_ptr")
    /\ UNCHANGED <<freeVars, top, count, list, tmp, nxt, node, val, held>>

PushPtr(t) == ReadPtr(t, "push_ptr", top, "push_id") /\ UNCHANGED <<freeVars, stackVars, val, held>>

PushId(t) == ReadId(t, "push_id", top, "push_link") /\ UNCHANGED <<freeVars, stackVars, val, held>>

PushLink(t) ==
    /\ pc[t] = "push_link"
    /\ next' = [next EXCEPT ![node[t]] = tmp[t].ptr]
    /\ Goto(t, "push_cas")
    /\ UNCHANGED <<freeVars, top, data, count, list, tmp, nxt, node, val, held>>

PushCas(t) ==
    /\ pc[t] = "push_cas"
    /\ \/ /\ top = tmp[t]
          /\ top' = [ptr |-> node[t], id |-> top.id + 1]
          /\ list' = <<node[t]>> \o list
          /\ Goto(t, "push_count")
          /\ UNCHANGED tmp
       \/ /\ top # tmp[t]
          /\ Reload(t, top, "push_link")
          /\ UNCHANGED <<top, list>>
    /\ UNCHANGED <<freeVars, next, data, count, nxt, node, val, held>>

PushCount(t) ==
    /\ pc[t] = "push_count"
    /\ count' = count + 1
    /\ Leave(t)
    /\ val' = [val EXCEPT ![t] = None]
    /\ UNCHANGED <<freeVars, top, next, data, list, held>>

---------------------------------------------------------------------------
(* Pop: the count is taken first, and tells whether there is a node to take. *)

PopDec(t) ==
    /\ MayCall(t) /\ ~Filling
    /\ count' = count - 1
    /\ Goto(t, IF count - 1 < 0 THEN "pop_undo" ELSE "pop_ptr")
    /\ UNCHANGED <<freeVars, top, next, data, list, tmp, nxt, node, val, held>>

(* Mutant of PopUndo: the count is not given back. *)
PopUndoNot(t) ==
    /\ pc[t] = "pop_undo"
    /\ Leave(t)
    /\ val' = [val EXCEPT ![t] = None]
    /\ UNCHANGED <<freeVars, stackVars, held>>

PopUndo(t) ==
    /\ pc[t] = "pop_undo"
    /\ count' = count + 1
    /\ Leave(t)
    /\ val' = [val EXCEPT ![t] = None]
    /\ UNCHANGED <<freeVars, top, next, data, list, held>>

PopPtr(t) == ReadPtr(t, "pop_ptr", top, "pop_id") /\ UNCHANGED <<freeVars, stackVars, val, held>>

PopId(t) == ReadId(t, "pop_id", top, "pop_next") /\ UNCHANGED <<freeVars, stackVars, val, held>>

(* The node may have been popped, and pushed again, by another thread. *)
PopNext(t) ==
    /\ pc[t] = "pop_next" /\ tmp[t].ptr # NULL
    /\ nxt' = [nxt EXCEPT ![t] = next[tmp[t].ptr]]
    /\ Goto(t, "pop_cas")
    /\ UNCHANGED <<freeVars, stackVars, tmp, node, val, held>>

(* Mutant of PopCas: the pointer is compared without its number. *)
PopCasAba(t) ==
    /\ pc[t] = "pop_cas"
    /\ \/ /\ top.ptr = tmp[t].ptr
          /\ top' = [ptr |-> nxt[t], id |-> top.id + 1]
          /\ list' = Tail(list)
          /\ Goto(t, "pop_data")
          /\ UNCHANGED tmp
       \/ /\ top.ptr # tmp[t].ptr
          /\ Reload(t, top, "pop_next")
          /\ UNCHANGED <<top, list>>
    /\ UNCHANGED <<freeVars, next, data, count, nxt, node, val, held>>

PopCas(t) ==
    /\ pc[t] = "pop_cas"
    /\ \/ /\ top = tmp[t]
          /\ top' = [ptr |-> nxt[t], id |-> top.id + 1]
          /\ list' = Tail(list)
          /\ Goto(t, "pop_data")
          /\ UNCHANGED tmp
       \/ /\ top # tmp[t]
          /\ Reload(t, top, "pop_next")
          /\ UNCHANGED <<top, list>>
    /\ UNCHANGED <<freeVars, next, data, count, nxt, node, val, held>>

PopData(t) ==
    /\ pc[t] = "pop_data"
    /\ val' = [val EXCEPT ![t] = data[tmp[t].ptr]]
    /\ node' = [node EXCEPT ![t] = tmp[t].ptr]
    /\ Goto(t, "free_ptr")
    /\ UNCHANGED <<freeVars, stackVars, tmp, nxt, held>>

PopReturn(t) ==
    /\ pc[t] = "pop_return"
    /\ held' = held \cup {val[t]}
    /\ val' = [val EXCEPT ![t] = None]
    /\ Leave(t)
    /\ UNCHANGED <<freeVars, stackVars>>

---------------------------------------------------------------------------
Alloc(t) == AllocPtr(t) \/ AllocId(t) \/ AllocNew(t, "push_node") \/ AllocNext(t) \/ AllocCas(t, "push_node")

Free(t) == FreePtr(t) \/ FreeId(t) \/ FreeLink(t) \/ FreeCas(t, "pop_return")

Step(t) ==
    \/ (Alloc(t) \/ Free(t)) /\ UNCHANGED <<stackVars, val, held>>
    \/ PushCall(t) \/ PushNode(t) \/ PushPtr(t) \/ PushId(t) \/ PushLink(t) \/ PushCas(t) \/ PushCount(t)
    \/ PopDec(t) \/ PopUndo(t) \/ PopPtr(t) \/ PopId(t) \/ PopNext(t) \/ PopCas(t) \/ PopData(t) \/ PopReturn(t)

Next == \E t \in Threads : Step(t)

Init ==
    /\ pool = NoTop
    /\ link = [n \in Nodes |-> NULL]
    /\ fresh = Nodes
    /\ spare = <<>>
    /\ top = [ptr |-> NULL, id |-> -1]
    /\ next = [n \in Nodes |-> NULL]
    /\ data = [n \in Nodes |-> None]
    /\ count = 0
    /\ list = <<>>
    /\ pc = [t \in Threads |-> "idle"]
    /\ tmp = [t \in Threads |-> NoTop]
    /\ nxt = [t \in Threads |-> NULL]
    /\ node = [t \in Threads |-> NULL]
    /\ val = [t \in Threads |-> None]
    /\ held = Indices

Spec == Init /\ [][Next]_vars

---------------------------------------------------------------------------
(* Memory *)

(* Both lists in memory hold exactly the nodes that were put in and not taken *)
(* out, in that order: no exchange ever succeeds on a stale next.             *)
ListsIntact == Linked(pool, link, spare) /\ Linked(top, next, list)

HandPlaces == {"push_node", "push_ptr", "push_id", "push_link", "push_cas",
               "free_ptr", "free_id", "free_link", "free_cas"}

(* Every node is in one place: with the heap, in the pool's list, in the      *)
(* stack, or in the hands of one thread between Alloc and Push's exchange, or *)
(* between Pop's exchange and Free's.                                         *)
OneHolder == \A n \in Nodes :
    Cardinality({<<"heap">> : x \in {y \in fresh : y = n}}
                \cup {<<"pool", i>> : i \in {j \in DOMAIN spare : spare[j] = n}}
                \cup {<<"stack", i>> : i \in {j \in DOMAIN list : list[j] = n}}
                \cup {<<"thread", t>> : t \in {u \in Threads :
                        \/ pc[u] \in HandPlaces /\ node[u] = n
                        \/ pc[u] = "pop_data" /\ tmp[u].ptr = n}}) = 1

(* A Pop returns false only when every index in the stack is spoken for: by a *)
(* Push that has not counted it yet, by a Pop that will take it, or through   *)
(* the count another failing Pop has not given back yet.                      *)
EmptyIsHonest == [][\A t \in Threads : pc[t] = "idle" /\ pc'[t] = "pop_undo" =>
    Len(list) <= Cardinality({u \in Threads \ {t} :
        pc[u] \in {"push_count", "pop_undo", "pop_ptr", "pop_id", "pop_next", "pop_cas"}})]_vars

(* The stack takes effect at its exchanges, as an atomic stack: no index is   *)
(* given to two sessions, and none gets lost.                                 *)
Stack == INSTANCE AtomicStack WITH
    Values <- Indices,
    stack <- [i \in DOMAIN list |-> data[list[i]]],
    inCall <- [t \in Threads |->
        CASE pc[t] = "pop_data" -> data[tmp[t].ptr]
          [] pc[t] = "push_count" -> None
          [] OTHER -> val[t]],
    users <- held
StackSpec == Stack!Spec
=============================================================================
