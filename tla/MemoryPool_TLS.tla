---------------------------- MODULE MemoryPool_TLS ----------------------------
(***************************************************************************)
(* MemoryPool_TLS.h: a pool that cuts its objects from chunks. A thread    *)
(* takes objects from the chunk in its thread local storage, any thread    *)
(* gives them back; the chunk whose last object came back returns to the   *)
(* pool of chunks. That one is a FreeList, atomic here.                    *)
(*                                                                         *)
(* The operators are parts of the actions of the module that owns the      *)
(* objects.                                                                *)
(***************************************************************************)
EXTENDS Integers, Sequences, FiniteSets

CONSTANTS
    Threads,      \* the threads that allocate
    ObjectCount,  \* m_ObjectCount
    MaxChunks     \* bound: chunks the heap gives

ASSUME PoolAssumption == ObjectCount \in Nat \ {0} /\ MaxChunks \in Nat \ {0}

NoChunk == 0

Chunks == 1..MaxChunks

Objects == Chunks \X (0..(ObjectCount - 1))

VARIABLES
    made,        \* chunks the heap has given
    center,      \* m_ChunkMemoryPool, top first
    tls,         \* the TLS slot m_TLSChunkIndex of each thread
    allocIndex,  \* m_AllocIndex of each chunk
    freeCount    \* m_FreeCount of each chunk

poolVars == <<made, center, tls, allocIndex, freeCount>>

(* ChunkSetting: the chunk is set up by AllocInit before TlsSetValue. *)
ChunkSetting(t) ==
    \E c \in Chunks :
        /\ IF center = <<>> THEN c = made + 1 /\ made' = c /\ UNCHANGED center
                            ELSE c = Head(center) /\ center' = Tail(center) /\ UNCHANGED made
        /\ tls' = [tls EXCEPT ![t] = c]
        /\ allocIndex' = [allocIndex EXCEPT ![c] = ObjectCount]
        /\ freeCount' = [freeCount EXCEPT ![c] = ObjectCount]

(* The object the next Alloc of t returns. *)
NextObject(t) == <<tls[t], allocIndex[tls[t]] - 1>>

(* An index that is 0 would wrap: nothing is said of what follows. *)
TakeObject(t) ==
    /\ allocIndex[tls[t]] > 0
    /\ allocIndex' = [allocIndex EXCEPT ![tls[t]] = @ - 1]
    /\ UNCHANGED <<made, center, tls, freeCount>>

(* The thread whose decrement reaches 0 gives the chunk back; nobody else   *)
(* has a pointer into it, so that the two are one step.                     *)
FreeObject(p) ==
    /\ freeCount' = [freeCount EXCEPT ![p[1]] = @ - 1]
    /\ center' = IF freeCount[p[1]] = 1 THEN <<p[1]>> \o center ELSE center
    /\ UNCHANGED <<made, tls, allocIndex>>

PoolInit ==
    /\ made = 0
    /\ center = <<>>
    /\ tls = [t \in Threads |-> NoChunk]
    /\ allocIndex = [c \in Chunks |-> 0]
    /\ freeCount = [c \in Chunks |-> 0]

(* Every object of a chunk is one of three: not yet taken, in use, given    *)
(* back. A chunk in the pool has only objects given back, a thread's own    *)
(* chunk is nobody else's.                                                  *)
PoolExact(inUse) ==
    /\ \A c \in 1..made :
        LET used == {p \in inUse : p[1] = c} IN
        /\ \A p \in used : p[2] >= allocIndex[c]
        /\ freeCount[c] = allocIndex[c] + Cardinality(used)
    /\ \A i, j \in DOMAIN center : center[i] = center[j] => i = j
    /\ \A i \in DOMAIN center : freeCount[center[i]] = 0 /\ \A t \in Threads : tls[t] # center[i]
    /\ \A t, u \in Threads : tls[t] = tls[u] => t = u \/ tls[t] = NoChunk
===============================================================================
