----------------------------- MODULE HashTable ------------------------------
(***************************************************************************)
(* HashTable/HashTable.c: an array of red-black trees, each under a lock.  *)
(* Writers exclude each other, so a call that changes the table is a step. *)
(* A reader that slept in P_r may run beside a writer (RWLock.tla): its    *)
(* answer is then whatever the links it met lead to.                       *)
(*                                                                         *)
(* Which free node GET_PREALLOC takes from the pool does not matter, so a  *)
(* node is named <<k, c>>: the c-th node filled for key k.                 *)
(***************************************************************************)
EXTENDS Integers, SequencesExt, FiniteSetsExt

CONSTANTS
    Keys, Values, NoValue, NIL,
    index_size,         \* number of trees
    hash_func_key,      \* [Keys -> 0 .. index_size - 1]
    hash_func_rbt,      \* [Keys -> Int]
    Uses,               \* what tables hold at first, and the calls made on them:
                        \* [loaded : keys in order, called : keys, values, hows]
    MaxExcess           \* bound on nb_entries over the number of nodes

ASSUME HashFunctions ==
    /\ hash_func_key \in [Keys -> 0 .. index_size - 1]
    /\ \A k \in Keys : hash_func_rbt[k] \in Int
    /\ NoValue \notin Values

VARIABLES
    array_rbt,      \* [trees -> red-black tree]
    pdata,          \* [nodes -> buffval, NoValue for a node that is not in use]
    nb_entries,     \* [trees -> stat_dynamic[i].nb_entries]
    answer,         \* return code and value of the last call
    use             \* the use this table is put to; never changes

vars == <<array_rbt, pdata, nb_entries, answer, use>>

Trees == 0 .. index_size - 1
Nodes == Keys \X {1, 2}
key(n) == n[1]
RBT_VALUE(n) == hash_func_rbt[key(n)]

INSTANCE RBTree WITH value <- RBT_VALUE

Answer(rc, v) == answer' = [rc |-> rc, val |-> v]
TreeOf(k) == array_rbt[hash_func_key[k]]

(* The walk over the nodes of one value, from pn.                          *)
RECURSIVE Walk(_, _)
Walk(k, pn) ==
    IF pn = NIL \/ RBT_VALUE(pn) # hash_func_rbt[k] THEN NIL
    ELSE IF key(pn) = k THEN pn
    ELSE Walk(k, RBT_INCREMENT(TreeOf(k), pn))

(* Mistake: the walk starts at any node of the value, not at the first.    *)
Key_Locate_AnyNode(k) == Walk(k, RBT_FIND(TreeOf(k), hash_func_rbt[k]))

(* NIL for HASHTABLE_ERROR_NO_SUCH_KEY.                                    *)
Key_Locate(k) == Walk(k, RBT_FIND_LEFT(TreeOf(k), hash_func_rbt[k]))

(* HashTable_Test_And_Set, one action per way out of it.                   *)
test_only(k) ==
    /\ "TEST_ONLY" \in use.hows
    /\ IF Key_Locate(k) # NIL THEN Answer("SUCCESS", NoValue) ELSE Answer("NO_SUCH_KEY", NoValue)
    /\ UNCHANGED <<array_rbt, pdata, nb_entries, use>>

set_no_overwrite(k) ==
    /\ "SET_NO_OVERWRITE" \in use.hows
    /\ Key_Locate(k) # NIL
    /\ Answer("KEY_ALREADY_EXISTS", NoValue)
    /\ UNCHANGED <<array_rbt, pdata, nb_entries, use>>

set_overwrite(k, v) ==
    /\ "SET_OVERWRITE" \in use.hows
    /\ Key_Locate(k) # NIL
    /\ nb_entries[hash_func_key[k]] < TreeOf(k).num_node + MaxExcess
    /\ pdata' = [pdata EXCEPT ![Key_Locate(k)] = v]
    /\ nb_entries' = [nb_entries EXCEPT ![hash_func_key[k]] = @ + 1]
    /\ Answer("SUCCESS", NoValue)
    /\ UNCHANGED <<array_rbt, use>>

set_new(k, v) ==
    LET h == hash_func_key[k]
        qn == <<k, IF pdata[<<k, 1>>] = NoValue THEN 1 ELSE 2>>
    IN  /\ use.hows \ {"TEST_ONLY"} # {}
        /\ Key_Locate(k) = NIL
        /\ array_rbt' = [array_rbt EXCEPT ![h] = RBT_INSERT(@, qn, RBT_FIND(@, RBT_VALUE(qn)))]
        /\ pdata' = [pdata EXCEPT ![qn] = v]
        /\ nb_entries' = [nb_entries EXCEPT ![h] = @ + 1]
        /\ Answer("SUCCESS", NoValue)
        /\ UNCHANGED use

set_malloc_error(k) ==
    /\ use.hows \ {"TEST_ONLY"} # {}
    /\ Key_Locate(k) = NIL
    /\ Answer("MALLOC_ERROR", NoValue)
    /\ UNCHANGED <<array_rbt, pdata, nb_entries, use>>

HashTable_Get(k) ==
    /\ IF Key_Locate(k) = NIL THEN Answer("NO_SUCH_KEY", NoValue)
       ELSE Answer("SUCCESS", pdata[Key_Locate(k)])
    /\ UNCHANGED <<array_rbt, pdata, nb_entries, use>>

(* A reader beside a writer of the same tree: it changes nothing, and its  *)
(* answer is not to be relied on.                                          *)
HashTable_Get_raced ==
    /\ Answer("ANYTHING", NoValue)
    /\ UNCHANGED <<array_rbt, pdata, nb_entries, use>>

HashTable_Del_missing(k) ==
    /\ Key_Locate(k) = NIL
    /\ Answer("NO_SUCH_KEY", NoValue)
    /\ UNCHANGED <<array_rbt, pdata, nb_entries, use>>

HashTable_Del(k) ==
    LET h == hash_func_key[k]
        pn == Key_Locate(k)
    IN  /\ pn # NIL
        /\ Answer("SUCCESS", pdata[pn])
        /\ array_rbt' = [array_rbt EXCEPT ![h] = RBT_UNLINK(@, pn)]
        /\ pdata' = [pdata EXCEPT ![pn] = NoValue]
        /\ nb_entries' = [nb_entries EXCEPT ![h] = @ - 1]
        /\ UNCHANGED use

HashTable_GetSize == SumFunction(nb_entries)

(* The tree h of a table that the keys were set in, in their order.        *)
Loaded(keys, h) ==
    FoldLeft(LAMBDA t, k : RBT_INSERT(t, <<k, 1>>, RBT_FIND(t, hash_func_rbt[k])),
             RBT_HEAD_INIT, SelectSeq(keys, LAMBDA k : hash_func_key[k] = h))

Init ==
    /\ use \in Uses
    /\ array_rbt = [h \in Trees |-> Loaded(use.loaded, h)]
    /\ \E v \in use.values :
          pdata = [n \in Nodes |-> IF n \in ToSet(use.loaded) \X {1} THEN v ELSE NoValue]
    /\ nb_entries = [h \in Trees |-> array_rbt[h].num_node]
    /\ answer = [rc |-> "SUCCESS", val |-> NoValue]

Next ==
    \/ \E k \in use.called : test_only(k)
    \/ \E k \in use.called : set_no_overwrite(k)
    \/ \E k \in use.called, v \in use.values : set_overwrite(k, v)
    \/ \E k \in use.called, v \in use.values : set_new(k, v)
    \/ \E k \in use.called : set_malloc_error(k)
    \/ \E k \in use.called : HashTable_Get(k)
    \/ HashTable_Get_raced
    \/ \E k \in use.called : HashTable_Del_missing(k)
    \/ \E k \in use.called : HashTable_Del(k)

Spec == Init /\ [][Next]_vars

-----------------------------------------------------------------------------
(* Whatever calls are made, every tree stays what RBT_VERIFY tests: its    *)
(* nodes are in order along RBT_INCREMENT, the links, leftmost, rightmost  *)
(* and the count agree, no red node has a red child and all ways down have *)
(* as many black nodes.  They are the nodes in use, one for a key, in the  *)
(* key's tree.                                                             *)
TreesSound ==
    \A h \in Trees :
        LET nodes == ToSet(NodesInOrder(array_rbt[h], root(array_rbt[h])))
        IN  /\ Sound(array_rbt[h])
            /\ nodes = {n \in Nodes : pdata[n] # NoValue /\ hash_func_key[key(n)] = h}
            /\ \A m, n \in nodes : key(m) = key(n) => m = n

(* HashTable_GetSize returns "the number of found entries"                 *)
(* (HashTable.c), which cache_inode_gc compares with its water marks.      *)
SizeExact == HashTable_GetSize = Cardinality({n \in Nodes : pdata[n] # NoValue})

(* The map the nodes hold; should a key have two, the first filled.        *)
Map == [k \in Keys |-> IF pdata[<<k, 1>>] # NoValue THEN pdata[<<k, 1>>] ELSE pdata[<<k, 2>>]]

Abstract == INSTANCE Dictionary WITH map <- Map, answer <- answer

(* Every call, whatever keys share a tree or a node's value and however    *)
(* the trees were rotated, does to the map and answers what a dictionary   *)
(* does; a reader beside a writer may answer anything and changes nothing. *)
ImplementsDictionary == Abstract!Spec
=============================================================================
