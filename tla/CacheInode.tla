------------------------------ MODULE CacheInode ------------------------------
(***************************************************************************)
(* The metadata cache (Cache_inode): the cache entries, the hash table     *)
(* that finds them by file handle, the directory entries cached in chains  *)
(* of arrays (one DIR_BEGINNING, then DIR_CONTINUEs) and the back pointers *)
(* from an object to the array slots that name it.  A call of one worker   *)
(* is one step: the module is about what sequences of calls do to these    *)
(* structures, not about two workers inside them at once.                  *)
(*                                                                         *)
(* The file system behind the FSAL is the variable fs.  It changes only    *)
(* through the cache, permissions are granted and memory is never short,   *)
(* so the stale-handle paths are never taken.                              *)
(***************************************************************************)
EXTENDS Integers, FiniteSets, SequencesExt

CONSTANTS
    Root, Subdirs, Files,   \* the objects of the file system
    Names,                  \* names in a directory
    PoolSize,               \* cache entries in the worker's pool
    MaxParents(_),          \* bound: back pointers of one object, by server
    InitialTrees,           \* the file systems a server may be started on
    Servers,                \* builds, configurations, and the calls clients make
    None

VARIABLES
    fs,        \* fs[d][n]: the object called n in directory d, or None
    cache,     \* the cache: its entries, its hash table, its pool
    server     \* the build and configuration of this server; never changes

vars == <<fs, cache, server>>

Entries == 1 .. PoolSize
Dirs == {Root} \cup Subdirs
Objects == Dirs \cup Files

(* The directory entries in one array, fixed when the server is built. *)
CHILDREN_ARRAY_SIZE == server.array_size

Positions == 0 .. CHILDREN_ARRAY_SIZE - 1
Keys == Objects \X (0 .. Cardinality(Names))

-----------------------------------------------------------------------------
(* What the cache asks of the FSAL. *)

FSAL_numlinks(tree, o) == Cardinality({dn \in Dirs \X Names : tree[dn[1]][dn[2]] = o})

FSAL_parent(tree, o) == CHOOSE d \in Dirs : \E n \in Names : tree[d][n] = o

Linked(tree) == ({tree[d][n] : d \in Dirs, n \in Names} \ {None}) \cup {Root}

IsEmpty(tree, d) == \A n \in Names : tree[d][n] = None

(* Directory d is top, or below it. *)
RECURSIVE Below(_, _, _)
Below(tree, d, top) == d = top \/ (d # Root /\ Below(tree, FSAL_parent(tree, d), top))

FSAL_unlink_fails(tree, d, n) == tree[d][n] \in Dirs /\ ~IsEmpty(tree, tree[d][n])

FSAL_rename_fails(tree, src, n, dest) == tree[src][n] \in Dirs /\ Below(tree, dest, tree[src][n])

-----------------------------------------------------------------------------
(* Entries.  An array slot that is not active has no name and no object:   *)
(* nothing reads them.  A released entry keeps its type and its            *)
(* DIR_BEGINNING, which a stale back pointer may still be followed to.     *)

NoDirent == [active |-> FALSE, name |-> None, pentry |-> None]

EmptyArray == [i \in Positions |-> NoDirent]

NewEntry(o, type, begin, pos, links) ==
    [type |-> type, object |-> o, valid |-> TRUE, numlinks |-> links,
     parent_list |-> <<>>, dir_entries |-> EmptyArray, nbactive |-> 0,
     end_of_dir |-> TRUE, pdir_cont |-> None, has_been_readdir |-> FALSE,
     pdir_begin |-> begin, dir_cont_pos |-> pos]

Released(r) ==
    [NewEntry(None, r.type, r.pdir_begin, 0, 0) EXCEPT !.valid = FALSE]

Blank == Released(NewEntry(None, "FILE", None, 0, 0))

(* cache_inode_new_entry: the entry of this key, cached now if it was not. *)
cache_inode_new_entry(c, key, type, begin, links) ==
    IF c.ht[key] # None THEN [c |-> c, pentry |-> c.ht[key]]
    ELSE LET e == Head(c.pool) IN
         [c |-> [ent  |-> [c.ent EXCEPT ![e] = NewEntry(key[1], type, begin, key[2], links)],
                 ht   |-> [c.ht EXCEPT ![key] = e],
                 pool |-> Tail(c.pool)],
          pentry |-> e]

TypeOf(o) == IF o \in Dirs THEN "DIR_BEGINNING" ELSE "FILE"

(* An entry for an object just met: its attributes come with it. *)
Cached(c, tree, o) ==
    cache_inode_new_entry(c, <<o, 0>>, TypeOf(o), None, FSAL_numlinks(tree, o))

cache_inode_valid(c, e) ==
    LET main == IF c.ent[e].type = "DIR_CONTINUE" THEN c.ent[e].pdir_begin ELSE e
    IN  [c EXCEPT !.ent[main].valid = TRUE]

cache_inode_get(c, tree, o) ==
    LET new == Cached(c, tree, o)
    IN  [new EXCEPT !.c = cache_inode_valid(@, new.pentry)]

(* Give an entry back: out of the hash table, into the pool. *)
Release(c, e) ==
    [ent  |-> [c.ent EXCEPT ![e] = Released(@)],
     ht   |-> [k \in Keys |-> IF k = <<c.ent[e].object, c.ent[e].dir_cont_pos>>
                              THEN None ELSE c.ht[k]],
     pool |-> <<e>> \o c.pool]

-----------------------------------------------------------------------------
(* Directory chains. *)

(* The arrays in use, from entry e to the end of the directory. *)
RECURSIVE Chain(_, _)
Chain(c, e) ==
    IF c.ent[e].end_of_dir THEN <<e>> ELSE <<e>> \o Chain(c, c.ent[e].pdir_cont)

(* All the arrays the directory owns, those past its end included. *)
RECURSIVE WholeChain(_, _)
WholeChain(c, e) == IF e = None THEN <<>> ELSE <<e>> \o WholeChain(c, c.ent[e].pdir_cont)

Least(S) == CHOOSE i \in S : \A j \in S : i <= j

(* The first slot of the chain from dir that holds name, or None. *)
Find(c, dir, name, alsoValid) ==
    LET chain == Chain(c, dir)
        holds(k, i) == LET d == c.ent[chain[k]].dir_entries[i]
                       IN  /\ d.active /\ d.name = name
                           /\ alsoValid => c.ent[d.pentry].valid
        arrays == {k \in DOMAIN chain : \E i \in Positions : holds(k, i)}
    IN  IF arrays = {} THEN None
        ELSE LET k == Least(arrays)
             IN  [parent |-> chain[k], subdirpos |-> Least({i \in Positions : holds(k, i)})]

At(c, slot) == c.ent[slot.parent].dir_entries[slot.subdirpos]

(* The array may take one more: the count says so, and a slot is free. *)
Room(c, e) ==
    /\ c.ent[e].nbactive # CHILDREN_ARRAY_SIZE
    /\ \E i \in Positions : ~c.ent[e].dir_entries[i].active

(* The chain with one more array at its end, an old one if there is one. *)
Extended(c, last) ==
    LET r     == c.ent[last]
        begin == IF r.type = "DIR_BEGINNING" THEN last ELSE r.pdir_begin
        new   == IF r.pdir_cont # None THEN [c |-> c, pentry |-> r.pdir_cont]
                 ELSE cache_inode_new_entry(c, <<r.object, r.dir_cont_pos + 1>>,
                                            "DIR_CONTINUE", begin, 0)
    IN  [new EXCEPT !.c.ent[last].pdir_cont = new.pentry,
                    !.c.ent[last].end_of_dir = FALSE]

(* Mistake: the newest back pointer goes last, not first. *)
cache_inode_add_cached_dirent_Last(c, dir, name, added) ==
    LET chain == Chain(c, dir)
        room  == {k \in DOMAIN chain : Room(c, chain[k])}
        place == IF room # {} THEN [c |-> c, pentry |-> chain[Least(room)]]
                 ELSE Extended(c, Last(chain))
        p     == place.pentry
        i     == IF room # {} THEN Least({j \in Positions : ~c.ent[p].dir_entries[j].active})
                 ELSE 0
    IN  [place.c EXCEPT
            !.ent[p].nbactive = @ + 1,
            !.ent[p].dir_entries[i] = [active |-> TRUE, name |-> name, pentry |-> added],
            !.ent[added].parent_list = Append(@, [parent |-> p, subdirpos |-> i])]

cache_inode_add_cached_dirent(c, dir, name, added) ==
    LET chain == Chain(c, dir)
        room  == {k \in DOMAIN chain : Room(c, chain[k])}
        place == IF room # {} THEN [c |-> c, pentry |-> chain[Least(room)]]
                 ELSE Extended(c, Last(chain))
        p     == place.pentry
        i     == IF room # {} THEN Least({j \in Positions : ~c.ent[p].dir_entries[j].active})
                 ELSE 0
    IN  [place.c EXCEPT
            !.ent[p].nbactive = @ + 1,
            !.ent[p].dir_entries[i] = [active |-> TRUE, name |-> name, pentry |-> added],
            !.ent[added].parent_list = <<[parent |-> p, subdirpos |-> i]>> \o @]

(* The first back pointer of r into directory dir: its place, 0 if none. *)
BackPointer(c, r, dir) ==
    SelectInSeq(r.parent_list,
                LAMBDA p : \/ p.parent = dir
                           \/ /\ c.ent[p.parent].type = "DIR_CONTINUE"
                              /\ c.ent[p.parent].pdir_begin = dir)

(* Mistake: the slot is freed and the count of the array is left alone. *)
Vacate_Uncounted(c, slot) ==
    [c EXCEPT !.ent[slot.parent].dir_entries[slot.subdirpos] = NoDirent]

Vacate(c, slot) ==
    [c EXCEPT !.ent[slot.parent].dir_entries[slot.subdirpos] = NoDirent,
              !.ent[slot.parent].nbactive = @ - 1]

(* Mistake: the back pointer of the removed name stays. *)
cache_inode_remove_cached_dirent_Kept(c, dir, name) ==
    LET slot == Find(c, dir, name, TRUE) IN
    IF slot = None THEN [c |-> c, status |-> "NOT_FOUND"]
    ELSE [c |-> Vacate(c, slot), status |-> "SUCCESS"]

cache_inode_remove_cached_dirent(c, dir, name) ==
    LET slot == Find(c, dir, name, TRUE) IN
    IF slot = None THEN [c |-> c, status |-> "NOT_FOUND"]
    ELSE LET e == At(c, slot).pentry
             k == BackPointer(c, c.ent[e], dir)
             v == Vacate(c, slot)
         IN  IF k = 0 THEN [c |-> v, status |-> "INCONSISTENT"]
             ELSE [c |-> [v EXCEPT !.ent[e].parent_list = RemoveAt(@, k)],
                   status |-> "SUCCESS"]

cache_inode_rename_cached_dirent(c, dir, oldname, newname) ==
    LET slot == Find(c, dir, oldname, TRUE) IN
    IF slot = None THEN [c |-> c, status |-> "NOT_FOUND"]
    ELSE [c |-> [c EXCEPT !.ent[slot.parent].dir_entries[slot.subdirpos].name = newname],
          status |-> "SUCCESS"]

cache_inode_is_dir_empty(c, e) ==
    \A k \in DOMAIN Chain(c, e) : c.ent[Chain(c, e)[k]].nbactive = 0

(* The back pointers of the children stay as they are. *)
cache_inode_invalidate_all_cached_dirent(c, dir) ==
    LET owned == ToSet(WholeChain(c, dir))
    IN  [c EXCEPT !.ent = [e \in DOMAIN c.ent |->
            IF e \notin owned THEN c.ent[e]
            ELSE [c.ent[e] EXCEPT !.dir_entries = EmptyArray, !.nbactive = 0,
                                  !.has_been_readdir = FALSE,
                                  !.end_of_dir = @ \/ e = dir]]]

-----------------------------------------------------------------------------
(* Calls.  Each takes the cache and the file system and returns them with  *)
(* the entry found or whether it did its work.                             *)

cache_inode_lookup(c, tree, dir, name) ==
    LET slot == Find(c, dir, name, FALSE)
        o    == tree[c.ent[dir].object][name]
    IN  IF slot # None THEN [c |-> cache_inode_valid(c, dir), pentry |-> At(c, slot).pentry]
        ELSE IF o = None THEN [c |-> c, pentry |-> None]
        ELSE LET new == Cached(c, tree, o)
             IN  [c |-> cache_inode_valid(
                            cache_inode_add_cached_dirent(new.c, dir, name, new.pentry), dir),
                  pentry |-> new.pentry]

(* The parent of a directory: where its first back pointer leads. *)
cache_inode_lookupp(c, tree, e) ==
    IF c.ent[e].parent_list # <<>>
    THEN LET p == Head(c.ent[e].parent_list).parent
         IN  [c |-> cache_inode_valid(c, p), pentry |-> p]
    ELSE cache_inode_get(c, tree, IF c.ent[e].object = Root THEN Root
                                  ELSE FSAL_parent(tree, c.ent[e].object))

(* Attributes, or the listing of a directory, are too old to be served. *)
cache_inode_renew_entry(c, tree, e, expired) ==
    IF ~expired THEN c
    ELSE IF c.ent[e].type = "DIR_BEGINNING" THEN [c EXCEPT !.ent[e].has_been_readdir = FALSE]
    ELSE [c EXCEPT !.ent[e].numlinks = FSAL_numlinks(tree, c.ent[e].object)]

cache_inode_create(c, tree, dir, name, o) ==
    LET found == cache_inode_lookup(c, tree, dir, name) IN
    IF found.pentry # None THEN [c |-> found.c, fs |-> tree]
    ELSE LET t   == [tree EXCEPT ![c.ent[dir].object][name] = o]
             new == Cached(found.c, t, o)
         IN  [c |-> cache_inode_valid(
                        cache_inode_add_cached_dirent(new.c, dir, name, new.pentry), dir),
              fs |-> t]

cache_inode_link(c, tree, src, dir, name) ==
    LET found == cache_inode_lookup(c, tree, dir, name) IN
    IF found.pentry # None THEN [c |-> found.c, fs |-> tree]
    ELSE LET o == c.ent[src].object
             t == [tree EXCEPT ![c.ent[dir].object][name] = o]
             n == [found.c EXCEPT !.ent[src].numlinks = FSAL_numlinks(t, o)]
         IN  [c |-> cache_inode_valid(cache_inode_add_cached_dirent(n, dir, name, src), src),
              fs |-> t]

(* Mistake: the DIR_CONTINUEs of a removed directory are forgotten. *)
cache_inode_clean_internal_Begin(c, e) == Release(c, e)

(* cache_inode_clean_internal, over the whole chain; the entry goes last. *)
cache_inode_clean_internal(c, e) ==
    Release(FoldLeft(Release, c, Tail(WholeChain(c, e))), e)

(* Mistake: a file is forgotten with the first of its names. *)
unlink_entry_Always(c, e) == cache_inode_clean_internal(c, e)

(* One name of e is gone: one link less, or the end of the entry. *)
unlink_entry(c, e) ==
    IF c.ent[e].type = "FILE" /\ c.ent[e].numlinks > 1
    THEN [c EXCEPT !.ent[e].numlinks = @ - 1]
    ELSE cache_inode_clean_internal(c, e)

(* Entry e is what dir has under this name. *)
remove_found(c, tree, dir, name, e) ==
    LET d == c.ent[dir].object
        r == cache_inode_remove_cached_dirent(c, dir, name)
    IN  IF \/ e = None
           \/ /\ c.ent[e].type = "DIR_BEGINNING"
              /\ c.ent[e].has_been_readdir
              /\ ~cache_inode_is_dir_empty(c, e)
           \/ FSAL_unlink_fails(tree, d, name)
        THEN [c |-> c, fs |-> tree, status |-> "FAILED"]
        ELSE [c |-> cache_inode_valid(unlink_entry(r.c, e), dir),
              fs |-> [tree EXCEPT ![d][name] = None], status |-> r.status]

cache_inode_remove(c, tree, dir, name) ==
    LET found == cache_inode_lookup(c, tree, dir, name)
    IN  remove_found(found.c, tree, dir, name, found.pentry)

(* Get rid of the object that has the new name, if that is allowed. *)
displace(c, tree, src, dest, dirdest, name) ==
    IF \/ (c.ent[dest].type = "DIR_BEGINNING") # (c.ent[src].type = "DIR_BEGINNING")
       \/ /\ c.ent[dest].type = "DIR_BEGINNING"
          /\ ~cache_inode_is_dir_empty(c, dest)
    THEN [c |-> c, fs |-> tree, status |-> "FAILED"]
    ELSE cache_inode_remove(c, tree, dirdest, name)

(* The name of entry e moves in the cache. *)
move_dirent(c, dirsrc, oldname, dirdest, newname, e) ==
    IF dirsrc = dirdest THEN cache_inode_rename_cached_dirent(c, dirdest, oldname, newname)
    ELSE cache_inode_remove_cached_dirent(cache_inode_add_cached_dirent(c, dirdest, newname, e),
                                          dirsrc, oldname)

Validated(r, dirsrc, dirdest) ==
    IF r.status # "SUCCESS" THEN r.c
    ELSE cache_inode_valid(cache_inode_valid(r.c, dirsrc), dirdest)

(* The new name is free, unless free, what displace returned, failed. *)
rename_freed(free, dirsrc, oldname, dirdest, newname, e) ==
    LET d == free.c.ent[dirsrc].object
        g == free.c.ent[dirdest].object
    IN  IF free.status # "SUCCESS" \/ FSAL_rename_fails(free.fs, d, oldname, g)
        THEN [c |-> free.c, fs |-> free.fs]
        ELSE [c |-> Validated(move_dirent(free.c, dirsrc, oldname, dirdest, newname, e),
                              dirsrc, dirdest),
              fs |-> [free.fs EXCEPT ![d][oldname] = None,
                                     ![g][newname] = free.fs[d][oldname]]]

rename_found(c, tree, dirsrc, oldname, dirdest, newname, src, dest) ==
    IF dest = src THEN [c |-> cache_inode_valid(c, dirdest), fs |-> tree]
    ELSE rename_freed(IF dest = None THEN [c |-> c, fs |-> tree, status |-> "SUCCESS"]
                      ELSE displace(c, tree, src, dest, dirdest, newname),
                      dirsrc, oldname, dirdest, newname, src)

cache_inode_rename(c, tree, dirsrc, oldname, dirdest, newname) ==
    LET src  == cache_inode_lookup(c, tree, dirsrc, oldname)
        dest == cache_inode_lookup(src.c, tree, dirdest, newname)
    IN  IF src.pentry = None THEN [c |-> src.c, fs |-> tree]
        ELSE rename_found(dest.c, tree, dirsrc, oldname, dirdest, newname, src.pentry, dest.pentry)

(* Mistake: what the array held before is kept. *)
cache_inode_readdir_populate_Again(c, tree, dir, order, ok) ==
    LET read(d, name) ==
            LET new == Cached(d, tree, tree[c.ent[dir].object][name])
            IN  cache_inode_add_cached_dirent(new.c, dir, name, new.pentry)
    IN  [FoldLeft(read, c, order) EXCEPT !.ent[dir].has_been_readdir = ok]

(* Read the directory from the FSAL, which lists its names in this order,  *)
(* or some of them before it fails: they stay in the cache.                *)
cache_inode_readdir_populate(c, tree, dir, order, ok) ==
    LET read(d, name) ==
            LET new == Cached(d, tree, tree[c.ent[dir].object][name])
            IN  cache_inode_add_cached_dirent(new.c, dir, name, new.pentry)
    IN  [FoldLeft(read, cache_inode_invalidate_all_cached_dirent(c, dir), order)
            EXCEPT !.ent[dir].has_been_readdir = ok]

(* What one READDIR of a cached listing returns: the names found from this *)
(* cookie on, at most nbwanted of them, and where the next one starts.     *)
RECURSIVE ReadFrom(_, _, _, _, _)
ReadFrom(c, chain, cookie, nbwanted, found) ==
    LET k == (cookie \div CHILDREN_ARRAY_SIZE) + 1
        d == c.ent[chain[k]].dir_entries[cookie % CHILDREN_ARRAY_SIZE]
        names == IF d.active THEN Append(found, d.name) ELSE found
    IN  IF nbwanted = 0 THEN [names |-> found, end_cookie |-> cookie, eod_met |-> FALSE]
        ELSE IF (cookie + 1) % CHILDREN_ARRAY_SIZE = 0 /\ k = Len(chain)
        THEN [names |-> names, end_cookie |-> cookie + 1, eod_met |-> TRUE]
        ELSE ReadFrom(c, chain, cookie + 1, IF d.active THEN nbwanted - 1 ELSE nbwanted, names)

(* A cookie past the last array answers "end of directory". *)
cache_inode_readdir(c, dir, cookie, nbwanted) ==
    LET chain == Chain(c, dir) IN
    IF nbwanted = 0 THEN [names |-> <<>>, end_cookie |-> cookie, eod_met |-> FALSE]
    ELSE IF cookie >= Len(chain) * CHILDREN_ARRAY_SIZE
    THEN [names |-> <<>>, end_cookie |-> cookie, eod_met |-> TRUE]
    ELSE ReadFrom(c, chain, cookie, nbwanted, <<>>)

-----------------------------------------------------------------------------
(* Garbage collection. *)

(* Free the slots the back pointers of e name.  It stops, and fails, at a  *)
(* back pointer to something that is no directory.                         *)
cache_inode_gc_invalidate_related_dirent(c, e) ==
    LET list == c.ent[e].parent_list
        bad  == SelectInSeq(list, LAMBDA p : c.ent[p.parent].type = "FILE")
        free(d, p) ==
            LET v == Vacate(d, p)
            IN  IF d.ent[p.parent].type = "DIR_BEGINNING"
                THEN [v EXCEPT !.ent[p.parent].has_been_readdir = FALSE] ELSE v
    IN  [c |-> FoldLeft(free, c, IF bad = 0 THEN list ELSE SubSeq(list, 1, bad - 1)),
         ok |-> bad = 0]

cache_inode_gc_clean_entry(c, e) ==
    IF c.ht[<<c.ent[e].object, c.ent[e].dir_cont_pos>>] = None THEN c ELSE Release(c, e)

cache_inode_gc_suppress_file(c, e) ==
    LET r == cache_inode_gc_invalidate_related_dirent([c EXCEPT !.ent[e].valid = FALSE], e)
    IN  IF r.ok THEN cache_inode_gc_clean_entry(r.c, e) ELSE r.c

(* Mistake: a directory is collected with its entries still cached. *)
cache_inode_gc_suppress_directory_Full(c, e) ==
    LET i == [c EXCEPT !.ent[e].valid = FALSE]
        r == cache_inode_gc_invalidate_related_dirent(i, e)
    IN  IF ~r.ok THEN r.c
        ELSE cache_inode_gc_clean_entry(
                 FoldLeft(cache_inode_gc_clean_entry, r.c, Tail(WholeChain(c, e))), e)

(* A directory that is not empty stays, but is left marked invalid. *)
cache_inode_gc_suppress_directory(c, e) ==
    LET i == [c EXCEPT !.ent[e].valid = FALSE]
        r == cache_inode_gc_invalidate_related_dirent(i, e)
    IN  IF ~cache_inode_is_dir_empty(i, e) THEN i
        ELSE IF ~r.ok THEN r.c
        ELSE cache_inode_gc_clean_entry(
                 FoldLeft(cache_inode_gc_clean_entry, r.c, Tail(WholeChain(c, e))), e)

-----------------------------------------------------------------------------
(* The steps: one call of a client, by the handles of the objects it is    *)
(* about, or one entry collected.  GETATTRs may make any entry the one     *)
(* used least recently, so any entry may be the next to be collected.      *)

(* A server: what it collects, and its clients: the objects and names they *)
(* have, and whether they list, have hard links, rename, use LOOKUPP.      *)
ServerTypes == [array_size : {1, 2}, gc : {"none", "files", "all"},
                objects : SUBSET Objects, names : SUBSET Names,
                readdir : BOOLEAN, link : BOOLEAN, rename : BOOLEAN, lookupp : BOOLEAN]

(* The address of an entry means nothing to the code, so after each call   *)
(* the entries are numbered anew: those in the hash table by their keys,   *)
(* then the pool.  The content of a pooled entry is kept while a stale     *)
(* back pointer leads there; it is overwritten before anything else reads. *)
KeyOrder ==
    LET objects == SetToSeq(Objects)
        width   == Cardinality(Names) + 1
    IN  [i \in 1 .. Cardinality(Keys) |-> <<objects[((i - 1) \div width) + 1], (i - 1) % width>>]

Renumbered(c) ==
    LET used  == SelectSeq([i \in DOMAIN KeyOrder |-> c.ht[KeyOrder[i]]], LAMBDA e : e # None)
        order == used \o c.pool \o SetToSeq(Entries \ (ToSet(used) \cup ToSet(c.pool)))
        new   == [e \in Entries |-> CHOOSE i \in Entries : order[i] = e]
        P(e)  == IF e = None THEN None ELSE new[e]
        stale == {p.parent : p \in UNION {ToSet(c.ent[e].parent_list) : e \in Entries}}
        blank == ToSet(c.pool) \ stale
        Moved(r) ==
            [r EXCEPT !.pdir_cont = P(@), !.pdir_begin = P(@),
                      !.dir_entries = [i \in Positions |-> [@[i] EXCEPT !.pentry = P(@)]],
                      !.parent_list = [i \in DOMAIN @ |-> [@[i] EXCEPT !.parent = P(@)]]]
    IN  [ent  |-> [i \in Entries |-> IF order[i] \in blank THEN Blank
                                     ELSE Moved(c.ent[order[i]])],
         ht   |-> [k \in Keys |-> P(c.ht[k])],
         pool |-> [i \in DOMAIN c.pool |-> P(c.pool[i])]]

Bounded(c) == \A e \in Entries : Len(c.ent[e].parent_list) <= MaxParents(server)

Result(r) ==
    /\ Bounded(r.c)
    /\ cache' = (IF r.c = cache THEN cache ELSE Renumbered(r.c))
    /\ fs' = r.fs
    /\ UNCHANGED server

LiveDirs == Dirs \cap Linked(fs)

Lookup(d, n) ==
    LET g == cache_inode_get(cache, fs, d)
    IN  Result([c |-> cache_inode_lookup(g.c, fs, g.pentry, n).c, fs |-> fs])

(* NFSv4: LOOKUPP and LOOKUP in one COMPOUND, the second in the entry the  *)
(* first one returned.                                                     *)
LookupThroughParent(d, n, expired) ==
    LET g == cache_inode_get(cache, fs, d)
        p == cache_inode_lookupp(cache_inode_renew_entry(g.c, fs, g.pentry, expired),
                                 fs, g.pentry)
    IN  /\ server.lookupp
        /\ Result([c |-> cache_inode_lookup(p.c, fs, p.pentry, n).c, fs |-> fs])

Getattr(o, expired) ==
    LET g == cache_inode_get(cache, fs, o)
    IN  Result([c |-> cache_inode_valid(cache_inode_renew_entry(g.c, fs, g.pentry, expired),
                                        g.pentry), fs |-> fs])

Readdir(d, expired, order, ok) ==
    LET g == cache_inode_get(cache, fs, d)
        r == cache_inode_renew_entry(g.c, fs, g.pentry, expired)
    IN  /\ server.readdir
        /\ Result([c |-> IF r.ent[g.pentry].has_been_readdir THEN r
                         ELSE cache_inode_readdir_populate(r, fs, g.pentry, order, ok),
                   fs |-> fs])

(* The FSAL gives a new object a handle no object had before: here, one    *)
(* that neither the file system nor the cache knows.                       *)
Create(d, n, o) ==
    LET g == cache_inode_get(cache, fs, d)
    IN  /\ cache.ht[<<o, 0>>] = None
        /\ o \in server.objects \ Linked(fs)
        /\ Result(cache_inode_create(g.c, fs, g.pentry, n, o))

Link(f, d, n) ==
    LET s == cache_inode_get(cache, fs, f)
        g == cache_inode_get(s.c, fs, d)
    IN  /\ server.link
        /\ Result(cache_inode_link(g.c, fs, s.pentry, g.pentry, n))

RemoveName(d, n) ==
    LET g == cache_inode_get(cache, fs, d)
    IN  Result(cache_inode_remove(g.c, fs, g.pentry, n))

Rename(src, oldname, dest, newname) ==
    LET s == cache_inode_get(cache, fs, src)
        g == cache_inode_get(s.c, fs, dest)
    IN  /\ server.rename
        /\ Result(cache_inode_rename(g.c, fs, s.pentry, oldname, g.pentry, newname))

CollectFile(f) ==
    /\ server.gc \in {"files", "all"}
    /\ cache.ht[<<f, 0>>] # None
    /\ Result([c |-> cache_inode_gc_suppress_file(cache, cache.ht[<<f, 0>>]), fs |-> fs])

CollectDirectory(d) ==
    /\ server.gc = "all"
    /\ cache.ht[<<d, 0>>] # None
    /\ Result([c |-> cache_inode_gc_suppress_directory(cache, cache.ht[<<d, 0>>]), fs |-> fs])

Init ==
    /\ server \in Servers
    /\ fs \in InitialTrees
    /\ cache = [ent  |-> [e \in Entries |-> Blank],
                ht   |-> [k \in Keys |-> None],
                pool |-> [e \in Entries |-> e]]
    /\ Linked(fs) \subseteq server.objects \cup {Root}
    /\ server.link \/ \A f \in Files : FSAL_numlinks(fs, f) <= 1

NamesIn(d) == {n \in Names : fs[d][n] # None}

Next ==
    \/ \E d \in LiveDirs, n \in server.names : Lookup(d, n) \/ RemoveName(d, n)
    \/ \E d \in LiveDirs, n \in server.names, x \in BOOLEAN : LookupThroughParent(d, n, x)
    \/ \E o \in Linked(fs), x \in BOOLEAN : Getattr(o, x)
    \/ \E d \in LiveDirs, x \in BOOLEAN : \E S \in SUBSET NamesIn(d) :
         \E order \in SetToSeqs(S), ok \in {FALSE, S = NamesIn(d)} : Readdir(d, x, order, ok)
    \/ \E d \in LiveDirs, n \in server.names, o \in Objects : Create(d, n, o)
    \/ \E f \in Files \cap Linked(fs), d \in LiveDirs, n \in server.names : Link(f, d, n)
    \/ \E s, d \in LiveDirs, n, m \in server.names : Rename(s, n, d, m)
    \/ \E f \in Files : CollectFile(f)
    \/ \E d \in Dirs : CollectDirectory(d)

Spec == Init /\ [][Next]_vars

-----------------------------------------------------------------------------
(* Properties. *)

CachedDirs == {d \in Dirs : cache.ht[<<d, 0>>] # None}

Arrays(d) == ToSet(Chain(cache, cache.ht[<<d, 0>>]))

(* The active slots of the arrays of directory d, as back pointers. *)
ActiveIn(d) == {s \in [parent : Arrays(d), subdirpos : Positions] : At(cache, s).active}

(* TypeOK: the cache is made of entries, keys and a pool.  The count of an *)
(* array never leaves its range, though the code subtracts from an         *)
(* unsigned without a test.                                                *)
TypeOK ==
    /\ fs \in [Dirs -> [Names -> Objects \cup {None}]]
    /\ cache.ht \in [Keys -> Entries \cup {None}]
    /\ \A e \in Entries : cache.ent[e].nbactive \in 0 .. CHILDREN_ARRAY_SIZE
    /\ server \in ServerTypes

(* EntriesAccounted: every entry is either once in the pool or under       *)
(* exactly one key of the hash table, that of its own object, and an array *)
(* is in the chain of its cached directory: none is leaked or left behind  *)
(* by cache_inode_remove or the collector, none released twice.            *)
EntriesAccounted ==
    /\ Cardinality(ToSet(cache.pool)) = Len(cache.pool)
    /\ \A e \in Entries :
          LET keys == {k \in Keys : cache.ht[k] = e}
          IN  IF e \in ToSet(cache.pool) THEN keys = {}
              ELSE LET o == cache.ent[e].object
                   IN  /\ keys = {<<o, cache.ent[e].dir_cont_pos>>}
                       /\ e \in ToSet(WholeChain(cache, cache.ht[<<o, 0>>]))

(* DirentsTrue: a cached directory entry names the object the file system  *)
(* has under that name, through the entry the hash table knows, and no     *)
(* name is cached twice.  So LOOKUP from the cache answers what the FSAL   *)
(* would, and never through a released entry.  It needs clients that do    *)
(* not go through LOOKUPP into a directory longer than one array:          *)
(* cache_inode_lookupp returns the array with the back pointer, maybe a    *)
(* DIR_CONTINUE, and a LOOKUP in that misses the arrays before it.         *)
DirentsTrue ==
    \A d \in CachedDirs :
        /\ \A s \in ActiveIn(d) :
              /\ fs[d][At(cache, s).name] # None
              /\ cache.ht[<<fs[d][At(cache, s).name], 0>>] = At(cache, s).pentry
        /\ \A s, t \in ActiveIn(d) : At(cache, s).name = At(cache, t).name => s = t

(* The names a client gets that reads d to its end, nbwanted at a time. *)
RECURSIVE Listing(_, _, _)
Listing(e, cookie, nbwanted) ==
    LET r == cache_inode_readdir(cache, e, cookie, nbwanted)
    IN  IF r.eod_met THEN r.names ELSE r.names \o Listing(e, r.end_cookie, nbwanted)

(* ListingExact: once a directory counts as read (has_been_readdir),       *)
(* cache_inode_readdir gives every name in it once and no other, whatever  *)
(* number of names the client asks for at a time, after any creates,       *)
(* removes and renames since it was read, under the same condition.        *)
ListingExact ==
    \A d \in CachedDirs : cache.ent[cache.ht[<<d, 0>>]].has_been_readdir =>
        \A nbwanted \in 1 .. Cardinality(Names) :
            LET names == Listing(cache.ht[<<d, 0>>], 0, nbwanted)
            IN  ToSet(names) = NamesIn(d) /\ Len(names) = Cardinality(NamesIn(d))

(* CountsExact: the counts the code decides by are right.  nbactive, which *)
(* tells whether a directory is empty and an array full, is the number of  *)
(* active slots, and an array past the end of its directory has none.      *)
(* numlinks, which tells cache_inode_remove whether to release the entry   *)
(* of a file, is the file system's.                                        *)
CountsExact ==
    /\ \A d \in CachedDirs : \A e \in ToSet(WholeChain(cache, cache.ht[<<d, 0>>])) :
          LET active == {i \in Positions : cache.ent[e].dir_entries[i].active}
          IN  /\ cache.ent[e].nbactive = Cardinality(active)
              /\ e \notin Arrays(d) => active = {}
    /\ \A f \in Files : cache.ht[<<f, 0>>] # None =>
          cache.ent[cache.ht[<<f, 0>>]].numlinks = FSAL_numlinks(fs, f)

(* ParentTrue: the first back pointer of a directory leads to its parent   *)
(* directory: what cache_inode_lookupp returns for ".." without asking.    *)
ParentTrue ==
    \A d \in CachedDirs : LET list == cache.ent[cache.ht[<<d, 0>>]].parent_list
        IN  list # <<>> => cache.ent[Head(list).parent].object = FSAL_parent(fs, d)

(* BackPointersExact: while no file has two names, every active slot that  *)
(* names an object is among its back pointers, where the collector looks   *)
(* for it, also after listings have expired and left stale ones behind.    *)
(* While no directory is listed, there are no other back pointers: the     *)
(* collector frees no other slot, and none leads to a released directory.  *)
BackPointersExact ==
    ~server.link => \A o \in Objects : cache.ht[<<o, 0>>] # None =>
        LET e == cache.ht[<<o, 0>>]
            list == cache.ent[e].parent_list
            named == {s \in UNION {ActiveIn(d) : d \in CachedDirs} : At(cache, s).pentry = e}
        IN  /\ named \subseteq ToSet(list)
            /\ ~server.readdir => ToSet(list) = named /\ Len(list) = Cardinality(named)

(* DirectoryCollectedLast: the collector releases a directory only when no *)
(* entry of it is cached any more.                                         *)
DirectoryCollectedLast ==
    [][\A d \in CachedDirs : (cache'.ht[<<d, 0>>] = None /\ fs' = fs) => ActiveIn(d) = {}]_vars

(* RenameAtomic: a rename the FSAL refuses, that of a directory into       *)
(* itself, leaves the file system as it was.                               *)
RenameAtomic ==
    [][\A s, d \in LiveDirs, n, m \in Names :
          (FSAL_rename_fails(fs, s, n, d) /\ Rename(s, n, d, m)) => fs' = fs]_vars
=============================================================================
