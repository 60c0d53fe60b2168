---------------------------- MODULE MCCacheInode ----------------------------
(* Instances of CacheInode: small trees, and servers with their clients.   *)
EXTENDS CacheInode, TLC

CONSTANTS d1, d2, f1, f2, a, b, c

Bare == [d \in Dirs |-> [n \in Names |-> None]]

(* An empty file system; one with a file in a directory; a file twice. *)
Trees == {Bare,
          [Bare EXCEPT ![Root][a] = d1, ![d1][b] = f1],
          [Bare EXCEPT ![Root][a] = f1, ![Root][b] = f1]}

Server(gc, objects, calls) ==
    [array_size |-> 1, gc |-> gc, objects |-> objects, names |-> {a, b},
     readdir |-> "readdir" \in calls, link |-> "link" \in calls,
     rename |-> "rename" \in calls, lookupp |-> "lookupp" \in calls]

(* Without collection, the default, all calls but LOOKUPP are sound.       *)
Default == Server("none", {d1, f1}, {"readdir", "link", "rename"})
DefaultFiles == Server("none", {f1, f2}, {"readdir", "link", "rename"})
DefaultDirs == Server("none", {d1, d2}, {"readdir", "rename"})
(* Two arrays, read from the middle of the first or of the second.         *)
DefaultLong == [Server("none", {f1}, {"readdir", "link"}) EXCEPT !.names = {a, b, c},
                                                                 !.array_size = 2]
(* LOOKUPP is sound as well where each directory fits into one array.      *)
DefaultShort == [Server("none", {d1, f1}, {"readdir", "rename", "lookupp"})
                    EXCEPT !.array_size = 2]
(* With collection, these calls are sound.                                 *)
CollectsFiles == Server("files", {d1, f1, f2}, {"rename"})
CollectsAll == Server("all", {d1, f1}, {})
SoundServers == {Default, DefaultFiles, DefaultDirs, DefaultLong, DefaultShort,
                 CollectsFiles, CollectsAll}

(* Stale back pointers pile up where listings expire: room for a file with *)
(* two names to be listed twice.                                           *)
TwoOrFour(s) == IF s \in {DefaultFiles, DefaultLong} THEN 4 ELSE 2

(* Collection beside listings, renames and links; LOOKUPP in long         *)
(* directories.                                                            *)
GcReaddir == {Server("files", {f1, f2}, {"readdir"})}
GcRename == {Server("all", {d1, f1}, {"rename"})}
GcLink == {Server("files", {f1}, {"link"})}
AllReaddir == {Server("all", {d1, f1}, {"readdir"})}
DotDot == {Server("none", {d1, f1, f2}, {"lookupp"})}
Renames == {Server("none", {d1, d2}, {"rename"})}
=============================================================================
