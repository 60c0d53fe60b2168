--------------------------- MODULE MCCloudBackup ----------------------------
EXTENDS CloudBackup

CONSTANTS a, b, c, r

(* Three writes to one file, two of them to the same place, and its        *)
(* removal.                                                                *)
OnePath == (a :> "p") @@ (b :> "p") @@ (c :> "p") @@ (r :> "p")
Offsets == (a :> 0) @@ (b :> 1) @@ (c :> 0)

(* Every call a write makes may fail, and for a removal the lookup of its  *)
(* path and the removal itself.                                            *)
SomeFail == ({a} \X {"open", "offset", "size", "lookup", "path", "data", "apply"})
              \cup (Removes \X {"lookup", "apply"})

Symm == Permutations(Workers)
=============================================================================
