------------------------------- MODULE MCPack -------------------------------
(* An instance of Pack for TLC: a directory with a file and a subdirectory,
   which holds a file longer than a block; the other file is empty.  A used target has longer files. *)
EXTENDS Pack, TLC

SmallDirs  == {"d", "d/s"}
SmallFiles == {"d/a", "d/s/b"}
SmallParent == ("d/s" :> "d") @@ ("d/a" :> "d") @@ ("d/s/b" :> "d/s")
SmallOldLen == ("d/a" :> 1) @@ ("d/s/b" :> 4)
SmallLen   == ("d/a" :> 0) @@ ("d/s/b" :> 3)
=============================================================================
