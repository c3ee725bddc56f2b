----------------------------- MODULE MCImageTar -----------------------------
(* An instance of ImageTar for TLC: a container of two files, one of them longer
   than a block, and a second directory, as learning/tar packs several. *)
EXTENDS ImageTar, TLC

MCTrees  == << {"bin", "log"}, {"etc"} >>
MCLength == ("bin" :> 1) @@ ("log" :> 3) @@ ("etc" :> 0)
=============================================================================
