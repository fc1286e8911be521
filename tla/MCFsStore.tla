------------------------------ MODULE MCFsStore ------------------------------
(* Three requests on the file: two updates that overlap and a third, or a
   delete, that meets either. *)
EXTENDS FsStore

CONSTANTS r1, r2, r3

MCRequests == {r1, r2, r3}
=============================================================================
