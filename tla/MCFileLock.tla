----------------------------- MODULE MCFileLock -----------------------------
EXTENDS FileLock, TLC

CONSTANTS c1, c2, c3, p1, p2, p3

(* Every caller is a process of its own.                                   *)
OneEach == c1 :> p1 @@ c2 :> p2 @@ c3 :> p3
=============================================================================
