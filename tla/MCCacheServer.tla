--------------------------- MODULE MCCacheServer ---------------------------
(***************************************************************************)
(* The server with connections that are told apart by nothing but whether  *)
(* their socket may fail.  For safety only: a symmetric run shows nothing  *)
(* of what eventually happens.                                             *)
(***************************************************************************)
EXTENDS CacheServer

Alike == {p \in Permutations(Conn) : {p[c] : c \in MayFail} = MayFail}
=============================================================================
