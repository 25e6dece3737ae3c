----------------------------- MODULE MCFileStore -----------------------------
(***************************************************************************)
(* Instances of FileStore for TLC: a directory, a file in it, and what a   *)
(* comment says of f_del_file.                                             *)
(***************************************************************************)
EXTENDS FileStore, TLC

CONSTANTS d, f, a, b

MCPaths   == {d, f}
MCParent  == (d :> Home) @@ (f :> d)
MCStreams == {<<>>, <<b>>, <<a, b>>}
Symmetry  == Permutations(Workers) \cup Permutations(Nodes)

\* server_file_api.c:375-378 lists what f_del_file returns, so it never
\* follows a directory handle it does not have.
DeletesReturn == \A w \in Workers : ~NoHandle(w)
=============================================================================
