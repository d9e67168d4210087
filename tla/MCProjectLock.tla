---------------------------- MODULE MCProjectLock ----------------------------
(* A project, a package inside it, and a sibling whose name it is a prefix of. *)
EXTENDS ProjectLock

CONSTANTS whole, part, sibling

MCRoot == [t \in {whole, part, sibling} |->
              CASE t = whole -> <<"repo">>
                [] t = part  -> <<"repo", "packages">>
                [] OTHER     -> <<"repo-a">>]
=============================================================================
