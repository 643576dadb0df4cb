----------------------------- MODULE MCNamespace -----------------------------
(***************************************************************************)
(* Namespace with a small tree and the operations on it that disturb each  *)
(* other.                                                                  *)
(***************************************************************************)
EXTENDS Namespace

Op(k, path) == [kind |-> k, path |-> path, to |-> <<>>, rel |-> FALSE]
Ren(path, to) == [kind |-> "rename", path |-> path, to |-> to, rel |-> FALSE]

\* /a and /b are directories.
TwoDirs == [i \in Inodes |-> IF i <= 3 THEN "dir" ELSE "none"]
TwoDirsEntry == [i \in Inodes |->
    CASE i = 1 -> [n \in AllNames |-> CASE n = "a" -> 2 [] n = "b" -> 3
                                        [] OTHER -> IF n = ".." THEN 1 ELSE 0]
      [] i \in {2, 3} -> [n \in AllNames |-> IF n = ".." THEN 1 ELSE 0]
      [] OTHER -> NoNames]

\* Moves of directories into each other and back.
TreeOps == {Ren(<<"a">>, <<"b", "a">>), Ren(<<"b">>, <<"a", "b">>),
            Ren(<<"b", "a">>, <<"a">>), Op("stat", <<"a", "b">>)}

\* One directory and one file.
OneFile == [i \in Inodes |-> CASE i <= 2 -> "dir" [] i = 3 -> "file"
                               [] OTHER -> "none"]
OneFileEntry == [i \in Inodes |->
    CASE i = 1 -> [n \in AllNames |-> CASE n = "a" -> 2 [] n = "b" -> 3
                                        [] OTHER -> IF n = ".." THEN 1 ELSE 0]
      [] i = 2 -> [n \in AllNames |-> IF n = ".." THEN 1 ELSE 0]
      [] OTHER -> NoNames]

\* A file that comes, goes and is truncated on opens, and one that is replaced
\* while it is open.
FileOps == {Op("creat", <<"b">>), Op("unlink", <<"b">>), Op("trunc", <<"b">>)}
ReplaceOps == {Op("trunc", <<"b">>), Op("unlink", <<"b">>),
               Ren(<<"b">>, <<"a", "b">>), Ren(<<"a", "b">>, <<"b">>),
               Op("open", <<"a", "b">>)}

\* Directories that are removed, replaced and made again while they are open.
RemoveOps == {Op("rmdir", <<"a">>), Op("mkdir", <<"a">>), Op("open", <<"a">>)}
CoverOps == {Op("rmdir", <<"a">>), Ren(<<"b">>, <<"a">>), Op("open", <<"a">>)}

\* With a tree, operations on it, a number of handles, a number of attempts of
\* a rename, and crashes or none.
Scene(tree, ops, opens, tries, crashes) ==
    [kind |-> tree[1], entry |-> tree[2], ops |-> ops, opens |-> opens,
     tries |-> tries, crashes |-> crashes]

MCScenes == {Scene(<<TwoDirs, TwoDirsEntry>>, TreeOps, 1, 3, FALSE),
             Scene(<<OneFile, OneFileEntry>>, FileOps, 2, 2, FALSE),
             Scene(<<OneFile, OneFileEntry>>, ReplaceOps, 1, 2, FALSE),
             Scene(<<TwoDirs, TwoDirsEntry>>, RemoveOps, 1, 2, TRUE),
             Scene(<<TwoDirs, TwoDirsEntry>>, CoverOps, 2, 2, TRUE)}
==============================================================================
