-------------------------------- MODULE GitRepo -------------------------------
(***************************************************************************)
(* git, as the writer's program uses it: a tree is a function from paths   *)
(* to contents; `add` copies a file to the index, `commit` the index to    *)
(* the head, and a plain `push` the head to the remote.                    *)
(***************************************************************************)

\* A fresh clone of `tree`: everything committed and pushed.
Clone(tree) == [index |-> tree, head |-> tree, remote |-> tree]

Add(repo, path, tree) == [repo EXCEPT !.index[path] = tree[path]]

\* With an index equal to the head git makes no commit and fails: no change either way.
Commit(repo) == [repo EXCEPT !.head = repo.index]

\* Succeeds also when there is nothing to push ("Everything up-to-date").
Push(repo) == [repo EXCEPT !.remote = repo.head]
===============================================================================
