---------------------------- MODULE MCVfsNamespace ----------------------------
(* Instances of VfsNamespace for TLC. *)
EXTENDS VfsNamespace

A == <<"a">>
B == <<"b">>
AA == <<"a", "a">>
AB == <<"a", "b">>
BA == <<"b", "a">>

File(t, p) == Make(t, p, "file").tree
Dir(t, p) == Make(t, p, "dir").tree
Hard(t, p, q) == Flink(t, p, q).tree

SomeTrees ==
    {EmptyTree,
     Dir(Dir(EmptyTree, A), B),
     Dir(Dir(Dir(EmptyTree, A), AA), <<"a", "a", "b">>),
     Dir(File(Dir(EmptyTree, A), AB), B),
     File(Dir(Dir(EmptyTree, A), AA), B),
     Hard(File(Dir(EmptyTree, A), AB), AB, B),
     Hard(File(File(Dir(EmptyTree, A), AA), AB), AA, B),
     File(Dir(Dir(EmptyTree, A), B), BA)}

FullTree == {Dir(File(Dir(EmptyTree, A), AB), B), File(Dir(Dir(EmptyTree, A), B), BA)}

Paths == {<<>>, <<".">>, A, B, AA, AB, BA, <<"a", "a", "a">>, <<"a", "..">>, <<"a", "..", "b">>,
          <<"a", ".", "b">>, <<"..", "a">>}
PlainPaths == {A, B, AA, AB, BA}

CallsOn(ps) ==
    [call : {"rename", "link"}, a : ps, b : ps, val : {0}]
    \cup [call : {"unlink", "rmdir"}, a : ps, b : {A}, val : {0}]
    \cup [call : {"mkdir"}, a : ps, b : {A}, val : {"asked"}]
    \cup [call : {"utime"}, a : ps, b : {A}, val : {1, 3}]

AllCalls == CallsOn(Paths)
PlainCalls == CallsOn(PlainPaths)
=============================================================================
