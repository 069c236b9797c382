------------------------------- MODULE MCExt2 -------------------------------
(* A file system of two groups with links up, down, across and in a circle, *)
(* and files of up to sixteen blocks with holes at every level.             *)
EXTENDS Ext2, TLC

MCHoleSets ==
    {{}, {<<"direct", 1>>}, {<<"indirect_1">>}, {<<"indirect_2", 1>>},
     {<<"indirect_3", 0>>, <<"indirect_2", 0, 1>>}, {<<"indirect_3", 1, 0>>}}

MCSuper == [inodes_count |-> 8, blocks_count |-> 15, blocks_per_group |-> 8,
            inodes_per_group |-> 4, inode_size |-> 1]

\* Descriptors in block 2, the tables of the two groups in blocks 3 and 9.
MCDisk == (4 :> 3) @@ (5 :> 9)
          @@ (6 :> 1) @@ (7 :> 2) @@ (8 :> 3) @@ (9 :> 4)
          @@ (18 :> 5) @@ (19 :> 6) @@ (20 :> 7) @@ (21 :> 8)

dir(entries) == [type |-> "dir", entries |-> entries]
link(target) == [type |-> "link", target |-> target]

\* /d, /d/e, the file /f, which is also /d/g, and the links /l to d, /c to
\* d/../c and /d/m to /l/e.
MCNodes == <<[type |-> "unused"],
    dir(<< <<"..", 2>>, <<"d", 3>>, <<"", 0>>, <<"f", 5>>, <<"l", 6>>, <<"c", 7>> >>),
    dir(<< <<"..", 2>>, <<"e", 4>>, <<"g", 5>>, <<"m", 8>> >>),
    dir(<< <<"..", 3>> >>),
    [type |-> "file"],
    link(<<"d", "/">>),
    link(<<"d", "/", "..", "/", "c">>),
    link(<<"/", "l", "/", "e">>) >>

MCNames == {<<>>, <<"/">>, <<"/", "f">>, <<"g">>, <<"d", "/", "/", "g">>,
    <<"l", "/", "g">>, <<"l">>, <<"c", "/", "f">>, <<"/", "d", "/", "e">>,
    <<"f", "/", "f">>, <<"x">>, <<"m", "/", "..", "/", "g">>,
    <<"/", "l", "/", "m", "/", "..", "/", "g">>, <<"..", "/", "l", "/", "e", "/">>}

\* Nothing behind the path, a name that continues its last one to one no
\* directory has or to one that there is, and more components.
MCGarbage == {<<>>, <<"x">>, <<"f">>, <<"/", "..">>}
=============================================================================
