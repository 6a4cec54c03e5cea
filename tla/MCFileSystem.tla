---------------------------- MODULE MCFileSystem ----------------------------
EXTENDS FileSystem, TLC

CONSTANTS p1, p2
MCProcs == {p1, p2}
MCInums == {1, 2, 3}
MCBlocks == {1, 2}
MCNames == {"a", "b"}

Unused == [mode |-> "none", nlink |-> 0, blk |-> 0]
Dir(self, parent, a, b) == ("." :> self) @@ (".." :> parent) @@ ("a" :> a) @@ ("b" :> b)
NoDir == Dir(0, 0, 0, 0)
RootInode(n) == [mode |-> "dir", nlink |-> n, blk |-> 0]

(* mkfs's root alone; a file with the two names a and b; a directory a     *)
(* with a file b in it.                                                    *)
MCImages ==
    {[ibitmap |-> {1}, bbitmap |-> {}, dinode |-> <<RootInode(2), Unused, Unused>>,
      dents |-> <<Dir(1, 1, 0, 0), NoDir, NoDir>>],
     [ibitmap |-> {1, 2}, bbitmap |-> {1},
      dinode |-> <<RootInode(2), [mode |-> "file", nlink |-> 2, blk |-> 1], Unused>>,
      dents |-> <<Dir(1, 1, 2, 2), NoDir, NoDir>>],
     [ibitmap |-> {1, 2, 3}, bbitmap |-> {1, 2},
      dinode |-> <<RootInode(3), [mode |-> "dir", nlink |-> 1, blk |-> 1],
                   [mode |-> "file", nlink |-> 1, blk |-> 2]>>,
      dents |-> <<Dir(1, 1, 2, 0), Dir(2, 1, 0, 3), NoDir>>]}

Op(op) == [op |-> op]
On(op, path) == [op |-> op, path |-> path]
Link(old, new) == [op |-> "link", path |-> old, new |-> new]

MCCalls ==
    {Op("close"), Op("write"), Op("read"), Op("dup"),
     On("creat", <<"/", "a">>), On("openw", <<"/", "a">>), On("open", <<"a">>),
     On("mkdir", <<"/", "a">>), On("mknod", <<"b">>),
     On("unlink", <<"/", "a">>), On("unlink", <<"a", "b">>),
     Link(<<"/", "a">>, <<"/", "b">>),
     On("chdir", <<"/", "a">>)}
=============================================================================
