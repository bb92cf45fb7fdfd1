--------------------------- MODULE MCFileSystem ---------------------------
EXTENDS Directories

Abs(s) == [abs |-> TRUE, names |-> s]
Rel(s) == [abs |-> FALSE, names |-> s]

\* Programs that make and remove names.
Namespace == [calls |-> {"mkdir", "rmdir", "open", "link", "unlink", "chdir", "mknod"}, max |-> 6,
           paths |-> {Abs(<< >>), Abs(<<"a">>), Rel(<<"a">>), Rel(<<"b">>), Rel(<<"..">>), Rel(<<"a", "b">>)},
           flags |-> {{}, {"CREAT", "TRUNC"}}, lens |-> {}, values |-> {}, size |-> 0, shared |-> FALSE,
           disk |-> 3, beyond |-> FALSE]

\* Programs that write and remove small files, and so recycle inodes and zones;
Recycle == [calls |-> {"open", "write", "close", "unlink", "mkdir"}, max |-> 6,
            paths |-> {Rel(<<"a">>), Rel(<<"b">>)},
            flags |-> {{"CREAT", "TRUNC", "WRITE"}}, lens |-> {1, 3}, values |-> {1, 2},
            size |-> BLOCK_CELLS * DIRECT_BLOCK, shared |-> FALSE,
            disk |-> 3, beyond |-> FALSE]

\* and files with index blocks, made from zones that others have left, too.
Regrow == [calls |-> {"open", "write", "close", "unlink"}, max |-> 6,
           paths |-> {Rel(<<"a">>), Rel(<<"b">>)},
           flags |-> {{"CREAT", "TRUNC", "WRITE"}}, lens |-> {5}, values |-> {2},
           size |-> BLOCK_CELLS * (DIRECT_BLOCK + BLOCK_CELLS), shared |-> FALSE,
           disk |-> 0, beyond |-> FALSE]

\* Programs that read and write a file as large as double indirect blocks, and
\* two at once that extend the same file.
Large == [calls |-> {"open", "write", "lseek", "read"}, max |-> 5,
          paths |-> {Rel(<<"a">>)}, flags |-> {{"CREAT", "WRITE"}}, lens |-> {1, 5}, values |-> {1, 2},
          size |-> BLOCK_CELLS * (DIRECT_BLOCK + BLOCK_CELLS + 1), shared |-> FALSE,
          disk |-> 0, beyond |-> FALSE]
Shared == [calls |-> {"open", "write"}, max |-> 5,
           paths |-> {Rel(<<"a">>)}, flags |-> {{"CREAT", "WRITE"}, {"WRITE", "APPEND"}}, lens |-> {3}, values |-> {1},
           size |-> BLOCK_CELLS * (DIRECT_BLOCK + BLOCK_CELLS + 1), shared |-> TRUE,
           disk |-> 0, beyond |-> FALSE]
SomeWorkloads == {Namespace, Recycle, Regrow, Large, Shared}

\* A program that writes a file with an index block again and again from the start.
Rewrite == {[calls |-> {"open", "write", "close"}, max |-> 7,
             paths |-> {Rel(<<"a">>)}, flags |-> {{"CREAT", "TRUNC", "WRITE"}}, lens |-> {5}, values |-> {1, 2},
             size |-> BLOCK_CELLS * (DIRECT_BLOCK + BLOCK_CELLS + 1), shared |-> FALSE,
             disk |-> 0, beyond |-> TRUE]}

Symmetry == Permutations(Tasks)
============================================================================
