------------------------------ MODULE MCFiles ------------------------------
EXTENDS Files

\* chroot does with Root what chdir does with Pwd.
PwdAndExec == {Pwd, Exec}

\* Programs that open, dup, pipe and close; programs that change directory and
\* execute others; programs that mount, umount and change directory.
SomeWorkloads == {[numbers |-> {3}, slots |-> {None}],
                  [numbers |-> {1, 3, 4}, slots |-> {Pwd, Exec}],
                  [numbers |-> {1, 3, 5, 6}, slots |-> {Pwd, Mnt, Umnt}]}
=============================================================================
