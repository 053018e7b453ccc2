------------------------------- MODULE MCShell -------------------------------
EXTENDS Shell

\* Programs, by what they do with their descriptors.
Ls(r)   == [out |-> 1, reads |-> FALSE, found |-> TRUE, redir |-> r]
Yes(n)  == [out |-> n, reads |-> FALSE, found |-> TRUE, redir |-> "none"]
Wc(r)   == [out |-> 1, reads |-> TRUE, found |-> TRUE, redir |-> r]
Cat     == [out |-> 2, reads |-> TRUE, found |-> TRUE, redir |-> "none"]
NoSuch  == [out |-> 0, reads |-> TRUE, found |-> FALSE, redir |-> "none"]

\* ls > f;  yes2 | cat | wc;  sort < f | nosuch;  yes3 &;  ls &
MCScript ==
  << [cmds |-> <<Ls("out")>>, bg |-> FALSE],
     [cmds |-> <<Yes(2), Cat, Wc("none")>>, bg |-> FALSE],
     [cmds |-> <<Wc("in"), NoSuch>>, bg |-> FALSE],
     [cmds |-> <<Yes(3)>>, bg |-> TRUE],
     [cmds |-> <<Ls("none")>>, bg |-> TRUE] >>

\* ls &;  yes2 | wc: the background ls may be reaped by the pipeline's wait.
MCBgFirst ==
  << [cmds |-> <<Ls("none")>>, bg |-> TRUE],
     [cmds |-> <<Yes(2), Wc("none")>>, bg |-> FALSE] >>
=============================================================================
