------------------------------- MODULE MCFiles -------------------------------
(* The file system on a small archive. *)
EXTENDS Files

\* A directory entry and two files in it, one that fits into a FileNode.
ArchiveDef ==
    <<[names |-> <<"exec">>, size |-> 0, type |-> "5"],
      [names |-> <<"exec", "sh">>, size |-> 3, type |-> "0"],
      [names |-> <<"exec", "ls">>, size |-> 1, type |-> "0"]>>

At(drive, names) == [drive |-> drive, names |-> names, slash |-> FALSE]
Dir(drive, names) == [drive |-> drive, names |-> names, slash |-> TRUE]

PathsDef ==
    {At("", <<"a">>), At("R", <<"a", "b">>), At("R", <<"exec", "a">>),
     At("R", <<"exec", "sh">>), At("R", <<"exec">>), At("R", <<".">>),
     At("R", <<"exec", "..", "b">>), At("R", <<".", "b">>), At("D", <<".", "b">>),
     At("R", <<"exec", ".", "b">>), Dir("R", <<>>), Dir("R", <<"exec">>),
     At("D", <<"devzero">>), At("D", <<"fb0">>), At("Q", <<"a">>), At("r", <<"a">>)}
=============================================================================
