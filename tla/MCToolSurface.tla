---------------------------- MODULE MCToolSurface ----------------------------
(***************************************************************************)
(* Values for TLC: an output directory with a folder in it, one root, a    *)
(* link from the one to the other, and a file that is in neither.          *)
(***************************************************************************)
EXTENDS ToolSurface

Relative(parts) == [absolute |-> FALSE, parts |-> parts]
Absolute(parts) == [absolute |-> TRUE, parts |-> parts]

MCOutputDir == <<"out">>
MCRoots == {<<"root">>}
MCLinks == [p \in {<<"out", "link">>} |-> <<"root">>]
MCOutside == {<<"etc", "f">>}
MCGiven == {Absolute(<<"root", "..", "out", "a">>), Absolute(<<"out", "link", "r">>),
            Relative(<<"link", "r">>), Relative(<<"sub", "s">>),
            Relative(<<"..", "etc", "f">>), Absolute(<<"etc", "f">>)}
MCDownloads == {Relative(<<"a">>)}
MCArtifacts == <<Relative(<<"b">>), Relative(<<"a">>)>>

MCSymmetry == Permutations(Threads) \cup Permutations(Values)
=============================================================================
