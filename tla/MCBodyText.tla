----------------------------- MODULE MCBodyText -----------------------------
(***************************************************************************)
(* Small instances of BodyText: formats over lines, results of commands,   *)
(* and the words that become links.                                        *)
(***************************************************************************)
EXTENDS BodyText

MCBounds == {
    [tokens |-> {"spoiler", "italic", "blue", "code", "nl", "text", ">text"}, length |-> 5, changes |-> {"rbText"}],
    [tokens |-> {"#pyu", "#flip", "#rcount", " ", "nl"}, length |-> 7, changes |-> {"pyu"}],
    [tokens |-> {"#pyu", "#flip", "#dice", "code", "spoiler", " ", ">text"}, length |-> 5, changes |-> {"pyu"}],
    [tokens |-> {"code", "x", "text", " ", "(", "'", "//", "italic"}, length |-> 5, changes |-> {}],
    [tokens |-> {">>link", ">>dead", ">>>/ref/", "url", "embed", "bold", "red", " "}, length |-> 4, changes |-> {"rbText"}]}
=============================================================================
