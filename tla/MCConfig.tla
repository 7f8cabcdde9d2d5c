------------------------------ MODULE MCConfig ------------------------------
(* A small instance of Config for TLC.                                     *)
EXTENDS Config

\* A key whose name is only a keysym, "comma", and two layouts: on the second
\* one the keys q and a change places and the digit row gives symbols.
Keys == Letters \cup Range(Digits) \cup Range(Arrows) \cup Range(FunctionKeys)
            \cup {"esc", "comma"}
Shifted == [shift \in BOOLEAN |->
    [key \in Keys |-> CASE key = "esc" -> "escape"
                        [] shift /\ key = "1" -> "exclam"
                        [] shift /\ key = "comma" -> "less"
                        [] OTHER -> key]]
Layouts ==
    [us |-> Shifted,
     fr |-> [shift \in BOOLEAN |->
        [Shifted[shift] EXCEPT !["q"] = "a", !["a"] = "q",
                               !["1"] = IF shift THEN "1" ELSE "ampersand"]]]

Display(name, mode) ==
    [kind |-> "general", key |-> "output", name |-> name, mode |-> mode]
WindowRule(action, arg, match) ==
    [kind |-> "windowrule", action |-> action, arg |-> arg, match |-> match]
SomeLines ==
    {BindLine(Super, "1", "exec", 3), BindLine(Super, "q", "close", 0),
     BindLine(Super, "q", "exec", 4), BindLine(Super, "a", "none", 0),
     BindLine(Super, "esc", "exec", 5), BindLine(Super, "comma", "center", 0),
     BindLine(SuperShift, "1", "exec", 8), BindLine(SuperShift, "exclam", "exec", 9),
     Display("DP-1", "preferred"), Display("DP-1", "disable"), Display("", "disable"),
     WindowRule("float", 3, "app"), WindowRule("workspace", 0, "app"),
     WindowRule("workspace", 11, "app"), WindowRule("tile", 0, ""),
     [kind |-> "general", key |-> "kb_layouts", value |-> "fr"],
     [kind |-> "exec-once", arg |-> 6], [kind |-> "blur", complete |-> TRUE]}

PressedChords ==
    [mods : {Super, SuperShift, CtrlAlt},
     key : {"1", "0", "q", "a", "c", "esc", "comma", "left", "f1"}]
=============================================================================
