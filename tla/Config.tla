------------------------------- MODULE Config -------------------------------
(***************************************************************************)
(* The configuration file and what a key press does with it                *)
(* (src/src/config.c, handle_keybind_event and handle_key of               *)
(* src/src/input.c).                                                       *)
(*                                                                         *)
(* A file is a sequence of lines, a line a record whose "kind" is the part *)
(* left of the equals sign.  Text is not modelled: the name of a key is a  *)
(* string, the keycode of a named key is that string again, and a layout   *)
(* gives the keysym of each keycode, with and without shift, so on "us" a  *)
(* key alone gives the keysym of its name and on another layout it need    *)
(* not.                                                                    *)
(***************************************************************************)
EXTENDS Naturals, Sequences, SequencesExt

CONSTANTS
    Lines,       \* the lines a user may write
    MaxLines,    \* bound: how many of them
    Chords,      \* the chords a user may press: [mods, key]
    LayoutSym,   \* LayoutSym[layout][shifted][keycode]: the keysym of that key,
                 \* in lower case
    MaxRules     \* MAX_WINDOW_RULES, MAX_OUTPUT_RULES, MAX_BLUR_RULES, ...

ASSUME ConfigAssumption ==
    /\ MaxLines \in Nat
    /\ MaxRules \in Nat \ {0}

NoCode == "KEY_RESERVED"
NoSymbol == "XKB_KEY_NoSymbol"

\* What xkb's "us" is: a key alone gives the keysym of its name, and none gives
\* the name that only this program has for Escape.
ASSUME UsAssumption ==
    \A ch \in Chords :
        LET sym == LayoutSym["us"]["shift" \in ch.mods][ch.key] IN
        /\ ch.key # NoCode
        /\ sym # NoSymbol /\ sym # "esc"
        /\ "shift" \notin ch.mods => sym = IF ch.key = "esc" THEN "escape" ELSE ch.key

VARIABLES
    base,    \* the file there was first: none of it, or the one written at start
    own,     \* the lines the user added to it
    config   \* Server.config

vars == <<base, own, config>>

Super == {"super"}
SuperShift == {"super", "shift"}
SuperCtrl == {"super", "ctrl"}
CtrlAlt == {"ctrl", "alt"}

Digits == <<"1", "2", "3", "4", "5", "6", "7", "8", "9", "0">>
Arrows == <<"left", "down", "up", "right">>
HomeRow == <<"h", "j", "k", "l">>
FunctionKeys ==
    <<"f1", "f2", "f3", "f4", "f5", "f6", "f7", "f8", "f9", "f10", "f11", "f12">>
Letters == {"a", "c", "e", "f", "h", "j", "k", "l", "q", "v"}

\* The names of the keycode table that are no xkb keysym names: "Escape" is
\* the keysym, "esc" only a name of this program.
keycode_from_name(name) ==
    IF name \in Letters \cup Range(Digits) \cup Range(Arrows)
                \cup Range(FunctionKeys) \cup {"esc"}
    THEN name
    ELSE NoCode

xkb_keysym_from_name(name) == IF name = "esc" THEN NoSymbol ELSE name

-----------------------------------------------------------------------------
(***************************************************************************)
(* Loading.  A bind is put at the head of the list, so the list holds the  *)
(* last line of the file first.                                            *)
(***************************************************************************)

Bind(mods, code, sym, action, arg) ==
    [mods |-> mods, code |-> code, sym |-> sym, action |-> action, arg |-> arg]

\* Mutant of add_bind: the bind goes to the end of the list.
AddBindLast(conf, bind) ==
    [conf EXCEPT !.keybinds = Append(@, bind), !.has_keybinds = TRUE]

add_bind(conf, bind) ==
    [conf EXCEPT !.keybinds = <<bind>> \o @, !.has_keybinds = TRUE]

config_init_defaults ==
    [keybinds |-> <<>>, has_keybinds |-> FALSE, exec_once |-> <<>>,
     rules |-> [t \in {"windowrule", "output", "blur", "bezier", "animation"} |-> <<>>],
     kb_layouts |-> "us"]

\* A bind line counts when it names a known key and an action.
BindsAKey(line) ==
    /\ line.kind = "bind"
    /\ line.action # "none"
    /\ \/ keycode_from_name(line.key) # NoCode
       \/ xkb_keysym_from_name(line.key) # NoSymbol

\* Mutant of AddRule: a table that is full makes room by dropping its first rule.
AddRuleLast(conf, table, rule) ==
    [conf EXCEPT !.rules[table] =
        IF Len(@) < MaxRules THEN Append(@, rule) ELSE Append(Tail(@), rule)]

\* A table that is full drops the rule.
AddRule(conf, table, rule) ==
    [conf EXCEPT !.rules[table] =
        IF Len(@) < MaxRules THEN Append(@, rule) ELSE @]

\* An output rule needs a name and a mode, the position may be missing.
parse_output_line(conf, line) ==
    IF line.name # "" /\ line.mode # "" THEN AddRule(conf, "output", line) ELSE conf

WindowActions == {"float", "tile", "sticky", "fullscreen", "center"}

\* Workspace 0 is the tenth.
parse_window_rule(conf, line) ==
    LET id == IF line.arg = 0 THEN 10 ELSE line.arg
    IN  IF line.match = "" THEN conf
        ELSE IF line.action \in WindowActions
             THEN AddRule(conf, "windowrule", [line EXCEPT !.arg = 0])
        ELSE IF line.action = "workspace" /\ id \in 1..10
             THEN AddRule(conf, "windowrule", [line EXCEPT !.arg = id])
        ELSE conf

\* Of the general options only these say what a window, a key or an output does.
parse_general_line(conf, line) ==
    CASE line.key = "kb_layouts" -> [conf EXCEPT !.kb_layouts = line.value]
      [] line.key = "output" -> parse_output_line(conf, line)
      [] OTHER -> conf

\* blur, bezier and animation lines, which need a pattern or all their numbers.
ParseEffectLine(conf, line) ==
    IF line.complete THEN AddRule(conf, line.kind, line) ELSE conf

parse_config_line(conf, line) ==
    CASE line.kind = "bind" ->
            IF BindsAKey(line)
            THEN add_bind(conf, Bind(line.mods, keycode_from_name(line.key),
                                     xkb_keysym_from_name(line.key),
                                     line.action, line.arg))
            ELSE conf
      [] line.kind = "general" -> parse_general_line(conf, line)
      [] line.kind = "windowrule" -> parse_window_rule(conf, line)
      [] line.kind = "exec-once" -> [conf EXCEPT !.exec_once = <<line.arg>> \o @]
      [] line.kind \in {"blur", "bezier", "animation"} -> ParseEffectLine(conf, line)
      [] OTHER -> conf

config_load_file(conf, file) ==
    LET after[n \in 0..Len(file)] ==
          IF n = 0 THEN conf ELSE parse_config_line(after[n - 1], file[n])
    IN  after[Len(file)]

Directional(mods, keys, action) ==
    [i \in 1..4 |-> Bind(mods, keys[i], NoSymbol, action, i - 1)]

DefaultBinds ==
    <<Bind(Super, "q", NoSymbol, "exec", 0), Bind(Super, "e", NoSymbol, "exec", 1),
      Bind(Super, "h", NoSymbol, "exec", 2), Bind(Super, "c", NoSymbol, "close", 0),
      Bind(Super, "v", NoSymbol, "togglefloating", 0),
      Bind(Super, "f", NoSymbol, "fullscreen", 0),
      Bind(SuperShift, "c", NoSymbol, "center", 0),
      Bind(Super, "esc", NoSymbol, "quit", 0)>>
    \o Directional(Super, Arrows, "focus") \o Directional(SuperShift, HomeRow, "move")
    \o Directional(SuperShift, Arrows, "moveoutput")
    \o Directional(SuperCtrl, HomeRow, "resize")
    \o [i \in 1..12 |-> Bind(CtrlAlt, FunctionKeys[i], NoSymbol, "vt", i)]

config_load_default_keybinds(conf) ==
    LET after[n \in 0..Len(DefaultBinds)] ==
          IF n = 0 THEN conf ELSE add_bind(after[n - 1], DefaultBinds[n])
    IN  IF conf.has_keybinds THEN conf ELSE after[Len(DefaultBinds)]

has_super_keybind(conf, code, sym) ==
    \E bind \in Range(conf.keybinds) :
        /\ bind.mods = Super
        /\ \/ bind.code # NoCode /\ bind.code = code
           \/ bind.sym # NoSymbol /\ bind.sym = sym

\* A digit that the file or the defaults use is left alone.
AddDigit(conf, id) ==
    IF has_super_keybind(conf, Digits[id], Digits[id]) THEN conf
    ELSE add_bind(conf, Bind(Super, Digits[id], Digits[id], "workspace", id))

config_load_workspace_keybinds(conf) ==
    LET after[id \in 0..10] == IF id = 0 THEN conf ELSE AddDigit(after[id - 1], id)
    IN  after[10]

\* server_init and reload_config load a file in the same way.
Load(file) ==
    config_load_workspace_keybinds(
        config_load_default_keybinds(
            config_load_file(config_init_defaults, file)))

BindLine(mods, key, action, arg) ==
    [kind |-> "bind", mods |-> mods, key |-> key, action |-> action, arg |-> arg]

\* The file written on the first run.
config_generate_default ==
    LET Row(mods, keys, action) ==
            [i \in 1..4 |-> BindLine(mods, keys[i], action, i - 1)]
    IN  <<BindLine(Super, "q", "exec", 0), BindLine(Super, "e", "exec", 1),
          BindLine(Super, "h", "exec", 2), BindLine(Super, "c", "close", 0),
          BindLine(Super, "v", "togglefloating", 0),
          BindLine(Super, "f", "fullscreen", 0),
          BindLine(SuperShift, "c", "center", 0), BindLine(Super, "esc", "quit", 0)>>
        \o Row(Super, Arrows, "focus") \o Row(SuperShift, Arrows, "move")
        \o Row(SuperCtrl, HomeRow, "resize")
        \o [i \in 1..10 |-> BindLine(Super, Digits[i], "workspace", i)]

-----------------------------------------------------------------------------
(***************************************************************************)
(* A key press: the first bind of the list that matches, then the chords   *)
(* that work without a bind, then the focused client.                      *)
(***************************************************************************)

Matches(conf, mods, key, bind) ==
    /\ bind.mods = mods
    /\ \/ bind.code # NoCode /\ bind.code = key
       \/ bind.sym # NoSymbol /\ bind.sym = LayoutSym[conf.kb_layouts]["shift" \in mods][key]

\* The places in the list of the binds that match.
handle_keybind_event(conf, mods, key) ==
    {i \in DOMAIN conf.keybinds : Matches(conf, mods, key, conf.keybinds[i])}

vt_from_keycode(key) ==
    IF \E i \in 1..12 : FunctionKeys[i] = key
    THEN CHOOSE i \in 1..12 : FunctionKeys[i] = key
    ELSE 0

Act(action, arg) == [action |-> action, arg |-> arg]

KeyAction(conf, mods, key) ==
    LET found == handle_keybind_event(conf, mods, key)
        first == CHOOSE i \in found : \A j \in found : i <= j
    IN  CASE found # {} -> Act(conf.keybinds[first].action, conf.keybinds[first].arg)
          [] found = {} /\ mods = CtrlAlt /\ vt_from_keycode(key) > 0 ->
                Act("vt", vt_from_keycode(key))
          [] found = {} /\ mods = Super /\ key = "esc" -> Act("quit", 0)
          [] OTHER -> Act("forward", 0)

-----------------------------------------------------------------------------
(***************************************************************************)
(* The server starts with a file that is empty or, when there was none,    *)
(* with the one it writes.  The user adds lines and has it read again.     *)
(***************************************************************************)

server_init ==
    /\ base \in {<<>>, config_generate_default}
    /\ own = <<>>
    /\ config = Load(base)

reload_config(line) ==
    /\ Len(own) < MaxLines
    /\ own' = Append(own, line)
    /\ config' = Load(base \o own')
    /\ UNCHANGED base

\* The user starts the file over.
reload_config_anew ==
    /\ own # <<>>
    /\ own' = <<>>
    /\ config' = Load(base)
    /\ UNCHANGED base

Next == (\E line \in Lines : reload_config(line)) \/ reload_config_anew

Spec == server_init /\ [][Next]_vars

-----------------------------------------------------------------------------
(***************************************************************************)
(* What the file asks for, read without the list: the last line that names *)
(* the chord; without any bind in the file the table of defaults; then the *)
(* digits, the virtual terminals and the way out.                          *)
(***************************************************************************)

\* What a user calls a key: its name in the key table, or the keysym it gives.
Names(name, mods, key) ==
    \/ name = key /\ keycode_from_name(name) # NoCode
    \/ name = LayoutSym["us"]["shift" \in mods][key]

Latest(S) == CHOOSE i \in S : \A j \in S : j <= i

Wanted(file, mods, key) ==
    LET Binds == {i \in DOMAIN file : BindsAKey(file[i])}
        Named == {i \in Binds : file[i].mods = mods /\ Names(file[i].key, mods, key)}
        Default == {i \in DOMAIN DefaultBinds :
                        DefaultBinds[i].mods = mods /\ DefaultBinds[i].code = key}
        Digit == {i \in 1..10 : Digits[i] = key}
    IN  CASE Named # {} -> Act(file[Latest(Named)].action, file[Latest(Named)].arg)
          [] Named = {} /\ Binds = {} /\ Default # {} ->
                Act(DefaultBinds[Latest(Default)].action, DefaultBinds[Latest(Default)].arg)
          [] OTHER ->
                CASE mods = Super /\ Digit # {} -> Act("workspace", Latest(Digit))
                  [] mods = CtrlAlt /\ key \in Range(FunctionKeys) ->
                        Act("vt", vt_from_keycode(key))
                  [] mods = Super /\ key = "esc" -> Act("quit", 0)
                  [] OTHER -> Act("forward", 0)

\* A key press does what the last line of the file for that chord says, and
\* without one what the built-in chords say: the order of the list, the defaults
\* and the digits added after the file never hide a line, and Super+Escape leads
\* out unless the file says otherwise.  This is for the layout the names of the
\* keys are meant for: on another one a digit can hide a line for the keysym
\* that the digit's key gives there.
KeysDoWhatTheFileSays ==
    config.kb_layouts = "us" =>
        \A ch \in Chords :
            KeyAction(config, ch.mods, ch.key) = Wanted(base \o own, ch.mods, ch.key)

\* These are the first rules for which there is room, of the lines in good, in
\* the order of the file, and each rule is what its line asks for.
AreFirst(rules, good, asked) ==
    \E at \in [DOMAIN rules -> good] :
        /\ \A n \in DOMAIN rules : rules[n] = asked[at[n]]
        /\ \A n, k \in DOMAIN rules : n < k => at[n] < at[k]
        /\ \A n \in DOMAIN rules, i \in good :
              i < at[n] => \E k \in DOMAIN rules : at[k] = i
        /\ Len(rules) < MaxRules =>
              \A i \in good : \E k \in DOMAIN rules : at[k] = i

\* Window and output rules are the first MaxRules good lines of the file in its
\* order: a bad line, a line that is dropped and lines of other kinds between them
\* shift nothing, so windows and outputs get the rule that was written first.
FirstRulesCount ==
    LET file == base \o own
        Tenth(line) == [line EXCEPT !.arg = IF line.action \in WindowActions THEN 0
                                            ELSE IF @ = 0 THEN 10 ELSE @]
        windows == {i \in DOMAIN file :
            /\ file[i].kind = "windowrule" /\ file[i].match # ""
            /\ \/ file[i].action \in WindowActions
               \/ file[i].action = "workspace" /\ file[i].arg \in 0..10}
        displays == {i \in DOMAIN file :
            /\ file[i].kind = "general" /\ file[i].key = "output"
            /\ file[i].name # "" /\ file[i].mode # ""}
    IN  /\ AreFirst(config.rules["output"], displays, file)
        /\ AreFirst(config.rules["windowrule"], windows,
                    [i \in windows |-> Tenth(file[i])])
=============================================================================
