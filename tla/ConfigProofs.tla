---------------------------- MODULE ConfigProofs ----------------------------
(***************************************************************************)
(* Proofs about Config, for any lines, any number of them, any chords, any *)
(* layouts that have the usual "us" and tables of any size: what a key     *)
(* does is what the file says, and the rules that count are its first.     *)
(*                                                                         *)
(* A file is read line by line, then the defaults and the digits are put   *)
(* in front of the list.  The argument follows these three loops; what it  *)
(* keeps is not the list but, for each chord, the bind that is found       *)
(* first in it (First), or that there is none (NoneFits).                  *)
(***************************************************************************)
EXTENDS Config, NaturalsInduction, WellFoundedInduction, SequenceTheorems, TLAPS
-----------------------------------------------------------------------------
(* Numbers and loops                                                       *)

LEMMA LeastOf ==
    ASSUME NEW T, T \subseteq Nat, T # {}
    PROVE  \E m \in T : \A n \in T : m <= n
<1>1. PICK m \in T : \A n \in T : ~ (<<n, m>> \in OpToRel(<, Nat))
  BY NatLessThanWellFounded, WFMin
<1>2. ASSUME NEW n \in T PROVE m <= n
  <2>1. m \in Nat /\ n \in Nat /\ ~ (n < m)
    BY <1>1 DEF OpToRel
  <2> QED
    BY <2>1
<1> QED
  BY <1>2

LEMMA GreatestOf ==
    ASSUME NEW N \in Nat, NEW T, T \subseteq 0..N, T # {}
    PROVE  \E m \in T : \A n \in T : n <= m
<1> DEFINE U == {N - n : n \in T}
<1>1. U \subseteq Nat /\ U # {}
  OBVIOUS
<1>2. PICK u \in U : \A n \in U : u <= n
  BY <1>1, LeastOf, Zenon
<1>3. PICK m \in T : u = N - m
  BY <1>2
<1>4. ASSUME NEW n \in T PROVE n <= m
  <2>1. N - n \in U /\ n \in 0..N /\ m \in 0..N
    BY <1>3
  <2>2. N - m <= N - n
    BY <1>2, <1>3, <2>1
  <2> QED
    BY <2>1, <2>2
<1> QED
  BY <1>4

LEMMA CountUp ==
    ASSUME NEW m \in Nat, NEW T, 0 \in T, \A n \in 1..m : n - 1 \in T => n \in T
    PROVE  \A n \in 0..m : n \in T
<1> DEFINE Missing == {n \in 0..m : n \notin T}
<1>1. SUFFICES ASSUME Missing # {} PROVE FALSE
  OBVIOUS
<1>2. PICK k \in Missing : \A n \in Missing : k <= n
  <2>1. Missing \subseteq Nat
    OBVIOUS
  <2> HIDE DEF Missing
  <2> QED
    BY <1>1, <2>1, LeastOf
<1>3. k \in 1..m /\ k - 1 \in 0..m /\ ~ (k <= k - 1)
  BY <1>2
<1> QED
  BY <1>2, <1>3

\* A loop of m turns over the values V, whose n-th turn is step.
Turns(V, m, step, start, f) ==
    /\ f \in [0..m -> V] /\ f[0] = start
    /\ \A n \in 1..m : f[n] = step[<<n, f[n - 1]>>]

LEMMA Iterates ==
    ASSUME NEW V, NEW m \in Nat, NEW start \in V, NEW step \in [(1..m) \X V -> V]
    PROVE  \E f : Turns(V, m, step, start, f)
<1> DEFINE Missing == {k \in 0..m : ~ \E f : Turns(V, k, step, start, f)}
<1>1. SUFFICES ASSUME Missing # {} PROVE FALSE
  OBVIOUS
<1>2. PICK k \in Missing : \A j \in Missing : k <= j
  <2>1. Missing \subseteq Nat
    OBVIOUS
  <2> HIDE DEF Missing
  <2> QED
    BY <1>1, <2>1, LeastOf
<1>3. CASE k = 0
  <2> DEFINE f == [n \in 0..0 |-> start]
  <2>1. f \in [0..0 -> V] /\ f[0] = start /\ \A n \in 1..0 : FALSE
    OBVIOUS
  <2> HIDE DEF f
  <2>2. Turns(V, 0, step, start, f)
    BY <2>1 DEF Turns
  <2> QED
    BY <1>2, <1>3, <2>2
<1>4. CASE k # 0
  <2>1. k \in Nat /\ k \in 1..m /\ k - 1 \in 0..m /\ k - 1 \in Nat /\ k - 1 \notin Missing
    BY <1>2, <1>4
  <2>2. PICK g : Turns(V, k - 1, step, start, g)
    BY <2>1
  <2> DEFINE last == step[<<k, g[k - 1]>>]
             f == [n \in 0..k |-> IF n = k THEN last ELSE g[n]]
  <2>3. g \in [0..k - 1 -> V] /\ g[k - 1] \in V
    BY <2>1, <2>2 DEF Turns
  <2>4. last \in V
    BY <2>1, <2>3
  <2> HIDE DEF last
  <2>5. f \in [0..k -> V] /\ f[k] = last /\ \A n \in 0..k - 1 : f[n] = g[n]
    BY <2>1, <2>3, <2>4
  <2> HIDE DEF f
  <2>6. f[0] = start
    BY <2>1, <2>2, <2>5 DEF Turns
  <2>7. ASSUME NEW n \in 1..k PROVE f[n] = step[<<n, f[n - 1]>>]
    <3>1. n - 1 \in 0..k - 1 /\ f[n - 1] = g[n - 1]
      BY <2>1, <2>5
    <3>2. CASE n = k
      BY <2>5, <3>1, <3>2 DEF last
    <3>3. CASE n # k
      <4>1. n \in 1..k - 1 /\ n \in 0..k - 1
        BY <2>1, <3>3
      <4> QED
        BY <2>2, <2>5, <3>1, <4>1 DEF Turns
    <3> QED
      BY <3>2, <3>3
  <2>8. Turns(V, k, step, start, f)
    BY <2>5, <2>6, <2>7 DEF Turns
  <2> QED
    BY <1>2, <2>8
<1> QED
  BY <1>3, <1>4
-----------------------------------------------------------------------------
(* What a configuration is made of                                         *)

\* The lines of a file, and what a bind line puts into the list.
Written == Lines \cup Range(config_generate_default)

BindOf(line) == Bind(line.mods, keycode_from_name(line.key),
                     xkb_keysym_from_name(line.key), line.action, line.arg)

DigitBind(id) == Bind(Super, Digits[id], Digits[id], "workspace", id)

Binds == {BindOf(line) : line \in Written} \cup Range(DefaultBinds)
            \cup {DigitBind(id) : id \in 1..10}

Tables == {"windowrule", "output", "blur", "bezier", "animation"}

Numbered(line) == {[line EXCEPT !.arg = a] : a \in 0..10}

Rules == Written \cup UNION {Numbered(line) : line \in Written}

Configs ==
    [keybinds : Seq(Binds), has_keybinds : BOOLEAN,
     exec_once : Seq({line.arg : line \in Written}),
     rules : [Tables -> Seq(Rules)],
     kb_layouts : {"us"} \cup {line.value : line \in Written}]

\* The tables of the source are sequences.
LEMMA TableIsSeq ==
    ASSUME NEW T, NEW n \in Nat, NEW f \in [1..n -> T]
    PROVE  f \in Seq(T)
  BY SeqDef

LEMMA DefaultsAreBinds ==
    /\ DefaultBinds \in Seq(Binds)
    /\ \A i \in 1..Len(DefaultBinds) : DefaultBinds[i].sym = NoSymbol
<1> DEFINE Mods == {Super, SuperShift, SuperCtrl, CtrlAlt}
           Codes == {"q", "e", "h", "c", "v", "f", "esc"} \cup {Arrows[i] : i \in 1..4}
                       \cup {HomeRow[i] : i \in 1..4} \cup {FunctionKeys[i] : i \in 1..12}
           Actions == {"exec", "close", "togglefloating", "fullscreen", "center", "quit",
                       "focus", "move", "moveoutput", "resize", "vt"}
           S == [mods : Mods, code : Codes, sym : {NoSymbol}, action : Actions, arg : Nat]
<1>1. ASSUME NEW mods \in Mods, NEW code \in Codes, NEW action \in Actions, NEW arg \in Nat
      PROVE  Bind(mods, code, NoSymbol, action, arg) \in S
  <2> HIDE DEF Mods, Codes, Actions
  <2> QED
    BY DEF Bind
<1>2. \A bind \in S : bind.sym = NoSymbol
  OBVIOUS
<1> HIDE DEF S
<1> DEFINE single ==
             <<Bind(Super, "q", NoSymbol, "exec", 0), Bind(Super, "e", NoSymbol, "exec", 1),
               Bind(Super, "h", NoSymbol, "exec", 2), Bind(Super, "c", NoSymbol, "close", 0),
               Bind(Super, "v", NoSymbol, "togglefloating", 0),
               Bind(Super, "f", NoSymbol, "fullscreen", 0),
               Bind(SuperShift, "c", NoSymbol, "center", 0),
               Bind(Super, "esc", NoSymbol, "quit", 0)>>
           vt == [i \in 1..12 |-> Bind(CtrlAlt, FunctionKeys[i], NoSymbol, "vt", i)]
<1>3. /\ Bind(Super, "q", NoSymbol, "exec", 0) \in S
      /\ Bind(Super, "e", NoSymbol, "exec", 1) \in S
      /\ Bind(Super, "h", NoSymbol, "exec", 2) \in S
      /\ Bind(Super, "c", NoSymbol, "close", 0) \in S
      /\ Bind(Super, "v", NoSymbol, "togglefloating", 0) \in S
      /\ Bind(Super, "f", NoSymbol, "fullscreen", 0) \in S
      /\ Bind(SuperShift, "c", NoSymbol, "center", 0) \in S
      /\ Bind(Super, "esc", NoSymbol, "quit", 0) \in S
  BY <1>1
<1>4. single \in Seq(S)
  BY <1>3
<1>5. ASSUME NEW mods \in Mods, NEW keys \in {Arrows, HomeRow}, NEW action \in Actions
      PROVE  Directional(mods, keys, action) \in Seq(S)
  <2>1. \A i \in 1..4 : keys[i] \in Codes /\ i - 1 \in Nat
    OBVIOUS
  <2> HIDE DEF Codes, Actions, Mods
  <2>2. \A i \in 1..4 : Bind(mods, keys[i], NoSymbol, action, i - 1) \in S
    BY <1>1, <2>1
  <2>3. [i \in 1..4 |-> Bind(mods, keys[i], NoSymbol, action, i - 1)] \in [1..4 -> S]
    BY <2>2
  <2>4. Directional(mods, keys, action) \in [1..4 -> S]
    BY <2>3 DEF Directional
  <2> QED
    BY <2>4, TableIsSeq
<1>6. vt \in Seq(S)
  <2>1. \A i \in 1..12 : FunctionKeys[i] \in Codes /\ i \in Nat
    OBVIOUS
  <2>2. CtrlAlt \in Mods /\ "vt" \in Actions
    OBVIOUS
  <2> HIDE DEF Codes, Actions, Mods
  <2>3. \A i \in 1..12 : Bind(CtrlAlt, FunctionKeys[i], NoSymbol, "vt", i) \in S
    BY <1>1, <2>1, <2>2
  <2>4. vt \in [1..12 -> S]
    BY <2>3
  <2> HIDE DEF vt
  <2> QED
    BY <2>4, TableIsSeq
<1> HIDE DEF single, vt
<1> DEFINE d1 == Directional(Super, Arrows, "focus")
           d2 == Directional(SuperShift, HomeRow, "move")
           d3 == Directional(SuperShift, Arrows, "moveoutput")
           d4 == Directional(SuperCtrl, HomeRow, "resize")
<1>7. d1 \in Seq(S) /\ d2 \in Seq(S) /\ d3 \in Seq(S) /\ d4 \in Seq(S)
  <2>1. /\ {Super, SuperShift, SuperCtrl} \subseteq Mods
        /\ {"focus", "move", "moveoutput", "resize"} \subseteq Actions
    OBVIOUS
  <2> HIDE DEF Codes, Actions, Mods
  <2> QED
    BY <1>5, <2>1
<1>8. DefaultBinds = single \o d1 \o d2 \o d3 \o d4 \o vt
  BY DEF DefaultBinds, single, vt
<1> HIDE DEF d1, d2, d3, d4
<1>9. DefaultBinds \in Seq(S)
  BY <1>4, <1>6, <1>7, <1>8, ConcatProperties
<1>10. DefaultBinds \in Seq(Binds)
  <2>1. DefaultBinds \in Seq(Range(DefaultBinds))
    BY <1>9, SeqOfRange
  <2>2. Range(DefaultBinds) \subseteq Binds
    BY DEF Binds
  <2> QED
    BY <2>1, <2>2, SeqMonotonic
<1>11. \A i \in 1..Len(DefaultBinds) : DefaultBinds[i] \in S
  BY <1>9, ElementOfSeq
<1> QED
  BY <1>2, <1>10, <1>11

LEMMA GeneratedIsWritten ==
    config_generate_default \in Seq(Written)
<1> DEFINE Mods == {Super, SuperShift, SuperCtrl}
           Keys == {"q", "e", "h", "c", "v", "f", "esc"} \cup {Arrows[i] : i \in 1..4}
                      \cup {HomeRow[i] : i \in 1..4} \cup {Digits[i] : i \in 1..10}
           Actions == {"exec", "close", "togglefloating", "fullscreen", "center", "quit",
                       "focus", "move", "resize", "workspace"}
           S == [kind : {"bind"}, mods : Mods, key : Keys, action : Actions, arg : Nat]
           Row(mods, keys, action) == [i \in 1..4 |-> BindLine(mods, keys[i], action, i - 1)]
           single ==
             <<BindLine(Super, "q", "exec", 0), BindLine(Super, "e", "exec", 1),
               BindLine(Super, "h", "exec", 2), BindLine(Super, "c", "close", 0),
               BindLine(Super, "v", "togglefloating", 0),
               BindLine(Super, "f", "fullscreen", 0),
               BindLine(SuperShift, "c", "center", 0), BindLine(Super, "esc", "quit", 0)>>
           digits == [i \in 1..10 |-> BindLine(Super, Digits[i], "workspace", i)]
<1>0. ASSUME NEW mods \in Mods, NEW key \in Keys, NEW action \in Actions, NEW arg \in Nat
      PROVE  BindLine(mods, key, action, arg) \in S
  <2> HIDE DEF Mods, Keys, Actions
  <2> QED
    BY DEF BindLine
<1> HIDE DEF S
<1>1. /\ BindLine(Super, "q", "exec", 0) \in S /\ BindLine(Super, "e", "exec", 1) \in S
      /\ BindLine(Super, "h", "exec", 2) \in S /\ BindLine(Super, "c", "close", 0) \in S
      /\ BindLine(Super, "v", "togglefloating", 0) \in S
      /\ BindLine(Super, "f", "fullscreen", 0) \in S
      /\ BindLine(SuperShift, "c", "center", 0) \in S
      /\ BindLine(Super, "esc", "quit", 0) \in S
  BY <1>0
<1>2. \A i \in 1..4 : /\ BindLine(Super, Arrows[i], "focus", i - 1) \in S
                      /\ BindLine(SuperShift, Arrows[i], "move", i - 1) \in S
                      /\ BindLine(SuperCtrl, HomeRow[i], "resize", i - 1) \in S
  <2>1. \A i \in 1..4 : Arrows[i] \in Keys /\ HomeRow[i] \in Keys /\ i - 1 \in Nat
    OBVIOUS
  <2>2. Mods = {Super, SuperShift, SuperCtrl} /\ {"focus", "move", "resize"} \subseteq Actions
    OBVIOUS
  <2> HIDE DEF Mods, Keys, Actions
  <2> QED
    BY <1>0, <2>1, <2>2
<1>3. \A i \in 1..10 : BindLine(Super, Digits[i], "workspace", i) \in S
  <2>1. \A i \in 1..10 : Digits[i] \in Keys /\ i \in Nat
    OBVIOUS
  <2>2. Super \in Mods /\ "workspace" \in Actions
    OBVIOUS
  <2> HIDE DEF Mods, Keys, Actions
  <2> QED
    BY <1>0, <2>1, <2>2
<1>4. single \in Seq(S)
  BY <1>1
<1> DEFINE r1 == Row(Super, Arrows, "focus")
           r2 == Row(SuperShift, Arrows, "move")
           r3 == Row(SuperCtrl, HomeRow, "resize")
<1>5. r1 \in [1..4 -> S] /\ r2 \in [1..4 -> S] /\ r3 \in [1..4 -> S] /\ digits \in [1..10 -> S]
  BY <1>2, <1>3
<1>6. config_generate_default = single \o r1 \o r2 \o r3 \o digits
  BY DEF config_generate_default
<1> HIDE DEF single, digits, r1, r2, r3
<1>7. r1 \in Seq(S) /\ r2 \in Seq(S) /\ r3 \in Seq(S) /\ digits \in Seq(S)
  BY <1>5, TableIsSeq
<1>8. config_generate_default \in Seq(S)
  BY <1>4, <1>6, <1>7, ConcatProperties
<1>9. config_generate_default \in Seq(Range(config_generate_default))
  BY <1>8, SeqOfRange
<1> QED
  BY <1>9, SeqMonotonic DEF Written
-----------------------------------------------------------------------------
(* What a line does                                                        *)

\* The lines that ask for a rule, the rule they ask for, and a table with it.
IsDisplay(line) ==
    line.kind = "general" /\ line.key = "output" /\ line.name # "" /\ line.mode # ""

IsWindowRule(line) ==
    /\ line.kind = "windowrule" /\ line.match # ""
    /\ line.action \in WindowActions \/ (line.action = "workspace" /\ line.arg \in 0..10)

Tenth(line) == [line EXCEPT !.arg = IF line.action \in WindowActions THEN 0
                                    ELSE IF @ = 0 THEN 10 ELSE @]

With(rules, rule) == IF Len(rules) < MaxRules THEN Append(rules, rule) ELSE rules

SameRest(conf, next) ==
    next.rules = conf.rules /\ next.kb_layouts = conf.kb_layouts

SameBinds(conf, next) ==
    next.keybinds = conf.keybinds /\ next.has_keybinds = conf.has_keybinds

LEMMA AddBindDoes ==
    ASSUME NEW conf \in Configs, NEW bind \in Binds
    PROVE  /\ add_bind(conf, bind) \in Configs
           /\ add_bind(conf, bind).keybinds = <<bind>> \o conf.keybinds
           /\ add_bind(conf, bind).has_keybinds = TRUE
           /\ SameRest(conf, add_bind(conf, bind))
<1>1. conf.keybinds \in Seq(Binds) /\ <<bind>> \o conf.keybinds \in Seq(Binds)
  BY DEF Configs
<1> DEFINE list == <<bind>> \o conf.keybinds
<1> HIDE DEF list
<1>2. list \in Seq(Binds) /\ add_bind(conf, bind) =
        [conf EXCEPT !.keybinds = list, !.has_keybinds = TRUE]
  BY <1>1 DEF add_bind, list
<1>3. /\ add_bind(conf, bind) \in Configs
      /\ add_bind(conf, bind).keybinds = list
      /\ add_bind(conf, bind).has_keybinds = TRUE
      /\ SameRest(conf, add_bind(conf, bind))
  BY <1>2 DEF Configs, SameRest
<1> QED
  BY <1>3 DEF list

LEMMA AddRuleDoes ==
    ASSUME NEW conf \in Configs, NEW table \in Tables, NEW rule \in Rules
    PROVE  /\ AddRule(conf, table, rule) \in Configs
           /\ SameBinds(conf, AddRule(conf, table, rule))
           /\ AddRule(conf, table, rule).rules[table] = With(conf.rules[table], rule)
           /\ \A t \in Tables \ {table} :
                AddRule(conf, table, rule).rules[t] = conf.rules[t]
<1>1. conf.rules[table] \in Seq(Rules)
  BY DEF Configs
<1> DEFINE list == With(conf.rules[table], rule)
<1>2. list \in Seq(Rules)
  BY <1>1 DEF With
<1> HIDE DEF list
<1>3. AddRule(conf, table, rule) = [conf EXCEPT !.rules = [conf.rules EXCEPT ![table] = list]]
  BY DEF AddRule, list, With, Configs
<1>4. /\ AddRule(conf, table, rule) \in Configs
      /\ SameBinds(conf, AddRule(conf, table, rule))
      /\ AddRule(conf, table, rule).rules[table] = list
      /\ \A t \in Tables \ {table} : AddRule(conf, table, rule).rules[t] = conf.rules[t]
  BY <1>2, <1>3 DEF Configs, SameBinds
<1> QED
  BY <1>4 DEF list

LEMMA TenthIsRule ==
    ASSUME NEW line \in Written, IsWindowRule(line)
    PROVE  Tenth(line) \in Rules
<1>1. \E a \in 0..10 : Tenth(line) = [line EXCEPT !.arg = a]
  <2>1. CASE line.action \in WindowActions
    BY <2>1 DEF Tenth
  <2>2. CASE line.action \notin WindowActions /\ line.arg = 0
    <3>1. Tenth(line) = [line EXCEPT !.arg = 10] /\ 10 \in 0..10
      BY <2>2 DEF Tenth
    <3> QED
      BY <3>1
  <2>3. CASE line.action \notin WindowActions /\ line.arg # 0
    <3>1. Tenth(line) = [line EXCEPT !.arg = line.arg] /\ line.arg \in 0..10
      BY <2>3 DEF Tenth, IsWindowRule
    <3> QED
      BY <3>1
  <2> QED
    BY <2>1, <2>2, <2>3
<1>2. Tenth(line) \in Numbered(line)
  BY <1>1 DEF Numbered
<1> QED
  BY <1>2 DEF Rules

\* Parses(conf, line, next): next is conf after that line.
Parses(conf, line, next) ==
    /\ next \in Configs
    /\ BindsAKey(line) => /\ next.keybinds = <<BindOf(line)>> \o conf.keybinds
                          /\ next.has_keybinds = TRUE
    /\ ~ BindsAKey(line) => SameBinds(conf, next)
    /\ next.rules["output"] = IF IsDisplay(line) THEN With(conf.rules["output"], line)
                              ELSE conf.rules["output"]
    /\ next.rules["windowrule"] =
         IF IsWindowRule(line) THEN With(conf.rules["windowrule"], Tenth(line))
         ELSE conf.rules["windowrule"]

LEMMA LineParses ==
    ASSUME NEW conf \in Configs, NEW line \in Written
    PROVE  Parses(conf, line, parse_config_line(conf, line))
<1> DEFINE next == parse_config_line(conf, line)
<1>0. Parses(conf, line, conf) \/ BindsAKey(line) \/ IsDisplay(line) \/ IsWindowRule(line)
  BY DEF Parses, SameBinds
<1>1. CASE line.kind = "bind"
  <2>1. ~ IsDisplay(line) /\ ~ IsWindowRule(line)
    BY <1>1 DEF IsDisplay, IsWindowRule
  <2>2. CASE BindsAKey(line)
    <3>1. next = add_bind(conf, BindOf(line)) /\ BindOf(line) \in Binds
      BY <1>1, <2>2 DEF parse_config_line, BindOf, Binds
    <3>2. "output" \in Tables /\ "windowrule" \in Tables
      BY DEF Tables
    <3> QED
      BY <2>1, <2>2, <3>1, AddBindDoes DEF Parses, SameRest
  <2>3. CASE ~ BindsAKey(line)
    <3>1. next = conf
      BY <1>1, <2>3 DEF parse_config_line
    <3> QED
      BY <1>0, <2>1, <2>3, <3>1
  <2> QED
    BY <2>2, <2>3
<1>2. CASE line.kind = "general"
  <2>1. ~ BindsAKey(line) /\ ~ IsWindowRule(line) /\ next = parse_general_line(conf, line)
    BY <1>2 DEF BindsAKey, IsWindowRule, parse_config_line
  <2>2. CASE line.key = "kb_layouts"
    <3>1. next = [conf EXCEPT !.kb_layouts = line.value] /\ ~ IsDisplay(line)
      BY <2>1, <2>2 DEF parse_general_line, IsDisplay
    <3>2. next \in Configs /\ SameBinds(conf, next) /\ next.rules = conf.rules
      BY <3>1 DEF Configs, SameBinds
    <3> QED
      BY <2>1, <3>1, <3>2 DEF Parses
  <2>3. CASE IsDisplay(line)
    <3>1. next = AddRule(conf, "output", line)
      BY <2>1, <2>3 DEF parse_general_line, parse_output_line, IsDisplay
    <3>2. "output" \in Tables /\ "windowrule" \in Tables \ {"output"} /\ line \in Rules
      BY DEF Tables, Rules
    <3> QED
      BY <2>1, <2>3, <3>1, <3>2, AddRuleDoes DEF Parses
  <2>4. CASE line.key # "kb_layouts" /\ ~ IsDisplay(line)
    <3>1. next = conf
      BY <1>2, <2>1, <2>4 DEF parse_general_line, parse_output_line, IsDisplay
    <3> QED
      BY <1>0, <2>1, <2>4, <3>1
  <2> QED
    BY <2>2, <2>3, <2>4
<1>3. CASE line.kind = "windowrule"
  <2>1. ~ BindsAKey(line) /\ ~ IsDisplay(line) /\ next = parse_window_rule(conf, line)
    BY <1>3 DEF BindsAKey, IsDisplay, parse_config_line
  <2>2. CASE IsWindowRule(line)
    <3>1. next = AddRule(conf, "windowrule", Tenth(line))
      <4>1. CASE line.action \in WindowActions
        BY <2>1, <2>2, <4>1 DEF parse_window_rule, IsWindowRule, Tenth
      <4>2. CASE line.action \notin WindowActions
        <5>1. line.action = "workspace" /\ line.arg \in 0..10 /\ line.match # ""
          BY <2>2, <4>2 DEF IsWindowRule
        <5>2. CASE line.arg = 0
          <6>1. [line EXCEPT !.arg = 10] = Tenth(line) /\ 10 \in 1..10
            BY <4>2, <5>2 DEF Tenth
          <6> QED
            BY <2>1, <4>2, <5>1, <5>2, <6>1 DEF parse_window_rule
        <5>3. CASE line.arg # 0
          <6>1. \A n \in 0..10 : n # 0 => n \in 1..10
            OBVIOUS
          <6>2. line.arg \in 1..10
            BY <5>1, <5>3, <6>1, Zenon
          <6>3. [line EXCEPT !.arg = line.arg] = Tenth(line)
            BY <4>2, <5>3 DEF Tenth
          <6> QED
            BY <2>1, <4>2, <5>1, <5>3, <6>2, <6>3 DEF parse_window_rule
        <5> QED
          BY <5>2, <5>3
      <4> QED
        BY <4>1, <4>2
    <3>2. Tenth(line) \in Rules
      BY <2>2, TenthIsRule
    <3>3. "windowrule" \in Tables /\ "output" \in Tables \ {"windowrule"}
      BY DEF Tables
    <3> QED
      BY <2>1, <2>2, <3>1, <3>2, <3>3, AddRuleDoes DEF Parses
  <2>3. CASE ~ IsWindowRule(line)
    <3>1. next = conf
      <4>1. CASE line.match = ""
        BY <2>1, <4>1 DEF parse_window_rule
      <4>2. CASE line.match # ""
        <5>1. line.action \notin WindowActions
              /\ (line.action # "workspace" \/ line.arg \notin 0..10)
          BY <1>3, <2>3, <4>2 DEF IsWindowRule
        <5>2. line.arg \notin 0..10 => line.arg # 0 /\ line.arg \notin 1..10
          OBVIOUS
        <5> QED
          BY <2>1, <4>2, <5>1, <5>2 DEF parse_window_rule
      <4> QED
        BY <4>1, <4>2
    <3> QED
      BY <1>0, <2>1, <2>3, <3>1
  <2> QED
    BY <2>2, <2>3
<1>4. CASE line.kind = "exec-once"
  <2>1. ~ BindsAKey(line) /\ ~ IsDisplay(line) /\ ~ IsWindowRule(line)
        /\ next = [conf EXCEPT !.exec_once = <<line.arg>> \o @]
    BY <1>4 DEF BindsAKey, IsDisplay, IsWindowRule, parse_config_line
  <2> DEFINE list == <<line.arg>> \o conf.exec_once
  <2>2. list \in Seq({ln.arg : ln \in Written})
    BY DEF Configs
  <2> HIDE DEF list
  <2>3. next = [conf EXCEPT !.exec_once = list]
    BY <2>1 DEF list, Configs
  <2>4. next \in Configs /\ SameBinds(conf, next) /\ next.rules = conf.rules
    BY <2>2, <2>3 DEF Configs, SameBinds
  <2> QED
    BY <2>1, <2>4 DEF Parses
<1>5. CASE line.kind \in {"blur", "bezier", "animation"}
  <2>1. ~ BindsAKey(line) /\ ~ IsDisplay(line) /\ ~ IsWindowRule(line)
        /\ next = ParseEffectLine(conf, line)
    BY <1>5 DEF BindsAKey, IsDisplay, IsWindowRule, parse_config_line
  <2>2. line.kind \in Tables /\ line \in Rules
        /\ "output" \in Tables \ {line.kind} /\ "windowrule" \in Tables \ {line.kind}
    BY <1>5 DEF Tables, Rules
  <2>3. CASE line.complete
    <3>1. next = AddRule(conf, line.kind, line)
      BY <2>1, <2>3 DEF ParseEffectLine
    <3> QED
      BY <2>1, <2>2, <3>1, AddRuleDoes DEF Parses
  <2>4. CASE ~ line.complete
    <3>1. next = conf
      BY <2>1, <2>4 DEF ParseEffectLine
    <3> QED
      BY <1>0, <2>1, <3>1
  <2> QED
    BY <2>3, <2>4
<1>6. CASE line.kind \notin {"bind", "general", "windowrule", "exec-once",
                             "blur", "bezier", "animation"}
  <2>1. ~ BindsAKey(line) /\ ~ IsDisplay(line) /\ ~ IsWindowRule(line) /\ next = conf
    BY <1>6 DEF BindsAKey, IsDisplay, IsWindowRule, parse_config_line
  <2> QED
    BY <1>0, <2>1
<1> QED
  BY <1>1, <1>2, <1>3, <1>4, <1>5, <1>6
-----------------------------------------------------------------------------
(* The bind that is found first                                            *)

\* What Matches is on "us".
FitsUs(bind, ch) ==
    /\ bind.mods = ch.mods
    /\ \/ bind.code # NoCode /\ bind.code = ch.key
       \/ bind.sym # NoSymbol /\ bind.sym = LayoutSym["us"]["shift" \in ch.mods][ch.key]

Finds(list, ch, bind) ==
    \E i \in 1..Len(list) : /\ list[i] = bind /\ FitsUs(bind, ch)
                            /\ \A j \in 1..i - 1 : ~ FitsUs(list[j], ch)

Misses(list, ch) == \A i \in 1..Len(list) : ~ FitsUs(list[i], ch)

\* What is found is the bind of the greatest number in said.
Says(list, said, binds, ch) ==
    /\ said = {} => Misses(list, ch)
    /\ \A i \in said : (\A j \in said : j <= i) => Finds(list, ch, binds[i])

LEMMA Prepending ==
    ASSUME NEW T, NEW list \in Seq(T), NEW bind \in T
    PROVE  /\ <<bind>> \o list \in Seq(T)
           /\ Len(<<bind>> \o list) = Len(list) + 1
           /\ (<<bind>> \o list)[1] = bind
           /\ \A i \in 1..Len(list) : (<<bind>> \o list)[i + 1] = list[i]
<1>1. <<bind>> \in Seq(T) /\ Len(<<bind>>) = 1 /\ <<bind>>[1] = bind
  OBVIOUS
<1>2. Len(list) \in Nat
  OBVIOUS
<1>3. <<bind>> \o list \in Seq(T) /\ Len(<<bind>> \o list) = 1 + Len(list)
  BY <1>1, ConcatProperties
<1>4. ASSUME NEW i \in 1..Len(list) PROVE (<<bind>> \o list)[i + 1] = list[i]
  <2>1. i + 1 \in 1..1 + Len(list) /\ ~ (i + 1 <= 1) /\ (i + 1) - 1 = i
    BY <1>2
  <2> QED
    BY <1>1, <2>1, ConcatProperties
<1>5. (<<bind>> \o list)[1] = bind
  <2>1. 1 \in 1..1 + Len(list)
    BY <1>2
  <2> QED
    BY <1>1, <2>1, ConcatProperties
<1> QED
  BY <1>2, <1>3, <1>4, <1>5

LEMMA PrependFinds ==
    ASSUME NEW T, NEW list \in Seq(T), NEW bind \in T, NEW ch
    PROVE  /\ FitsUs(bind, ch) => Finds(<<bind>> \o list, ch, bind)
           /\ ~ FitsUs(bind, ch) /\ Misses(list, ch) => Misses(<<bind>> \o list, ch)
           /\ ~ FitsUs(bind, ch)
                => \A b : Finds(list, ch, b) => Finds(<<bind>> \o list, ch, b)
<1> DEFINE longer == <<bind>> \o list
<1>0. Len(list) \in Nat
  OBVIOUS
<1>1. /\ Len(longer) = Len(list) + 1 /\ longer[1] = bind
      /\ \A i \in 1..Len(list) : longer[i + 1] = list[i]
  BY Prepending
<1> HIDE DEF longer
<1>2. ASSUME NEW i \in 1..Len(longer), i # 1
      PROVE  i - 1 \in 1..Len(list) /\ longer[i] = list[i - 1]
  <2>1. i - 1 \in 1..Len(list) /\ (i - 1) + 1 = i
    BY <1>0, <1>1, <1>2
  <2> QED
    BY <1>1, <2>1
<1>3. ASSUME FitsUs(bind, ch) PROVE Finds(longer, ch, bind)
  <2>1. 1 \in 1..Len(longer) /\ 1..1 - 1 = {}
    BY <1>0, <1>1
  <2> QED
    BY <1>1, <1>3, <2>1 DEF Finds
<1>4. ASSUME ~ FitsUs(bind, ch), Misses(list, ch) PROVE Misses(longer, ch)
  BY <1>1, <1>2, <1>4 DEF Misses
<1>5. ASSUME ~ FitsUs(bind, ch), NEW b, Finds(list, ch, b) PROVE Finds(longer, ch, b)
  <2>1. PICK i \in 1..Len(list) : /\ list[i] = b /\ FitsUs(b, ch)
                                  /\ \A j \in 1..i - 1 : ~ FitsUs(list[j], ch)
    BY <1>5 DEF Finds
  <2>2. i + 1 \in 1..Len(longer) /\ longer[i + 1] = b /\ (i + 1) - 1 = i
    BY <1>0, <1>1, <2>1
  <2>3. ASSUME NEW j \in 1..i PROVE ~ FitsUs(longer[j], ch)
    <3>1. CASE j = 1
      BY <1>1, <1>5, <3>1
    <3>2. CASE j # 1
      <4>1. j \in 1..Len(longer) /\ j - 1 \in 1..i - 1
        BY <1>0, <1>1, <3>2
      <4> QED
        BY <1>2, <2>1, <3>2, <4>1
    <3> QED
      BY <3>1, <3>2
  <2> QED
    BY <2>1, <2>2, <2>3 DEF Finds
<1> QED
  BY <1>3, <1>4, <1>5 DEF longer

LEMMA SaysMore ==
    ASSUME NEW T, NEW list \in Seq(T), NEW n \in Nat, NEW said, said \subseteq 0..n - 1,
           NEW binds, binds[n] \in T, NEW ch, Says(list, said, binds, ch)
    PROVE  /\ FitsUs(binds[n], ch)
                => Says(<<binds[n]>> \o list, said \cup {n}, binds, ch)
           /\ ~ FitsUs(binds[n], ch) => Says(<<binds[n]>> \o list, said, binds, ch)
<1> DEFINE longer == <<binds[n]>> \o list
<1>1. /\ FitsUs(binds[n], ch) => Finds(longer, ch, binds[n])
      /\ ~ FitsUs(binds[n], ch) /\ Misses(list, ch) => Misses(longer, ch)
      /\ ~ FitsUs(binds[n], ch) => \A b : Finds(list, ch, b) => Finds(longer, ch, b)
  BY PrependFinds
<1> HIDE DEF longer
<1>2. ASSUME FitsUs(binds[n], ch) PROVE Says(longer, said \cup {n}, binds, ch)
  <2>1. ASSUME NEW i \in said \cup {n}, \A j \in said \cup {n} : j <= i PROVE i = n
    <3>1. n <= i /\ (i \in said => i <= n - 1 /\ i \in Nat)
      BY <2>1
    <3> QED
      BY <3>1
  <2> QED
    BY <1>1, <1>2, <2>1 DEF Says
<1>3. ASSUME ~ FitsUs(binds[n], ch) PROVE Says(longer, said, binds, ch)
  BY <1>1, <1>3 DEF Says
<1> QED
  BY <1>2, <1>3 DEF longer
-----------------------------------------------------------------------------
(* The rules for which there is room                                       *)

LEMMA WithFirst ==
    ASSUME NEW T, NEW rules \in Seq(T), NEW n \in Nat, NEW good, good \subseteq 0..n - 1,
           NEW asked, asked[n] \in T, AreFirst(rules, good, asked)
    PROVE  AreFirst(With(rules, asked[n]), good \cup {n}, asked)
<1>0. Len(rules) \in Nat /\ DOMAIN rules = 1..Len(rules) /\ MaxRules \in Nat
  BY ConfigAssumption
<1>1. PICK at \in [DOMAIN rules -> good] :
        /\ \A m \in DOMAIN rules : rules[m] = asked[at[m]]
        /\ \A m, k \in DOMAIN rules : m < k => at[m] < at[k]
        /\ \A m \in DOMAIN rules, i \in good :
              i < at[m] => \E k \in DOMAIN rules : at[k] = i
        /\ Len(rules) < MaxRules =>
              \A i \in good : \E k \in DOMAIN rules : at[k] = i
  BY Zenon DEF AreFirst
<1>2. \A m \in DOMAIN rules : at[m] \in good /\ at[m] \in Nat /\ at[m] < n
  <2>1. \A i \in 0..n - 1 : i \in Nat /\ i < n
    OBVIOUS
  <2> QED
    BY <1>1, <2>1
<1>3. CASE Len(rules) < MaxRules
  <2> DEFINE more == Append(rules, asked[n])
             there == [m \in 1..Len(rules) + 1 |-> IF m = Len(rules) + 1 THEN n ELSE at[m]]
  <2>1. /\ With(rules, asked[n]) = more
        /\ Len(more) = Len(rules) + 1 /\ DOMAIN more = 1..Len(rules) + 1
        /\ more[Len(rules) + 1] = asked[n]
        /\ \A m \in DOMAIN rules : more[m] = rules[m]
    BY <1>0, <1>3 DEF With
  <2>2. \A m \in 1..Len(rules) + 1 : m \in DOMAIN rules \/ m = Len(rules) + 1
    BY <1>0
  <2>3. there \in [DOMAIN more -> good \cup {n}]
    <3>1. \A m \in 1..Len(rules) + 1 :
            (IF m = Len(rules) + 1 THEN n ELSE at[m]) \in good \cup {n}
      BY <1>2, <2>2
    <3> QED
      BY <2>1, <3>1
  <2>4. there[Len(rules) + 1] = n /\ \A m \in DOMAIN rules : there[m] = at[m]
    BY <1>0
  <2>5. Len(rules) + 1 \in DOMAIN more /\ DOMAIN rules \subseteq DOMAIN more
        /\ Len(rules) + 1 \notin DOMAIN rules
    BY <1>0, <2>1
  <2> HIDE DEF there, more
  <2>6. \A m \in DOMAIN more : more[m] = asked[there[m]]
    BY <1>1, <2>1, <2>2, <2>4
  <2>7. ASSUME NEW m \in DOMAIN more, NEW k \in DOMAIN more, m < k
        PROVE  there[m] < there[k]
    <3>1. m \in DOMAIN rules
      BY <1>0, <2>1, <2>7
    <3>2. CASE k \in DOMAIN rules
      BY <1>1, <2>4, <2>7, <3>1, <3>2
    <3>3. CASE k = Len(rules) + 1
      BY <1>2, <2>4, <3>1, <3>3
    <3> QED
      BY <2>1, <2>2, <3>2, <3>3
  <2>8. ASSUME NEW i \in good \cup {n} PROVE \E k \in DOMAIN more : there[k] = i
    <3>1. CASE i = n
      BY <2>4, <2>5, <3>1
    <3>2. CASE i \in good
      BY <1>1, <1>3, <2>4, <2>5, <3>2
    <3> QED
      BY <3>1, <3>2
  <2> QED
    <3>1. AreFirst(more, good \cup {n}, asked)
      BY <2>3, <2>6, <2>7, <2>8 DEF AreFirst
    <3> QED
      BY <2>1, <3>1
<1>4. CASE ~ (Len(rules) < MaxRules)
  <2>1. With(rules, asked[n]) = rules
    BY <1>4 DEF With
  <2>2. at \in [DOMAIN rules -> good \cup {n}]
    BY <1>1
  <2>3. ASSUME NEW m \in DOMAIN rules, NEW i \in good \cup {n}, i < at[m]
        PROVE  \E k \in DOMAIN rules : at[k] = i
    <3>1. i # n
      BY <1>2, <2>3
    <3> QED
      BY <1>1, <2>3, <3>1
  <2>4. AreFirst(rules, good \cup {n}, asked)
    BY <1>1, <1>4, <2>2, <2>3 DEF AreFirst
  <2> QED
    BY <2>1, <2>4
<1> QED
  BY <1>3, <1>4

\* Only what the good lines ask for matters.
LEMMA FirstOfThese ==
    ASSUME NEW rules, NEW good, NEW asked, NEW other,
           \A i \in good : asked[i] = other[i], AreFirst(rules, good, asked)
    PROVE  AreFirst(rules, good, other)
<1>1. PICK at \in [DOMAIN rules -> good] :
        /\ \A m \in DOMAIN rules : rules[m] = asked[at[m]]
        /\ \A m, k \in DOMAIN rules : m < k => at[m] < at[k]
        /\ \A m \in DOMAIN rules, i \in good :
              i < at[m] => \E k \in DOMAIN rules : at[k] = i
        /\ Len(rules) < MaxRules =>
              \A i \in good : \E k \in DOMAIN rules : at[k] = i
  BY Zenon DEF AreFirst
<1>2. \A m \in DOMAIN rules : rules[m] = other[at[m]]
  BY <1>1
<1> QED
  BY <1>1, <1>2 DEF AreFirst
-----------------------------------------------------------------------------
(* The file is read                                                        *)

\* The lines up to the n-th that bind a chord, or that bind anything.
BindLines(file, n) == {i \in 1..n : BindsAKey(file[i])}
Saying(file, n, ch) == {i \in BindLines(file, n) : FitsUs(BindOf(file[i]), ch)}

Displays(file, n) == {i \in 1..n : IsDisplay(file[i])}
WindowRules(file, n) == {i \in 1..n : IsWindowRule(file[i])}

\* What each line of the file asks for.
BindsOf(file) == [i \in 1..Len(file) |-> BindOf(file[i])]
Tenths(file) == [i \in 1..Len(file) |-> Tenth(file[i])]

\* The configuration after the first n lines of the file.
IsRead(file, n, conf) ==
    /\ conf \in Configs
    /\ BindLines(file, n) # {} => conf.has_keybinds
    /\ BindLines(file, n) = {} => ~ conf.has_keybinds /\ conf.keybinds = <<>>
    /\ \A ch \in Chords : Says(conf.keybinds, Saying(file, n, ch), BindsOf(file), ch)
    /\ AreFirst(conf.rules["output"], Displays(file, n), file)
    /\ AreFirst(conf.rules["windowrule"], WindowRules(file, n), Tenths(file))

\* Where nothing was asked for no rule is.
LEMMA NoneFirst ==
    ASSUME NEW asked PROVE AreFirst(<<>>, {}, asked)
<1>1. DOMAIN <<>> = {}
  OBVIOUS
<1>2. [m \in {} |-> 0] \in [DOMAIN <<>> -> {}]
  BY <1>1
<1> QED
  BY <1>1, <1>2 DEF AreFirst

LEMMA NothingRead ==
    ASSUME NEW file \in Seq(Written)
    PROVE  IsRead(file, 0, config_init_defaults)
<1> DEFINE conf == config_init_defaults
<1>1. conf \in Configs /\ conf.keybinds = <<>> /\ conf.has_keybinds = FALSE
      /\ conf.rules["output"] = <<>> /\ conf.rules["windowrule"] = <<>>
  <2>1. <<>> \in Seq(Binds) /\ <<>> \in Seq(Rules) /\ <<>> \in Seq({line.arg : line \in Written})
    OBVIOUS
  <2> QED
    BY <2>1 DEF config_init_defaults, Configs, Tables
<1> HIDE DEF conf
<1>2. BindLines(file, 0) = {} /\ Displays(file, 0) = {} /\ WindowRules(file, 0) = {}
      /\ \A ch \in Chords : Saying(file, 0, ch) = {}
  BY DEF BindLines, Displays, WindowRules, Saying
<1>3. \A ch \in Chords : Says(conf.keybinds, {}, BindsOf(file), ch)
  BY <1>1 DEF Says, Misses
<1>4. IsRead(file, 0, conf)
  BY <1>1, <1>2, <1>3, NoneFirst DEF IsRead
<1> QED
  BY <1>4 DEF conf

LEMMA LineRead ==
    ASSUME NEW file \in Seq(Written), NEW n \in 1..Len(file), NEW conf,
           IsRead(file, n - 1, conf)
    PROVE  IsRead(file, n, parse_config_line(conf, file[n]))
<1> DEFINE line == file[n]
           next == parse_config_line(conf, file[n])
<1>0. n \in Nat /\ n - 1 \in Nat /\ 1..n = (1..n - 1) \cup {n}
      /\ 1..n - 1 \subseteq 0..n - 1 /\ n \notin 1..n - 1
  <2>1. Len(file) \in Nat
    OBVIOUS
  <2> QED
    BY <2>1
<1>1. line \in Written /\ conf \in Configs
  BY ElementOfSeq DEF IsRead
<1>2. Parses(conf, line, next)
  BY <1>1, LineParses
<1>3. BindsOf(file)[n] = BindOf(line) /\ BindOf(line) \in Binds /\ conf.keybinds \in Seq(Binds)
  BY <1>1 DEF BindsOf, Binds, Configs
<1> HIDE DEF next, line
<1>4. BindLines(file, n) = IF BindsAKey(line) THEN BindLines(file, n - 1) \cup {n}
                           ELSE BindLines(file, n - 1)
  BY <1>0 DEF BindLines, line
<1>5. BindLines(file, n) # {} => next.has_keybinds
  BY <1>2, <1>4 DEF Parses, IsRead, SameBinds
<1>6. BindLines(file, n) = {} => ~ next.has_keybinds /\ next.keybinds = <<>>
  BY <1>2, <1>4 DEF Parses, IsRead, SameBinds
<1>7. ASSUME NEW ch \in Chords
      PROVE  Says(next.keybinds, Saying(file, n, ch), BindsOf(file), ch)
  <2> DEFINE before == Saying(file, n - 1, ch)
  <2>1. Says(conf.keybinds, before, BindsOf(file), ch) /\ before \subseteq 0..n - 1
    BY <1>0 DEF IsRead, Saying, BindLines
  <2>2. Saying(file, n, ch) = IF BindsAKey(line) /\ FitsUs(BindOf(line), ch)
                              THEN before \cup {n} ELSE before
    BY <1>0 DEF Saying, BindLines, line
  <2> HIDE DEF before
  <2> DEFINE binds == BindsOf(file)
             list == conf.keybinds
  <2>3. binds[n] = BindOf(line) /\ binds[n] \in Binds /\ list \in Seq(Binds)
        /\ Says(list, before, binds, ch)
    BY <1>3, <2>1
  <2> HIDE DEF binds, list
  <2>4. /\ FitsUs(binds[n], ch) => Says(<<binds[n]>> \o list, before \cup {n}, binds, ch)
        /\ ~ FitsUs(binds[n], ch) => Says(<<binds[n]>> \o list, before, binds, ch)
    BY <1>0, <2>1, <2>3, SaysMore
  <2>5. CASE BindsAKey(line)
    <3>1. next.keybinds = <<binds[n]>> \o list
      BY <1>2, <2>3, <2>5 DEF Parses, list
    <3> QED
      BY <2>2, <2>3, <2>4, <2>5, <3>1 DEF binds
  <2>6. CASE ~ BindsAKey(line)
    <3>1. next.keybinds = list
      BY <1>2, <2>6 DEF Parses, SameBinds, list
    <3> QED
      BY <2>2, <2>3, <2>6, <3>1 DEF binds
  <2> QED
    BY <2>5, <2>6
<1>8. AreFirst(next.rules["output"], Displays(file, n), file)
  <2> DEFINE rules == conf.rules["output"]
             good == Displays(file, n - 1)
  <2>1. AreFirst(rules, good, file) /\ good \subseteq 0..n - 1
    BY <1>0 DEF IsRead, Displays
  <2>2. rules \in Seq(Rules) /\ file[n] \in Rules
    BY <1>1 DEF Configs, Tables, Rules, line
  <2>3. Displays(file, n) = IF IsDisplay(line) THEN good \cup {n} ELSE good
    BY <1>0 DEF Displays, line
  <2>4. next.rules["output"] = IF IsDisplay(line) THEN With(rules, file[n]) ELSE rules
    BY <1>2 DEF Parses, line
  <2> HIDE DEF rules, good
  <2>5. AreFirst(With(rules, file[n]), good \cup {n}, file)
    BY <1>0, <2>1, <2>2, WithFirst
  <2> QED
    BY <2>1, <2>3, <2>4, <2>5
<1>9. AreFirst(next.rules["windowrule"], WindowRules(file, n), Tenths(file))
  <2> DEFINE rules == conf.rules["windowrule"]
             good == WindowRules(file, n - 1)
             asked == Tenths(file)
  <2>1. AreFirst(rules, good, asked) /\ good \subseteq 0..n - 1
    BY <1>0 DEF IsRead, WindowRules
  <2>2. rules \in Seq(Rules) /\ asked[n] = Tenth(line)
    BY <1>1 DEF Configs, Tables, Tenths, line
  <2>3. WindowRules(file, n) = IF IsWindowRule(line) THEN good \cup {n} ELSE good
    BY <1>0 DEF WindowRules, line
  <2>4. next.rules["windowrule"] = IF IsWindowRule(line) THEN With(rules, Tenth(line)) ELSE rules
    BY <1>2 DEF Parses
  <2> HIDE DEF rules, good, asked
  <2>5. CASE IsWindowRule(line)
    <3>1. asked[n] \in Rules
      BY <1>1, <2>2, <2>5, TenthIsRule
    <3>2. AreFirst(With(rules, asked[n]), good \cup {n}, asked)
      BY <1>0, <2>1, <2>2, <3>1, WithFirst
    <3> QED
      BY <2>2, <2>3, <2>4, <2>5, <3>2 DEF asked
  <2>6. CASE ~ IsWindowRule(line)
    BY <2>1, <2>3, <2>4, <2>6 DEF asked
  <2> QED
    BY <2>5, <2>6
<1> QED
  BY <1>2, <1>5, <1>6, <1>7, <1>8, <1>9 DEF IsRead, Parses, next

LEMMA FileRead ==
    ASSUME NEW file \in Seq(Written)
    PROVE  IsRead(file, Len(file), config_load_file(config_init_defaults, file))
<1> DEFINE start == config_init_defaults
           step == [p \in (1..Len(file)) \X Configs |-> parse_config_line(p[2], file[p[1]])]
<1>1. start \in Configs
  BY NothingRead DEF IsRead
<1>2. step \in [(1..Len(file)) \X Configs -> Configs]
  <2>1. ASSUME NEW p \in (1..Len(file)) \X Configs
        PROVE  parse_config_line(p[2], file[p[1]]) \in Configs
    <3>1. p[2] \in Configs /\ file[p[1]] \in Written
      BY ElementOfSeq
    <3> QED
      BY <3>1, LineParses DEF Parses
  <2> QED
    BY <2>1
<1>3. \A n \in 1..Len(file), conf \in Configs :
        step[<<n, conf>>] = parse_config_line(conf, file[n])
  OBVIOUS
<1>4. Len(file) \in Nat
  OBVIOUS
<1> HIDE DEF start, step
<1>5. PICK f : Turns(Configs, Len(file), step, start, f)
  BY <1>1, <1>2, <1>4, Iterates
<1> DEFINE IsLoop(g) == g = [n \in 0..Len(file) |->
                               IF n = 0 THEN start ELSE parse_config_line(g[n - 1], file[n])]
<1>6. IsLoop(f)
  <2>1. f = [n \in 0..Len(file) |-> f[n]]
    BY <1>5 DEF Turns
  <2>2. ASSUME NEW n \in 0..Len(file)
        PROVE  f[n] = IF n = 0 THEN start ELSE parse_config_line(f[n - 1], file[n])
    <3>1. CASE n = 0
      BY <1>5, <3>1 DEF Turns
    <3>2. CASE n # 0
      <4>1. n \in 1..Len(file) /\ n - 1 \in 0..Len(file)
        BY <1>4, <3>2
      <4>2. f[n - 1] \in Configs /\ f[n] = step[<<n, f[n - 1]>>]
        BY <1>5, <4>1 DEF Turns
      <4> QED
        BY <1>3, <3>2, <4>1, <4>2
    <3> QED
      BY <3>1, <3>2
  <2> QED
    BY <2>1, <2>2
<1> DEFINE after == CHOOSE g : IsLoop(g)
<1>7. IsLoop(after)
  <2>1. \E g : IsLoop(g)
    BY <1>6
  <2> HIDE DEF IsLoop
  <2> QED
    BY <2>1
<1>8. config_load_file(start, file) = after[Len(file)]
  BY DEF config_load_file
<1> HIDE DEF after
<1>9. after[0] = start
      /\ \A n \in 1..Len(file) : after[n] = parse_config_line(after[n - 1], file[n])
  BY <1>4, <1>7
<1> DEFINE T == {n \in 0..Len(file) : IsRead(file, n, after[n])}
<1>10. 0 \in T
  <2>1. IsRead(file, 0, after[0])
    BY <1>9, NothingRead DEF start
  <2> QED
    BY <1>4, <2>1
<1>11. ASSUME NEW n \in 1..Len(file), n - 1 \in T PROVE n \in T
  <2>1. IsRead(file, n, parse_config_line(after[n - 1], file[n]))
    BY <1>11, LineRead
  <2>2. IsRead(file, n, after[n]) /\ n \in 0..Len(file)
    BY <1>4, <1>9, <2>1
  <2> QED
    BY <2>2
<1>12. \A n \in 0..Len(file) : n \in T
  <2> HIDE DEF T
  <2> QED
    BY <1>4, <1>10, <1>11, CountUp
<1> QED
  BY <1>4, <1>8, <1>12 DEF start
-----------------------------------------------------------------------------
(* The defaults                                                            *)

DefaultsSaying(n, ch) == {i \in 1..n : FitsUs(DefaultBinds[i], ch)}

\* The configuration after the first n binds of the table of defaults, where
\* there was none before.
HasDefaults(n, conf, next) ==
    /\ next \in Configs /\ SameRest(conf, next)
    /\ \A ch \in Chords : Says(next.keybinds, DefaultsSaying(n, ch), DefaultBinds, ch)

LEMMA NoDefaultYet ==
    ASSUME NEW conf \in Configs, conf.keybinds = <<>>
    PROVE  HasDefaults(0, conf, conf)
BY DEF HasDefaults, SameRest, Says, Misses, DefaultsSaying

LEMMA DefaultAdded ==
    ASSUME NEW conf, NEW n \in 1..Len(DefaultBinds), NEW next, HasDefaults(n - 1, conf, next)
    PROVE  HasDefaults(n, conf, add_bind(next, DefaultBinds[n]))
<1> DEFINE more == add_bind(next, DefaultBinds[n])
<1>0. n \in Nat /\ 1..n = (1..n - 1) \cup {n} /\ 1..n - 1 \subseteq 0..n - 1
  <2>1. Len(DefaultBinds) \in Nat
    BY DefaultsAreBinds
  <2> QED
    BY <2>1
<1>1. DefaultBinds[n] \in Binds /\ next \in Configs /\ next.keybinds \in Seq(Binds)
  BY DefaultsAreBinds, ElementOfSeq DEF HasDefaults, Configs
<1>2. more \in Configs /\ more.keybinds = <<DefaultBinds[n]>> \o next.keybinds
      /\ SameRest(next, more)
  BY <1>1, AddBindDoes
<1> HIDE DEF more
<1>3. SameRest(conf, more)
  BY <1>2 DEF HasDefaults, SameRest
<1>4. ASSUME NEW ch \in Chords
      PROVE  Says(more.keybinds, DefaultsSaying(n, ch), DefaultBinds, ch)
  <2> DEFINE before == DefaultsSaying(n - 1, ch)
             list == next.keybinds
  <2>1. Says(list, before, DefaultBinds, ch) /\ before \subseteq 0..n - 1
        /\ list \in Seq(Binds)
    BY <1>0, <1>1 DEF HasDefaults, DefaultsSaying
  <2>2. DefaultsSaying(n, ch) = IF FitsUs(DefaultBinds[n], ch) THEN before \cup {n} ELSE before
    BY <1>0 DEF DefaultsSaying
  <2>3. more.keybinds = <<DefaultBinds[n]>> \o list
    BY <1>2
  <2> HIDE DEF before, list
  <2>4. /\ FitsUs(DefaultBinds[n], ch)
             => Says(<<DefaultBinds[n]>> \o list, before \cup {n}, DefaultBinds, ch)
        /\ ~ FitsUs(DefaultBinds[n], ch)
             => Says(<<DefaultBinds[n]>> \o list, before, DefaultBinds, ch)
    BY <1>0, <1>1, <2>1, SaysMore
  <2> QED
    BY <2>2, <2>3, <2>4
<1> QED
  BY <1>2, <1>3, <1>4 DEF HasDefaults, more

LEMMA DefaultsAdded ==
    ASSUME NEW conf \in Configs, ~ conf.has_keybinds, conf.keybinds = <<>>
    PROVE  HasDefaults(Len(DefaultBinds), conf, config_load_default_keybinds(conf))
<1> DEFINE m == Len(DefaultBinds)
           step == [p \in (1..m) \X Configs |-> add_bind(p[2], DefaultBinds[p[1]])]
<1>1. m \in Nat
  BY DefaultsAreBinds
<1>2. step \in [(1..m) \X Configs -> Configs]
  <2>1. ASSUME NEW p \in (1..m) \X Configs PROVE add_bind(p[2], DefaultBinds[p[1]]) \in Configs
    <3>1. p[2] \in Configs /\ DefaultBinds[p[1]] \in Binds
      BY DefaultsAreBinds, ElementOfSeq
    <3> QED
      BY <3>1, AddBindDoes
  <2> QED
    BY <2>1
<1>3. \A n \in 1..m, c \in Configs : step[<<n, c>>] = add_bind(c, DefaultBinds[n])
  OBVIOUS
<1> HIDE DEF step
<1> DEFINE IsLoop(g) == g = [n \in 0..m |->
                               IF n = 0 THEN conf ELSE add_bind(g[n - 1], DefaultBinds[n])]
           after == CHOOSE g : IsLoop(g)
<1>4. config_load_default_keybinds(conf) = after[m]
  BY DEF config_load_default_keybinds
<1> HIDE DEF m
<1>5. PICK f : Turns(Configs, m, step, conf, f)
  BY <1>1, <1>2, Iterates
<1>6. IsLoop(f)
  <2>1. f = [n \in 0..m |-> f[n]]
    BY <1>5 DEF Turns
  <2>2. ASSUME NEW n \in 0..m
        PROVE  f[n] = IF n = 0 THEN conf ELSE add_bind(f[n - 1], DefaultBinds[n])
    <3>1. CASE n = 0
      BY <1>5, <3>1 DEF Turns
    <3>2. CASE n # 0
      <4>1. n \in 1..m /\ n - 1 \in 0..m
        BY <1>1, <3>2
      <4>2. f[n - 1] \in Configs /\ f[n] = step[<<n, f[n - 1]>>]
        BY <1>5, <4>1 DEF Turns
      <4> QED
        BY <1>3, <3>2, <4>1, <4>2
    <3> QED
      BY <3>1, <3>2
  <2> QED
    BY <2>1, <2>2
<1>7. IsLoop(after)
  <2>1. \E g : IsLoop(g)
    BY <1>6
  <2> HIDE DEF IsLoop
  <2> QED
    BY <2>1
<1> HIDE DEF after
<1>8. after[0] = conf /\ \A n \in 1..m : after[n] = add_bind(after[n - 1], DefaultBinds[n])
  BY <1>1, <1>7
<1> DEFINE T == {n \in 0..m : HasDefaults(n, conf, after[n])}
<1>9. 0 \in T
  BY <1>1, <1>8, NoDefaultYet
<1>10. ASSUME NEW n \in 1..m, n - 1 \in T PROVE n \in T
  <2>1. HasDefaults(n, conf, add_bind(after[n - 1], DefaultBinds[n]))
    BY <1>10, DefaultAdded DEF m
  <2>2. HasDefaults(n, conf, after[n]) /\ n \in 0..m
    BY <1>1, <1>8, <2>1
  <2> QED
    BY <2>2
<1>11. \A n \in 0..m : n \in T
  <2> HIDE DEF T
  <2> QED
    BY <1>1, <1>9, <1>10, CountUp
<1>12. HasDefaults(m, conf, after[m])
  BY <1>1, <1>11
<1> QED
  BY <1>4, <1>12 DEF m
-----------------------------------------------------------------------------
(* The digits                                                              *)

DigitBinds == [i \in 1..10 |-> DigitBind(i)]
DigitsSaying(id, ch) == {i \in 1..id : FitsUs(DigitBind(i), ch)}

\* The configuration after the first id digits: what was found before is found
\* still, and where nothing was found a digit is.
HasDigits(id, conf, next) ==
    /\ next \in Configs /\ SameRest(conf, next)
    /\ \A ch \in Chords :
         /\ \A bind : Finds(conf.keybinds, ch, bind) => Finds(next.keybinds, ch, bind)
         /\ Misses(conf.keybinds, ch)
              => Says(next.keybinds, DigitsSaying(id, ch), DigitBinds, ch)

LEMMA DigitsDiffer ==
    /\ \A i, j \in 1..10 : Digits[i] = Digits[j] => i = j
    /\ \A i \in 1..10 : Digits[i] \notin {"esc", "escape", NoCode, NoSymbol}
BY DEF Digits, NoCode, NoSymbol

\* What has_super_keybind looks for.
Claims(bind, id) ==
    /\ bind.mods = Super
    /\ \/ bind.code # NoCode /\ bind.code = Digits[id]
       \/ bind.sym # NoSymbol /\ bind.sym = Digits[id]

LEMMA DigitFits ==
    ASSUME NEW ch \in Chords, NEW id \in 1..10
    PROVE  /\ FitsUs(DigitBind(id), ch) <=> ch.mods = Super /\ ch.key = Digits[id]
           /\ FitsUs(DigitBind(id), ch)
                => \A bind : FitsUs(bind, ch) <=> Claims(bind, id)
<1>1. "shift" \notin Super
  BY DEF Super
<1>2. ch.mods = Super => LayoutSym["us"]["shift" \in ch.mods][ch.key]
                           = IF ch.key = "esc" THEN "escape" ELSE ch.key
  BY <1>1, UsAssumption
<1>3. Digits[id] \notin {"esc", "escape", NoCode, NoSymbol}
  BY DigitsDiffer
<1>4. /\ DigitBind(id).mods = Super /\ DigitBind(id).code = Digits[id]
      /\ DigitBind(id).sym = Digits[id]
  BY DEF DigitBind, Bind
<1>5. FitsUs(DigitBind(id), ch) <=> ch.mods = Super /\ ch.key = Digits[id]
  BY <1>2, <1>3, <1>4 DEF FitsUs
<1>6. ASSUME ch.mods = Super, ch.key = Digits[id], NEW bind
      PROVE  FitsUs(bind, ch) <=> Claims(bind, id)
  BY <1>2, <1>3, <1>6 DEF FitsUs, Claims
<1> QED
  BY <1>5, <1>6

LEMMA NoDigitYet ==
    ASSUME NEW conf \in Configs
    PROVE  HasDigits(0, conf, conf)
BY DEF HasDigits, SameRest, Says, DigitsSaying

LEMMA AddDigitTyped ==
    ASSUME NEW conf \in Configs, NEW id \in 1..10
    PROVE  AddDigit(conf, id) \in Configs
<1>1. DigitBind(id) \in Binds
  BY DEF Binds
<1> QED
  BY <1>1, AddBindDoes DEF AddDigit, DigitBind

LEMMA DigitAdded ==
    ASSUME NEW conf, NEW id \in 1..10, NEW next, HasDigits(id - 1, conf, next)
    PROVE  HasDigits(id, conf, AddDigit(next, id))
<1> DEFINE more == AddDigit(next, id)
           list == next.keybinds
           digit == DigitBind(id)
<1>0. id \in Nat /\ 1..id = (1..id - 1) \cup {id} /\ 1..id - 1 \subseteq 0..id - 1
      /\ id \notin 1..id - 1 /\ 1..id - 1 \subseteq 1..10
  OBVIOUS
<1>1. digit \in Binds /\ DigitBinds[id] = digit /\ next \in Configs /\ list \in Seq(Binds)
  BY DEF Binds, DigitBinds, HasDigits, Configs
<1>2. has_super_keybind(next, Digits[id], Digits[id])
        <=> \E i \in 1..Len(list) : Claims(list[i], id)
  <2>1. Range(list) = {list[i] : i \in 1..Len(list)}
    BY <1>1 DEF Range
  <2> QED
    BY <2>1 DEF has_super_keybind, Claims
<1>3. CASE has_super_keybind(next, Digits[id], Digits[id])
  <2>1. more = next
    BY <1>3 DEF AddDigit
  <2>2. ASSUME NEW ch \in Chords, Misses(conf.keybinds, ch)
        PROVE  Says(list, DigitsSaying(id, ch), DigitBinds, ch)
    <3>1. Says(list, DigitsSaying(id - 1, ch), DigitBinds, ch)
      BY <2>2 DEF HasDigits
    <3>2. CASE FitsUs(digit, ch)
      <4>1. DigitsSaying(id - 1, ch) = {}
        <5>1. ASSUME NEW i \in 1..id - 1, FitsUs(DigitBind(i), ch) PROVE FALSE
          <6>1. i \in 1..10 /\ i # id
            BY <1>0
          <6>2. ch.key = Digits[i] /\ ch.key = Digits[id]
            BY <3>2, <5>1, <6>1, DigitFits
          <6> QED
            BY <6>1, <6>2, DigitsDiffer
        <5> QED
          BY <5>1 DEF DigitsSaying
      <4>2. Misses(list, ch)
        BY <3>1, <4>1 DEF Says
      <4>3. PICK i \in 1..Len(list) : Claims(list[i], id)
        BY <1>2, <1>3
      <4>4. FitsUs(list[i], ch)
        BY <3>2, <4>3, DigitFits
      <4> QED
        BY <4>2, <4>4 DEF Misses
    <3>3. CASE ~ FitsUs(digit, ch)
      <4>1. DigitsSaying(id, ch) = DigitsSaying(id - 1, ch)
        BY <1>0, <3>3 DEF DigitsSaying
      <4> QED
        BY <3>1, <4>1
    <3> QED
      BY <3>2, <3>3
  <2> QED
    BY <2>1, <2>2 DEF HasDigits
<1>4. CASE ~ has_super_keybind(next, Digits[id], Digits[id])
  <2>1. more = add_bind(next, digit)
    BY <1>4 DEF AddDigit, DigitBind
  <2>2. more \in Configs /\ more.keybinds = <<digit>> \o list /\ SameRest(next, more)
    BY <1>1, <2>1, AddBindDoes
  <2>3. SameRest(conf, more)
    BY <2>2 DEF HasDigits, SameRest
  <2> HIDE DEF more, list, digit
  <2>4. ASSUME NEW ch \in Chords, NEW bind, Finds(conf.keybinds, ch, bind)
        PROVE  Finds(more.keybinds, ch, bind)
    <3>1. Finds(list, ch, bind)
      BY <2>4 DEF HasDigits, list
    <3>2. ~ FitsUs(digit, ch)
      <4>1. SUFFICES ASSUME FitsUs(digit, ch) PROVE FALSE
        OBVIOUS
      <4>2. PICK i \in 1..Len(list) : list[i] = bind /\ FitsUs(bind, ch)
        BY <3>1 DEF Finds
      <4>3. Claims(list[i], id)
        BY <4>1, <4>2, DigitFits DEF digit
      <4> QED
        BY <1>2, <1>4, <4>3
    <3> QED
      BY <1>1, <2>2, <3>1, <3>2, PrependFinds
  <2>5. ASSUME NEW ch \in Chords, Misses(conf.keybinds, ch)
        PROVE  Says(more.keybinds, DigitsSaying(id, ch), DigitBinds, ch)
    <3> DEFINE before == DigitsSaying(id - 1, ch)
    <3>1. Says(list, before, DigitBinds, ch) /\ before \subseteq 0..id - 1
      BY <1>0, <2>5 DEF HasDigits, DigitsSaying, list
    <3>2. DigitsSaying(id, ch) = IF FitsUs(digit, ch) THEN before \cup {id} ELSE before
      BY <1>0 DEF DigitsSaying, digit
    <3> HIDE DEF before
    <3>3. /\ FitsUs(DigitBinds[id], ch)
               => Says(<<DigitBinds[id]>> \o list, before \cup {id}, DigitBinds, ch)
          /\ ~ FitsUs(DigitBinds[id], ch)
               => Says(<<DigitBinds[id]>> \o list, before, DigitBinds, ch)
      BY <1>0, <1>1, <3>1, SaysMore
    <3> QED
      BY <1>1, <2>2, <3>2, <3>3
  <2>6. HasDigits(id, conf, more)
    BY <2>2, <2>3, <2>4, <2>5 DEF HasDigits
  <2> QED
    BY <2>6 DEF more
<1> QED
  BY <1>3, <1>4

LEMMA DigitsAdded ==
    ASSUME NEW conf \in Configs
    PROVE  HasDigits(10, conf, config_load_workspace_keybinds(conf))
<1> DEFINE step == [p \in (1..10) \X Configs |-> AddDigit(p[2], p[1])]
<1>1. step \in [(1..10) \X Configs -> Configs]
  BY AddDigitTyped
<1>2. \A n \in 1..10, c \in Configs : step[<<n, c>>] = AddDigit(c, n)
  OBVIOUS
<1> HIDE DEF step
<1> DEFINE IsLoop(g) == g = [id \in 0..10 |-> IF id = 0 THEN conf ELSE AddDigit(g[id - 1], id)]
           after == CHOOSE g : IsLoop(g)
<1>3. config_load_workspace_keybinds(conf) = after[10]
  BY DEF config_load_workspace_keybinds
<1>4. PICK f : Turns(Configs, 10, step, conf, f)
  BY <1>1, Iterates
<1>5. IsLoop(f)
  <2>1. f = [n \in 0..10 |-> f[n]]
    BY <1>4 DEF Turns
  <2>2. ASSUME NEW n \in 0..10
        PROVE  f[n] = IF n = 0 THEN conf ELSE AddDigit(f[n - 1], n)
    <3>1. CASE n = 0
      BY <1>4, <3>1 DEF Turns
    <3>2. CASE n # 0
      <4>1. n \in 1..10 /\ n - 1 \in 0..10
        BY <3>2
      <4>2. f[n - 1] \in Configs /\ f[n] = step[<<n, f[n - 1]>>]
        BY <1>4, <4>1 DEF Turns
      <4> QED
        BY <1>2, <3>2, <4>1, <4>2
    <3> QED
      BY <3>1, <3>2
  <2> QED
    BY <2>1, <2>2
<1>6. IsLoop(after)
  <2>1. \E g : IsLoop(g)
    BY <1>5
  <2> HIDE DEF IsLoop
  <2> QED
    BY <2>1
<1> HIDE DEF after
<1>7. after[0] = conf /\ \A n \in 1..10 : after[n] = AddDigit(after[n - 1], n)
  BY <1>6
<1> DEFINE T == {n \in 0..10 : HasDigits(n, conf, after[n])}
<1>8. 0 \in T
  BY <1>7, NoDigitYet
<1>9. ASSUME NEW n \in 1..10, n - 1 \in T PROVE n \in T
  <2>1. HasDigits(n, conf, AddDigit(after[n - 1], n))
    BY <1>9, DigitAdded
  <2>2. HasDigits(n, conf, after[n]) /\ n \in 0..10
    BY <1>7, <2>1
  <2> QED
    BY <2>2
<1>10. \A n \in 0..10 : n \in T
  <2> HIDE DEF T
  <2> QED
    BY <1>8, <1>9, CountUp
<1>11. HasDigits(10, conf, after[10])
  BY <1>10
<1> QED
  BY <1>3, <1>11
-----------------------------------------------------------------------------
(* A key is pressed                                                        *)

\* What a key does that no bind is found for.
Unbound(ch) ==
    IF ch.mods = CtrlAlt /\ ch.key \in Range(FunctionKeys)
    THEN Act("vt", vt_from_keycode(ch.key))
    ELSE IF ch.mods = Super /\ ch.key = "esc" THEN Act("quit", 0)
    ELSE Act("forward", 0)

LEMMA VtKeys ==
    ASSUME NEW key
    PROVE  vt_from_keycode(key) > 0 <=> key \in Range(FunctionKeys)
<1>1. Range(FunctionKeys) = {FunctionKeys[i] : i \in 1..12}
  BY DEF Range, FunctionKeys
<1>2. CASE \E i \in 1..12 : FunctionKeys[i] = key
  <2>1. vt_from_keycode(key) \in 1..12
    BY <1>2 DEF vt_from_keycode
  <2> QED
    BY <1>1, <1>2, <2>1
<1>3. CASE ~ \E i \in 1..12 : FunctionKeys[i] = key
  <2>1. vt_from_keycode(key) = 0
    BY <1>3 DEF vt_from_keycode
  <2> QED
    BY <1>1, <1>3, <2>1
<1> QED
  BY <1>2, <1>3

LEMMA KeyPressed ==
    ASSUME NEW conf \in Configs, conf.kb_layouts = "us", NEW ch \in Chords
    PROVE  /\ \A bind : Finds(conf.keybinds, ch, bind)
                => KeyAction(conf, ch.mods, ch.key) = Act(bind.action, bind.arg)
           /\ Misses(conf.keybinds, ch) => KeyAction(conf, ch.mods, ch.key) = Unbound(ch)
<1> DEFINE list == conf.keybinds
           found == handle_keybind_event(conf, ch.mods, ch.key)
<1>1. list \in Seq(Binds) /\ DOMAIN list = 1..Len(list) /\ Len(list) \in Nat
  BY DEF Configs
<1>2. \A i \in DOMAIN list : i \in found <=> FitsUs(list[i], ch)
  BY DEF handle_keybind_event, Matches, FitsUs
<1>3. found \subseteq DOMAIN list
  BY DEF handle_keybind_event
<1> DEFINE first == CHOOSE i \in found : \A j \in found : i <= j
<1>4. /\ found # {} => KeyAction(conf, ch.mods, ch.key)
                         = Act(list[first].action, list[first].arg)
      /\ found = {} => KeyAction(conf, ch.mods, ch.key) = Unbound(ch)
  <2>1. Super # CtrlAlt
    BY DEF Super, CtrlAlt
  <2> DEFINE vt == vt_from_keycode(ch.key)
  <2>2. vt > 0 <=> ch.key \in Range(FunctionKeys)
    BY VtKeys
  <2> HIDE DEF found
  <2>3. found # {} => KeyAction(conf, ch.mods, ch.key)
                        = Act(list[first].action, list[first].arg)
    BY DEF KeyAction, found
  <2>4. ASSUME found = {} PROVE KeyAction(conf, ch.mods, ch.key) = Unbound(ch)
    <3> HIDE DEF vt
    <3>1. KeyAction(conf, ch.mods, ch.key) =
            CASE ch.mods = CtrlAlt /\ vt > 0 -> Act("vt", vt)
              [] ch.mods = Super /\ ch.key = "esc" -> Act("quit", 0)
              [] OTHER -> Act("forward", 0)
      BY <2>1, <2>4 DEF KeyAction, found, vt
    <3>2. Unbound(ch) = IF ch.mods = CtrlAlt /\ vt > 0 THEN Act("vt", vt)
                        ELSE IF ch.mods = Super /\ ch.key = "esc" THEN Act("quit", 0)
                        ELSE Act("forward", 0)
      BY <2>2 DEF Unbound, vt
    <3> QED
      BY <2>1, <3>1, <3>2
  <2> QED
    BY <2>3, <2>4
<1> HIDE DEF found
<1>5. ASSUME NEW bind, Finds(list, ch, bind)
      PROVE  KeyAction(conf, ch.mods, ch.key) = Act(bind.action, bind.arg)
  <2>1. PICK i \in 1..Len(list) : /\ list[i] = bind /\ FitsUs(bind, ch)
                                  /\ \A j \in 1..i - 1 : ~ FitsUs(list[j], ch)
    BY <1>5 DEF Finds
  <2>2. i \in found
    BY <1>1, <1>2, <2>1
  <2>3. ASSUME NEW j \in found PROVE i <= j
    <3>1. j \in 1..Len(list) /\ FitsUs(list[j], ch)
      BY <1>1, <1>2, <1>3
    <3>2. j \notin 1..i - 1
      BY <2>1, <3>1
    <3> QED
      BY <3>1, <3>2
  <2>4. first \in found /\ \A j \in found : first <= j
    BY <2>2, <2>3
  <2> HIDE DEF first
  <2>5. first <= i /\ i <= first /\ first \in 1..Len(list)
    BY <1>1, <1>3, <2>2, <2>3, <2>4
  <2>6. first = i
    BY <2>5
  <2> QED
    BY <1>4, <2>1, <2>2, <2>6
<1>6. ASSUME Misses(list, ch) PROVE KeyAction(conf, ch.mods, ch.key) = Unbound(ch)
  <2>1. found = {}
    BY <1>1, <1>2, <1>3, <1>6 DEF Misses
  <2> QED
    BY <1>4, <2>1
<1> QED
  BY <1>5, <1>6

\* On "us" a bind line fits a chord if it names it.
LEMMA LineFits ==
    ASSUME NEW line, BindsAKey(line), NEW ch \in Chords
    PROVE  FitsUs(BindOf(line), ch) <=> line.mods = ch.mods /\ Names(line.key, ch.mods, ch.key)
<1> DEFINE sym == LayoutSym["us"]["shift" \in ch.mods][ch.key]
           name == line.key
<1>1. sym # NoSymbol /\ sym # "esc"
  BY UsAssumption
<1>2. keycode_from_name(name) # NoCode => keycode_from_name(name) = name
  BY DEF keycode_from_name
<1>3. xkb_keysym_from_name(name) # NoSymbol /\ xkb_keysym_from_name(name) = sym <=> name = sym
  BY <1>1 DEF xkb_keysym_from_name
<1>4. FitsUs(BindOf(line), ch)
        <=> /\ line.mods = ch.mods
            /\ \/ keycode_from_name(name) # NoCode /\ keycode_from_name(name) = ch.key
               \/ xkb_keysym_from_name(name) # NoSymbol /\ xkb_keysym_from_name(name) = sym
  BY DEF FitsUs, BindOf, Bind
<1>5. keycode_from_name(name) # NoCode /\ keycode_from_name(name) = ch.key
        <=> name = ch.key /\ keycode_from_name(name) # NoCode
  BY <1>2
<1> QED
  BY <1>3, <1>4, <1>5 DEF Names

LEMMA DefaultFits ==
    ASSUME NEW i \in 1..Len(DefaultBinds), NEW ch \in Chords
    PROVE  FitsUs(DefaultBinds[i], ch)
             <=> DefaultBinds[i].mods = ch.mods /\ DefaultBinds[i].code = ch.key
<1>1. DefaultBinds[i].sym = NoSymbol /\ ch.key # NoCode
  BY DefaultsAreBinds, UsAssumption
<1> HIDE DEF DefaultBinds
<1> QED
  BY <1>1 DEF FitsUs

LEMMA LatestSays ==
    ASSUME NEW m \in Nat, NEW said, said \subseteq 0..m, said # {},
           NEW list, NEW binds, NEW ch, Says(list, said, binds, ch)
    PROVE  Latest(said) \in said /\ Finds(list, ch, binds[Latest(said)])
<1>1. \E i \in said : \A j \in said : j <= i
  BY GreatestOf
<1>2. Latest(said) \in said /\ \A j \in said : j <= Latest(said)
  BY <1>1 DEF Latest
<1> QED
  BY <1>2 DEF Says

\* What is wanted, case by case.
LEMMA WantedCases ==
    ASSUME NEW file \in Seq(Written), NEW ch \in Chords
    PROVE  LET named == Saying(file, Len(file), ch)
               default == DefaultsSaying(Len(DefaultBinds), ch)
               digit == DigitsSaying(10, ch)
               wanted == Wanted(file, ch.mods, ch.key)
           IN  /\ named # {} => wanted = Act(file[Latest(named)].action, file[Latest(named)].arg)
               /\ named = {} /\ BindLines(file, Len(file)) = {} /\ default # {}
                    => wanted = Act(DefaultBinds[Latest(default)].action,
                                    DefaultBinds[Latest(default)].arg)
               /\ named = {} /\ (BindLines(file, Len(file)) # {} \/ default = {})
                    => wanted = IF digit # {} THEN Act("workspace", Latest(digit))
                                ELSE Unbound(ch)
<1> DEFINE binds == {i \in DOMAIN file : BindsAKey(file[i])}
           named == {i \in binds : file[i].mods = ch.mods /\ Names(file[i].key, ch.mods, ch.key)}
           default == {i \in DOMAIN DefaultBinds :
                         DefaultBinds[i].mods = ch.mods /\ DefaultBinds[i].code = ch.key}
           digit == {i \in 1..10 : Digits[i] = ch.key}
           Rest == CASE ch.mods = Super /\ digit # {} -> Act("workspace", Latest(digit))
                     [] ch.mods = CtrlAlt /\ ch.key \in Range(FunctionKeys) ->
                           Act("vt", vt_from_keycode(ch.key))
                     [] ch.mods = Super /\ ch.key = "esc" -> Act("quit", 0)
                     [] OTHER -> Act("forward", 0)
           wanted == Wanted(file, ch.mods, ch.key)
<1>1. wanted =
        CASE named # {} -> Act(file[Latest(named)].action, file[Latest(named)].arg)
          [] named = {} /\ binds = {} /\ default # {} ->
                Act(DefaultBinds[Latest(default)].action, DefaultBinds[Latest(default)].arg)
          [] OTHER -> Rest
  BY DEF Wanted
<1>2. binds = BindLines(file, Len(file))
  BY DEF BindLines
<1>3. named = Saying(file, Len(file), ch)
  BY <1>2, LineFits DEF Saying, BindLines
<1>4. default = DefaultsSaying(Len(DefaultBinds), ch)
  <2>1. DOMAIN DefaultBinds = 1..Len(DefaultBinds)
    BY DefaultsAreBinds
  <2> QED
    BY <2>1, DefaultFits DEF DefaultsSaying
<1>5. DigitsSaying(10, ch) = IF ch.mods = Super THEN digit ELSE {}
  BY DigitFits DEF DigitsSaying
<1>6. Rest = IF DigitsSaying(10, ch) # {} THEN Act("workspace", Latest(DigitsSaying(10, ch)))
             ELSE Unbound(ch)
  <2>1. Super # CtrlAlt
    BY DEF Super, CtrlAlt
  <2>2. ch.key = "esc" => digit = {}
    BY DigitsDiffer
  <2> DEFINE vt == ch.key \in Range(FunctionKeys)
             key == vt_from_keycode(ch.key)
             set == DigitsSaying(10, ch)
  <2> HIDE DEF digit, vt, key, set
  <2>3. set = IF ch.mods = Super THEN digit ELSE {}
    BY <1>5 DEF set
  <2>4. Unbound(ch) = IF ch.mods = CtrlAlt /\ vt THEN Act("vt", key)
                      ELSE IF ch.mods = Super /\ ch.key = "esc" THEN Act("quit", 0)
                      ELSE Act("forward", 0)
    BY DEF Unbound, vt, key
  <2>5. Rest = CASE ch.mods = Super /\ digit # {} -> Act("workspace", Latest(digit))
                 [] ch.mods = CtrlAlt /\ vt -> Act("vt", key)
                 [] ch.mods = Super /\ ch.key = "esc" -> Act("quit", 0)
                 [] OTHER -> Act("forward", 0)
    BY DEF vt, key
  <2> HIDE DEF Rest
  <2>6. Rest = IF set # {} THEN Act("workspace", Latest(set)) ELSE Unbound(ch)
    <3>1. CASE ch.mods = Super /\ digit # {}
      BY <2>1, <2>2, <2>3, <2>5, <3>1
    <3>2. CASE ch.mods = Super /\ digit = {}
      BY <2>1, <2>3, <2>4, <2>5, <3>2
    <3>3. CASE ch.mods # Super
      BY <2>3, <2>4, <2>5, <3>3
    <3> QED
      BY <3>1, <3>2, <3>3
  <2> QED
    BY <2>6 DEF set
<1> HIDE DEF binds, named, default, Rest, wanted
<1>7. /\ named # {} => wanted = Act(file[Latest(named)].action, file[Latest(named)].arg)
      /\ named = {} /\ binds = {} /\ default # {}
           => wanted = Act(DefaultBinds[Latest(default)].action,
                           DefaultBinds[Latest(default)].arg)
      /\ named = {} /\ (binds # {} \/ default = {}) => wanted = Rest
  BY <1>1
<1> QED
  BY <1>2, <1>3, <1>4, <1>6, <1>7 DEF wanted
-----------------------------------------------------------------------------
(* The file that was loaded last                                           *)

LEMMA LoadSays ==
    ASSUME NEW file \in Seq(Written), NEW ch \in Chords, Load(file).kb_layouts = "us"
    PROVE  KeyAction(Load(file), ch.mods, ch.key) = Wanted(file, ch.mods, ch.key)
<1> DEFINE read == config_load_file(config_init_defaults, file)
           default == config_load_default_keybinds(read)
           conf == config_load_workspace_keybinds(default)
<1>1. IsRead(file, Len(file), read)
  BY FileRead
<1>2. Load(file) = conf
  BY DEF Load
<1> HIDE DEF conf, default, read
<1>3. read \in Configs
  BY <1>1 DEF IsRead
<1>4. read.has_keybinds => default = read
  BY DEF default, config_load_default_keybinds
<1>5. ~ read.has_keybinds /\ read.keybinds = <<>> => HasDefaults(Len(DefaultBinds), read, default)
  BY <1>3, DefaultsAdded DEF default
<1>6. default \in Configs
  BY <1>1, <1>3, <1>4, <1>5 DEF HasDefaults, IsRead
<1>7. HasDigits(10, default, conf)
  BY <1>6, DigitsAdded DEF conf
<1>8. /\ \A bind : Finds(conf.keybinds, ch, bind)
            => KeyAction(conf, ch.mods, ch.key) = Act(bind.action, bind.arg)
      /\ Misses(conf.keybinds, ch) => KeyAction(conf, ch.mods, ch.key) = Unbound(ch)
  <2>1. conf \in Configs /\ conf.kb_layouts = "us"
    BY <1>2, <1>7 DEF HasDigits
  <2> QED
    BY <2>1, KeyPressed
<1> DEFINE bound == BindLines(file, Len(file))
           named == Saying(file, Len(file), ch)
           spare == DefaultsSaying(Len(DefaultBinds), ch)
           digit == DigitsSaying(10, ch)
           wanted == Wanted(file, ch.mods, ch.key)
<1>9. /\ named # {} => wanted = Act(file[Latest(named)].action, file[Latest(named)].arg)
      /\ named = {} /\ bound = {} /\ spare # {}
           => wanted = Act(DefaultBinds[Latest(spare)].action, DefaultBinds[Latest(spare)].arg)
      /\ named = {} /\ (bound # {} \/ spare = {})
           => wanted = IF digit # {} THEN Act("workspace", Latest(digit)) ELSE Unbound(ch)
  BY WantedCases
<1>10. /\ named \subseteq bound /\ named \subseteq 0..Len(file) /\ named \subseteq 1..Len(file)
       /\ spare \subseteq 0..Len(DefaultBinds) /\ digit \subseteq 0..10 /\ digit \subseteq 1..10
       /\ Len(file) \in Nat /\ Len(DefaultBinds) \in Nat
  BY DefaultsAreBinds DEF Saying, BindLines, DefaultsSaying, DigitsSaying
<1>11. Says(read.keybinds, named, BindsOf(file), ch)
  BY <1>1 DEF IsRead
<1>12. bound # {} => default = read
  BY <1>1, <1>4 DEF IsRead
<1>13. bound = {} => Says(default.keybinds, spare, DefaultBinds, ch)
  BY <1>1, <1>5 DEF IsRead, HasDefaults
<1>14. /\ \A bind : Finds(default.keybinds, ch, bind) => Finds(conf.keybinds, ch, bind)
       /\ Misses(default.keybinds, ch) => Says(conf.keybinds, digit, DigitBinds, ch)
  BY <1>7 DEF HasDigits
<1> HIDE DEF bound, named, spare, digit, wanted
<1>15. KeyAction(conf, ch.mods, ch.key) = wanted
  <2>1. CASE named # {}
    <3> DEFINE binds == BindsOf(file)
               list == read.keybinds
    <3>1. Says(list, named, binds, ch)
      BY <1>11
    <3> HIDE DEF binds, list
    <3>2. Latest(named) \in named /\ Finds(list, ch, binds[Latest(named)])
      BY <1>10, <2>1, <3>1, LatestSays
    <3>3. binds[Latest(named)] = BindOf(file[Latest(named)])
      BY <1>10, <3>2 DEF binds, BindsOf
    <3>4. Finds(conf.keybinds, ch, BindOf(file[Latest(named)]))
      BY <1>10, <1>12, <1>14, <2>1, <3>2, <3>3 DEF list
    <3>5. /\ BindOf(file[Latest(named)]).action = file[Latest(named)].action
          /\ BindOf(file[Latest(named)]).arg = file[Latest(named)].arg
      BY DEF BindOf, Bind
    <3> QED
      BY <1>8, <1>9, <2>1, <3>4, <3>5
  <2>2. CASE named = {} /\ bound = {} /\ spare # {}
    <3> DEFINE list == default.keybinds
               m == Len(DefaultBinds)
    <3>1. Says(list, spare, DefaultBinds, ch) /\ m \in Nat /\ spare \subseteq 0..m
      BY <1>10, <1>13, <2>2
    <3> HIDE DEF list, m
    <3>2. Finds(list, ch, DefaultBinds[Latest(spare)])
      BY <2>2, <3>1, LatestSays
    <3> QED
      BY <1>8, <1>9, <1>14, <2>2, <3>2 DEF list
  <2>3. CASE named = {} /\ (bound # {} \/ spare = {})
    <3>1. Misses(default.keybinds, ch)
      BY <1>11, <1>12, <1>13, <2>3 DEF Says
    <3>2. CASE digit # {}
      <4> DEFINE list == conf.keybinds
      <4>1. Says(list, digit, DigitBinds, ch)
        BY <1>14, <3>1
      <4> HIDE DEF list
      <4>2. Latest(digit) \in digit /\ Finds(list, ch, DigitBinds[Latest(digit)])
        BY <1>10, <3>2, <4>1, LatestSays
      <4>3. /\ DigitBinds[Latest(digit)].action = "workspace"
            /\ DigitBinds[Latest(digit)].arg = Latest(digit)
        BY <1>10, <4>2 DEF DigitBinds, DigitBind, Bind
      <4> QED
        BY <1>8, <1>9, <2>3, <3>2, <4>2, <4>3 DEF list
    <3>3. CASE digit = {}
      <4>1. Misses(conf.keybinds, ch)
        BY <1>14, <3>1, <3>3 DEF Says
      <4> QED
        BY <1>8, <1>9, <2>3, <3>3, <4>1
    <3> QED
      BY <3>2, <3>3
  <2> QED
    BY <2>1, <2>2, <2>3
<1> QED
  BY <1>2, <1>15 DEF wanted

LEMMA LoadRules ==
    ASSUME NEW file \in Seq(Written)
    PROVE  /\ AreFirst(Load(file).rules["output"], Displays(file, Len(file)), file)
           /\ AreFirst(Load(file).rules["windowrule"], WindowRules(file, Len(file)),
                       [i \in WindowRules(file, Len(file)) |-> Tenth(file[i])])
<1> DEFINE read == config_load_file(config_init_defaults, file)
           default == config_load_default_keybinds(read)
           conf == config_load_workspace_keybinds(default)
<1>1. IsRead(file, Len(file), read)
  BY FileRead
<1>2. Load(file) = conf
  BY DEF Load
<1> HIDE DEF conf, default, read
<1>3. default \in Configs /\ SameRest(read, default)
  <2>1. CASE read.has_keybinds
    BY <1>1, <2>1 DEF default, config_load_default_keybinds, IsRead, SameRest
  <2>2. CASE ~ read.has_keybinds
    <3>1. HasDefaults(Len(DefaultBinds), read, default)
      BY <1>1, <2>2, DefaultsAdded DEF default, IsRead
    <3> QED
      BY <3>1 DEF HasDefaults
  <2> QED
    BY <2>1, <2>2
<1>4. SameRest(default, conf)
  BY <1>3, DigitsAdded DEF conf, HasDigits
<1>5. conf.rules = read.rules
  BY <1>3, <1>4 DEF SameRest
<1> DEFINE good == WindowRules(file, Len(file))
           rules == conf.rules["windowrule"]
           asked == Tenths(file)
           other == [i \in good |-> Tenth(file[i])]
<1>6. AreFirst(rules, good, asked) /\ \A i \in good : asked[i] = other[i]
  BY <1>1, <1>5 DEF IsRead, Tenths, WindowRules
<1> HIDE DEF rules, good, asked, other
<1>7. AreFirst(rules, good, other)
  BY <1>6, FirstOfThese
<1> QED
  BY <1>1, <1>2, <1>5, <1>7 DEF IsRead, rules, good, other

\* The inductive invariant: what counts is the file that was read last.
IInv ==
    /\ base \in {<<>>, config_generate_default}
    /\ own \in Seq(Lines)
    /\ config = Load(base \o own)

LEMMA FileIsWritten ==
    IInv => base \o own \in Seq(Written)
<1> SUFFICES ASSUME IInv PROVE base \o own \in Seq(Written)
  OBVIOUS
<1>1. base \in Seq(Written)
  <2>1. <<>> \in Seq(Written)
    OBVIOUS
  <2> QED
    BY <2>1, GeneratedIsWritten DEF IInv
<1>2. own \in Seq(Written)
  <2>1. Lines \subseteq Written
    BY DEF Written
  <2> QED
    BY <2>1, SeqMonotonic DEF IInv
<1> QED
  BY <1>1, <1>2, ConcatProperties

LEMMA BaseAlone ==
    ASSUME NEW file \in Seq(Written) PROVE file \o <<>> = file
OBVIOUS

LEMMA InitRead ==
    server_init => IInv
<1> SUFFICES ASSUME server_init PROVE IInv
  OBVIOUS
<1>1. base \in Seq(Written)
  <2>1. <<>> \in Seq(Written)
    OBVIOUS
  <2> QED
    BY <2>1, GeneratedIsWritten DEF server_init
<1>2. base \o own = base
  BY <1>1, BaseAlone DEF server_init
<1> QED
  BY <1>2 DEF server_init, IInv

LEMMA NextRead ==
    IInv /\ [Next]_vars => IInv'
<1> SUFFICES ASSUME IInv, [Next]_vars PROVE IInv'
  OBVIOUS
<1>1. ASSUME NEW line \in Lines, reload_config(line) PROVE IInv'
  BY <1>1 DEF reload_config, IInv
<1>2. CASE reload_config_anew
  <2>1. base \in Seq(Written)
    <3>1. <<>> \in Seq(Written)
      OBVIOUS
    <3> QED
      BY <3>1, GeneratedIsWritten DEF IInv
  <2>2. base \o <<>> = base
    BY <2>1, BaseAlone
  <2>3. base' = base /\ own' = <<>> /\ config' = Load(base)
    BY <1>2 DEF reload_config_anew
  <2>4. config' = Load(base' \o own')
    BY <2>2, <2>3
  <2> QED
    BY <2>3, <2>4 DEF IInv
<1>3. CASE UNCHANGED vars
  BY <1>3 DEF IInv, vars
<1> QED
  BY <1>1, <1>2, <1>3 DEF Next

THEOREM AlwaysRead ==
    Spec => []IInv
BY InitRead, NextRead, PTL DEF Spec

\* On "us" each chord does what the last line of the file for it says, and
\* without one what the defaults, the digits and the built-in chords say:
\* handle_key of src/src/input.c over the list that src/src/config.c builds.
THEOREM KeysObey ==
    Spec => []KeysDoWhatTheFileSays
<1>1. ASSUME IInv PROVE KeysDoWhatTheFileSays
  <2>1. base \o own \in Seq(Written) /\ config = Load(base \o own)
    BY <1>1, FileIsWritten DEF IInv
  <2> QED
    BY <2>1, LoadSays DEF KeysDoWhatTheFileSays
<1> QED
  BY <1>1, AlwaysRead, PTL

\* The window and output rules in force are the first good lines of the file for
\* which the tables of src/src/config.c have room, in the order of the file.
THEOREM RulesInOrder ==
    Spec => []FirstRulesCount
<1>1. ASSUME IInv PROVE FirstRulesCount
  <2> DEFINE file == base \o own
             windows == {i \in DOMAIN file :
                 /\ file[i].kind = "windowrule" /\ file[i].match # ""
                 /\ \/ file[i].action \in WindowActions
                    \/ file[i].action = "workspace" /\ file[i].arg \in 0..10}
             displays == {i \in DOMAIN file :
                 /\ file[i].kind = "general" /\ file[i].key = "output"
                 /\ file[i].name # "" /\ file[i].mode # ""}
  <2>1. file \in Seq(Written) /\ config = Load(file)
    BY <1>1, FileIsWritten DEF IInv
  <2>2. windows = WindowRules(file, Len(file)) /\ displays = Displays(file, Len(file))
    <3> HIDE DEF file
    <3>1. DOMAIN file = 1..Len(file)
      BY <2>1
    <3> QED
      BY <3>1 DEF WindowRules, Displays, IsWindowRule, IsDisplay
  <2> HIDE DEF windows, displays, file
  <2>3. /\ AreFirst(config.rules["output"], displays, file)
        /\ AreFirst(config.rules["windowrule"], windows, [i \in windows |-> Tenth(file[i])])
    BY <2>1, <2>2, LoadRules
  <2> QED
    BY <2>3 DEF FirstRulesCount, windows, displays, file, Tenth
<1> QED
  BY <1>1, AlwaysRead, PTL
=============================================================================
