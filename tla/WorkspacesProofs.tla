-------------------------- MODULE WorkspacesProofs --------------------------
(***************************************************************************)
(* Proofs about Workspaces for any set of outputs and any number of        *)
(* workspaces greater than it: the two sides of the relation always agree, *)
(* every connected output shows a workspace, no pointer to a destroyed     *)
(* output survives, and occupied workspaces keep their home.               *)
(***************************************************************************)
EXTENDS Workspaces, FiniteSetTheorems, WellFoundedInduction, TLAPS

\* What every handler preserves, of an assignment s over the outputs C.
Good(s, C) ==
    /\ s \in Assignments
    /\ \A w \in Workspaces : s.output[w] # NoOutput =>
          /\ s.output[w] \in C
          /\ s.active[s.output[w]] = w
          /\ s.last[w] = s.output[w]
    /\ \A o \in C : /\ s.active[o] \in Workspaces
                    /\ s.output[s.active[o]] = o
    /\ \A o \in Outputs \ C : s.active[o] = NoWorkspace
    /\ \A w \in Workspaces : s.last[w] \in C \cup {NoOutput}

\* The inductive invariant.
IInv == /\ TypeOK
        /\ Good(Current, connected)
        /\ active_output \in connected \cup {NoOutput}
        /\ connected # {} => active_output # NoOutput

USE NumWorkspacesAssumption, OutputsAssumption
-----------------------------------------------------------------------------
(* The helpers                                                             *)

\* The search for the first workspace with a property finds one if there is.
LEMMA FirstIn ==
    ASSUME NEW S \in SUBSET Workspaces, S # {}
    PROVE  First(S) \in S
<1>1. S \subseteq Nat
  BY DEF Workspaces
<1>2. PICK m \in S : \A v \in S : ~ (<<v, m>> \in OpToRel(<, Nat))
  BY <1>1, NatLessThanWellFounded, WFMin
<1>3. ASSUME NEW v \in S PROVE m <= v
  <2>1. v \in Nat /\ m \in Nat /\ ~ (v < m)
    BY <1>1, <1>2 DEF OpToRel
  <2>2. QED BY <2>1
<1>4. QED
  BY <1>3 DEF First

\* With more workspaces than outputs some workspace is hidden.
LEMMA SomeHidden ==
    ASSUME EnoughWorkspaces, NEW C \in SUBSET Outputs, NEW s, Good(s, C)
    PROVE  \E w \in Workspaces : s.output[w] = NoOutput
<1>1. SUFFICES ASSUME \A w \in Workspaces : s.output[w] # NoOutput
               PROVE  FALSE
  OBVIOUS
<1>2. s.output \in [Workspaces -> Outputs]
  BY <1>1 DEF Good, Assignments
<1>3. IsFiniteSet(Workspaces) /\ Cardinality(Workspaces) = NumWorkspaces
  <2>1. NumWorkspaces \in Nat /\ 1 \in Int /\ NumWorkspaces \in Int
    OBVIOUS
  <2>2. QED BY <2>1, FS_Interval DEF Workspaces
<1>4. PICK v \in Workspaces, w \in Workspaces : v # w /\ s.output[v] = s.output[w]
  BY <1>2, <1>3, FS_PigeonHole DEF EnoughWorkspaces
<1>5. QED
  BY <1>1, <1>4 DEF Good

\* The fields that the steps of a handler leave behind.
LEMMA ShowFields ==
    ASSUME NEW s \in Assignments, NEW w \in Workspaces, NEW o \in Outputs
    PROVE  /\ Show(s, w, o) \in Assignments
           /\ Show(s, w, o).output = [s.output EXCEPT ![w] = o]
           /\ Show(s, w, o).last = [s.last EXCEPT ![w] = o]
           /\ Show(s, w, o).active = s.active
BY DEF Show, Assignments

LEMMA HideFields ==
    ASSUME NEW s \in Assignments, NEW w \in Workspaces
    PROVE  /\ Hide(s, w) \in Assignments
           /\ Hide(s, w).output = [s.output EXCEPT ![w] = NoOutput]
           /\ Hide(s, w).last =
                [s.last EXCEPT ![w] = IF w \in s.occ THEN s.last[w] ELSE NoOutput]
           /\ Hide(s, w).active = s.active
BY DEF Hide, Assignments

LEMMA ActiveFields ==
    ASSUME NEW s \in Assignments, NEW w \in Workspaces \cup {NoWorkspace},
           NEW o \in Outputs
    PROVE  /\ SetActive(s, o, w) \in Assignments
           /\ SetActive(s, o, w).output = s.output
           /\ SetActive(s, o, w).last = s.last
           /\ SetActive(s, o, w).active = [s.active EXCEPT ![o] = w]
BY DEF SetActive, Assignments

\* The two assignments that every handler ends with: r is s with w on o.
Shown(r, s, w, o) == /\ r \in Assignments
                     /\ r.output = [s.output EXCEPT ![w] = o]
                     /\ r.last = [s.last EXCEPT ![w] = o]
                     /\ r.active = [s.active EXCEPT ![o] = w]

LEMMA ShownFields ==
    ASSUME NEW s \in Assignments, NEW w \in Workspaces, NEW o \in Outputs
    PROVE  Shown(Show(SetActive(s, o, w), w, o), s, w, o)
<1> DEFINE a == SetActive(s, o, w)
<1>1. /\ a \in Assignments
      /\ a.output = s.output
      /\ a.last = s.last
      /\ a.active = [s.active EXCEPT ![o] = w]
  BY ActiveFields
<1> HIDE DEF a
<1>2. /\ Show(a, w, o) \in Assignments
      /\ Show(a, w, o).output = [a.output EXCEPT ![w] = o]
      /\ Show(a, w, o).last = [a.last EXCEPT ![w] = o]
      /\ Show(a, w, o).active = a.active
  BY <1>1, ShowFields
<1>3. QED
  BY <1>1, <1>2 DEF a, Shown

LEMMA ForgetFields ==
    ASSUME NEW s \in Assignments, NEW o \in Outputs
    PROVE  /\ Forget(s, o) \in Assignments
           /\ Forget(s, o).output = s.output
           /\ Forget(s, o).active = s.active
           /\ \A w \in Workspaces :
                Forget(s, o).last[w] = IF s.last[w] = o THEN NoOutput ELSE s.last[w]
BY DEF Forget, Assignments

\* What is good does not depend on which workspaces are occupied.
LEMMA GoodWhateverOccupied ==
    ASSUME NEW C, NEW s, Good(s, C), NEW r \in Assignments,
           r.output = s.output, r.last = s.last, r.active = s.active
    PROVE  Good(r, C)
BY DEF Good

\* An assignment that has become the current one.
LEMMA BecomesCurrent ==
    ASSUME NEW s \in Assignments, Becomes(s), occupied' \subseteq Workspaces
    PROVE  /\ Current' \in Assignments
           /\ Current'.output = s.output
           /\ Current'.last = s.last
           /\ Current'.active = s.active
BY DEF Becomes, Current, Assignments

\* Bringing a workspace up on an output, where it may already be.
LEMMA OpenGood ==
    ASSUME NEW C \in SUBSET Outputs, NEW s, Good(s, C),
           NEW w \in Workspaces, NEW d \in C,
           s.output[w] \in {NoOutput, d}
    PROVE  Good(Open(s, w, d), C)
<1> DEFINE shown == s.active[d]
<1>0. s \in Assignments /\ d \in Outputs
  BY DEF Good
<1>1. shown \in Workspaces /\ s.output[shown] = d /\ NoWorkspace \notin Workspaces
  BY DEF Good, Workspaces, NoWorkspace
<1>2. CASE shown = w
  <2> DEFINE r == Show(SetActive(s, d, w), w, d)
  <2>1. Open(s, w, d) = r
    BY <1>2 DEF Open
  <2>2. Shown(r, s, w, d)
    BY <1>0, ShownFields
  <2> HIDE DEF r
  <2>3. Good(r, C)
    BY <1>1, <1>2, <2>2 DEF Good, Assignments, Shown
  <2>4. QED
    BY <2>1, <2>3, Zenon
<1>3. CASE shown # w
  <2> DEFINE h == Hide(s, shown)
             r == Show(SetActive(h, d, w), w, d)
             home == IF shown \in s.occ THEN s.last[shown] ELSE NoOutput
  <2>1. Open(s, w, d) = r
    BY <1>1, <1>3 DEF Open
  <2>2. home \in C \cup {NoOutput}
    BY <1>1 DEF Good
  <2>3. /\ h.output = [s.output EXCEPT ![shown] = NoOutput]
        /\ h.last = [s.last EXCEPT ![shown] = home]
        /\ h.active = s.active
    BY <1>0, <1>1, HideFields
  <2>0. h \in Assignments
    BY <1>0, <1>1, HideFields
  <2> HIDE DEF h, home
  <2>4. Shown(r, h, w, d)
    BY <1>0, <2>0, ShownFields
  <2> HIDE DEF r
  <2>5. Good(r, C)
    BY <1>1, <1>3, <2>2, <2>3, <2>4 DEF Good, Assignments, Shown
  <2>6. QED
    BY <2>1, <2>5, Zenon
<1>4. QED
  BY <1>2, <1>3

\* Taking a visible workspace from its output, which falls back on another.
LEMMA WithdrawGood ==
    ASSUME EnoughWorkspaces,
           NEW C \in SUBSET Outputs, NEW s, Good(s, C),
           NEW w \in Workspaces, s.output[w] # NoOutput
    PROVE  /\ Good(Withdraw(s, w), C)
           /\ Withdraw(s, w).output[w] = NoOutput
<1> DEFINE old    == s.output[w]
           hidden == [Hide(s, w) EXCEPT !.last[w] = NoOutput]
           next   == Replacement(hidden, w)
<1>1. old \in C /\ old \in Outputs /\ s.active[old] = w
  BY DEF Good
<1>0. hidden \in Assignments
  BY DEF Hide, Good, Assignments
<1>2. /\ hidden.output = [s.output EXCEPT ![w] = NoOutput]
      /\ hidden.last = [s.last EXCEPT ![w] = NoOutput]
      /\ hidden.active = s.active
  BY DEF Hide, Good, Assignments
<1>3. next \in Workspaces \ {w} /\ s.output[next] = NoOutput
  <2> DEFINE free  == {v \in Workspaces \ {w} : hidden.output[v] = NoOutput}
             empty == free \ hidden.occ
  <2>1. free # {}
    <3>1. PICK v \in Workspaces : s.output[v] = NoOutput
      BY SomeHidden
    <3>2. v # w /\ hidden.output[v] = NoOutput
      BY <1>2, <3>1 DEF Good, Assignments
    <3>3. QED BY <3>2
  <2>2. next = First(IF empty # {} THEN empty ELSE free)
    BY DEF Replacement
  <2>3. next \in free
    BY <2>1, <2>2, FirstIn
  <2>4. QED
    BY <1>2, <2>3 DEF Good, Assignments
<1>4. NoWorkspace \notin Workspaces
  BY DEF Workspaces, NoWorkspace
<1> DEFINE r == Show(SetActive(hidden, old, next), next, old)
<1>5. Withdraw(s, w) = r
  BY <1>1, <1>2, <1>3, <1>4 DEF Withdraw
<1> HIDE DEF hidden, next
<1>6. Shown(r, hidden, next, old)
  BY <1>0, <1>1, <1>3, ShownFields
<1> HIDE DEF r
<1>7. Good(r, C) /\ r.output[w] = NoOutput
  BY <1>1, <1>2, <1>3, <1>6 DEF Good, Assignments, Shown
<1>8. QED
  BY <1>5, <1>7, Zenon
-----------------------------------------------------------------------------
(* The handlers                                                            *)

LEMMA InitInv == Init => IInv
BY DEF Init, IInv, TypeOK, Good, Current, Assignments, NoWorkspace

LEMMA SwitchWorkspaceInv ==
    ASSUME EnoughWorkspaces, IInv, NEW w \in Workspaces, SwitchWorkspace(w)
    PROVE  IInv'
<1> DEFINE o == active_output
           s == Pull(Current, w, o)
           d == Destination(s, w, o)
           t == Open(s, w, d)
<1>1. o \in connected /\ connected \subseteq Outputs /\ Good(Current, connected)
  BY DEF SwitchWorkspace, IInv, TypeOK
<1>2. Good(s, connected)
  BY <1>1, WithdrawGood DEF Pull
<1>3. d \in connected
  BY <1>1, <1>2 DEF Destination, Good
<1>4. s.output[w] \in {NoOutput, d}
  BY DEF Destination
<1>5. Good(t, connected)
  BY <1>1, <1>2, <1>3, <1>4, OpenGood
<1>6. Becomes(t) /\ UNCHANGED <<connected, occupied>> /\ active_output' = d
  BY DEF SwitchWorkspace
<1>7. occupied \subseteq Workspaces
  BY DEF IInv, TypeOK
<1> HIDE DEF t, d
<1>8. Good(Current', connected)
  BY <1>5, <1>6, <1>7, BecomesCurrent, GoodWhateverOccupied DEF Good
<1>9. QED
  BY <1>1, <1>3, <1>6, <1>7, <1>8 DEF IInv, TypeOK, Good

LEMMA ReleaseIfEmptyInv ==
    ASSUME EnoughWorkspaces, IInv, NEW w \in Workspaces, ReleaseIfEmpty(w)
    PROVE  IInv'
<1> DEFINE s == [Current EXCEPT !.occ = occupied']
           t == Withdraw(s, w)
<1>1. /\ connected \subseteq Outputs /\ Good(Current, connected)
      /\ occupied' \subseteq Workspaces /\ output[w] # NoOutput
  BY DEF ReleaseIfEmpty, IInv, TypeOK
<1>2. Good(s, connected) /\ s.output[w] # NoOutput
  <2>1. /\ s \in Assignments
        /\ s.output = Current.output /\ s.last = Current.last /\ s.active = Current.active
        /\ s.output = output
    BY <1>1 DEF Current, Assignments, Good
  <2>2. QED BY <1>1, <2>1, GoodWhateverOccupied
<1> HIDE DEF s
<1>3. Good(t, connected)
  BY <1>1, <1>2, WithdrawGood
<1>4. Becomes(t) /\ connected' = connected
  BY DEF ReleaseIfEmpty, s
<1> HIDE DEF t
<1>5. Good(Current', connected)
  BY <1>1, <1>3, <1>4, BecomesCurrent, GoodWhateverOccupied DEF Good
<1>6. /\ active_output' \in connected \cup {NoOutput}
      /\ connected # {} => active_output' # NoOutput
  BY <1>1 DEF ReleaseIfEmpty, IInv
<1>7. QED
  BY <1>1, <1>4, <1>5, <1>6 DEF IInv, TypeOK, Good

LEMMA OutputCreateInv ==
    ASSUME EnoughWorkspaces, IInv, NEW o \in Outputs, OutputCreate(o)
    PROVE  IInv'
<1> DEFINE free == First({v \in Workspaces : output[v] = NoOutput})
           w    == IF free = NoWorkspace THEN 1 ELSE free
           s    == Show(SetActive(Current, o, w), w, o)
<1>1. connected \subseteq Outputs /\ Good(Current, connected) /\ o \notin connected
  BY DEF OutputCreate, IInv, TypeOK
<1>2. NoWorkspace \notin Workspaces
  BY DEF Workspaces, NoWorkspace
<1>3. w \in Workspaces /\ output[w] = NoOutput
  <2>1. {v \in Workspaces : output[v] = NoOutput} # {}
    BY <1>1, SomeHidden DEF Current
  <2>2. free \in {v \in Workspaces : output[v] = NoOutput}
    BY <2>1, FirstIn
  <2>3. QED BY <1>2, <2>2
<1>4. Shown(s, Current, w, o)
  BY <1>1, <1>3, ShownFields DEF Good
<1> HIDE DEF w, s
<1>5. Good(s, connected \cup {o})
  BY <1>1, <1>2, <1>3, <1>4 DEF Good, Assignments, Current, Shown
<1>6. Becomes(s) /\ connected' = connected \cup {o}
  BY DEF OutputCreate, s, w
<1>7. /\ active_output' \in connected' /\ active_output' # NoOutput
      /\ occupied' \subseteq Workspaces
  BY <1>3, <1>6 DEF OutputCreate, IInv, TypeOK, w
<1>8. Good(Current', connected')
  BY <1>5, <1>6, <1>7, BecomesCurrent, GoodWhateverOccupied DEF Good
<1>9. QED
  BY <1>1, <1>6, <1>7, <1>8 DEF IInv, TypeOK, Good

LEMMA OutputDestroyInv ==
    ASSUME IInv, NEW o \in Outputs, OutputDestroy(o)
    PROVE  IInv'
<1> DEFINE w    == active[o]
           h    == Hide(Current, w)
           left == connected \ {o}
           s    == Forget(SetActive(h, o, NoWorkspace), o)
<1>1. /\ connected \subseteq Outputs /\ Good(Current, connected) /\ o \in connected
      /\ Current \in Assignments
  BY DEF OutputDestroy, IInv, TypeOK
<1>2. w \in Workspaces /\ output[w] = o /\ w # NoWorkspace
  BY <1>1 DEF Good, Current, Workspaces, NoWorkspace
<1>3. /\ h.output = [output EXCEPT ![w] = NoOutput]
      /\ h.active = active
      /\ \A v \in Workspaces : h.last[v] \in connected \cup {NoOutput}
      /\ \A v \in Workspaces : h.output[v] # NoOutput =>
            h.last[v] = h.output[v] /\ h.output[v] # o
  <2>1. /\ h.output = [Current.output EXCEPT ![w] = NoOutput]
        /\ h.last = [Current.last EXCEPT ![w] = IF w \in Current.occ THEN Current.last[w]
                                                ELSE NoOutput]
        /\ h.active = Current.active
    BY <1>1, <1>2, HideFields
  <2> HIDE DEF h
  <2>2. QED BY <1>1, <1>2, <2>1 DEF Good, Current, Assignments
<1>0. h \in Assignments
  BY <1>1, <1>2, HideFields
<1> HIDE DEF h
<1>4. /\ s \in Assignments
      /\ s.output = h.output
      /\ s.active = [active EXCEPT ![o] = NoWorkspace]
      /\ \A v \in Workspaces : s.last[v] \in left \cup {NoOutput}
      /\ \A v \in Workspaces : s.output[v] # NoOutput => s.last[v] = s.output[v]
  <2> DEFINE a == SetActive(h, o, NoWorkspace)
  <2>1. /\ a \in Assignments
        /\ a.output = h.output
        /\ a.last = h.last
        /\ a.active = [h.active EXCEPT ![o] = NoWorkspace]
    BY <1>0, ActiveFields
  <2> HIDE DEF a
  <2>2. /\ Forget(a, o) \in Assignments
        /\ Forget(a, o).output = a.output
        /\ Forget(a, o).active = a.active
        /\ \A v \in Workspaces :
             Forget(a, o).last[v] = IF a.last[v] = o THEN NoOutput ELSE a.last[v]
    BY <2>1, ForgetFields
  <2>3. s = Forget(a, o)
    BY DEF a
  <2> HIDE DEF s
  <2>4. /\ \A v \in Workspaces : s.last[v] \in left \cup {NoOutput}
        /\ s \in Assignments /\ s.output = h.output
        /\ s.active = [active EXCEPT ![o] = NoWorkspace]
    BY <1>3, <2>1, <2>2, <2>3
  <2>5. ASSUME NEW v \in Workspaces, s.output[v] # NoOutput
        PROVE  s.last[v] = s.output[v]
    <3>1. h.last[v] = h.output[v] /\ h.output[v] # o
      BY <1>3, <2>4, <2>5
    <3> QED
      BY <2>1, <2>2, <2>3, <2>4, <3>1
  <2>6. QED BY <2>4, <2>5
<1>5. Good(s, left)
  BY <1>1, <1>2, <1>3, <1>4 DEF Good, Current, Assignments
<1>6. Becomes(s)
  BY <1>2 DEF OutputDestroy, h
<1>7. connected' = left /\ occupied' = occupied
  BY DEF OutputDestroy
<1>8. /\ active_output' \in left \cup {NoOutput}
      /\ left # {} => active_output' # NoOutput
  BY <1>1 DEF OutputDestroy, FallBack, IInv, TypeOK
<1> HIDE DEF s
<1>9. Good(Current', left)
  BY <1>4, <1>5, <1>6, <1>7, BecomesCurrent, GoodWhateverOccupied DEF IInv, TypeOK
<1>10. QED
  BY <1>1, <1>7, <1>8, <1>9 DEF IInv, TypeOK, Good

LEMMA ViewsChangeInv ==
    ASSUME IInv, ViewsChange
    PROVE  IInv'
<1>1. /\ occupied' \subseteq Workspaces /\ connected' = connected
      /\ output' = output /\ last_output' = last_output /\ active' = active
  BY DEF ViewsChange, assignment
<1>2. /\ Current \in Assignments /\ Good(Current, connected)
  BY DEF IInv, TypeOK
<1>3. /\ Current' \in Assignments
      /\ Current'.output = Current.output
      /\ Current'.last = Current.last
      /\ Current'.active = Current.active
  BY <1>1, <1>2 DEF Current, Assignments
<1>4. Good(Current', connected')
  BY <1>1, <1>2, <1>3, GoodWhateverOccupied
<1>5. QED
  BY <1>1, <1>3, <1>4 DEF ViewsChange, IInv, TypeOK

LEMMA StutterInv ==
    ASSUME IInv, UNCHANGED vars
    PROVE  IInv'
BY DEF IInv, TypeOK, Good, Current, vars
-----------------------------------------------------------------------------
(* The theorems                                                            *)

LEMMA NextInv ==
    ASSUME EnoughWorkspaces, IInv, [Next]_vars
    PROVE  IInv'
BY SwitchWorkspaceInv, ReleaseIfEmptyInv, OutputCreateInv, OutputDestroyInv,
   ViewsChangeInv, StutterInv DEF Next

\* Every handler keeps the relation between workspaces and outputs whole.
THEOREM Inductive ==
    ASSUME EnoughWorkspaces
    PROVE  Spec => []IInv
<1>1. IInv /\ [Next]_vars => IInv'
  BY NextInv
<1>2. QED
  BY <1>1, InitInv, PTL DEF Spec

\* Type correctness.
THEOREM TypeCorrect ==
    ASSUME EnoughWorkspaces
    PROVE  Spec => []TypeOK
<1>1. IInv => TypeOK
  BY DEF IInv
<1>2. QED
  BY <1>1, Inductive, PTL

\* Workspace.output and Output.active_workspace always agree, so no workspace
\* is ever shown on two outputs.
THEOREM SidesAlwaysAgree ==
    ASSUME EnoughWorkspaces
    PROVE  Spec => []SidesAgree
<1>1. IInv => SidesAgree
  BY DEF IInv, TypeOK, Good, Current, SidesAgree
<1>2. QED
  BY <1>1, Inductive, PTL

\* Every connected output shows a workspace.
THEOREM OutputsNeverBlank ==
    ASSUME EnoughWorkspaces
    PROVE  Spec => []NeverBlank
<1>1. IInv => NeverBlank
  BY DEF IInv, Good, Current, NeverBlank
<1>2. QED
  BY <1>1, Inductive, PTL

\* Neither a workspace nor the server keeps a pointer to a freed output.
THEOREM NoOutputDangles ==
    ASSUME EnoughWorkspaces
    PROVE  Spec => []NoDanglingOutput
<1>1. IInv => NoDanglingOutput
  BY DEF IInv, TypeOK, Good, Current, NoDanglingOutput
<1>2. QED
  BY <1>1, Inductive, PTL

\* While an output is connected there is an active one.
THEOREM ActiveOutputAlwaysExists ==
    ASSUME EnoughWorkspaces
    PROVE  Spec => []ActiveOutputExists
<1>1. IInv => ActiveOutputExists
  BY DEF IInv, ActiveOutputExists
<1>2. QED
  BY <1>1, Inductive, PTL
-----------------------------------------------------------------------------
(* What a step never does: make an occupied workspace forget its output,  *)
(* bring one up away from home while an empty one is free, or shuffle the  *)
(* occupied ones in a switch.                                              *)

\* What Withdraw and Open do to the workspaces other than the one they are for.
\* Stays: nothing.  StepsBack: at most hide it, where it is remembered.
Stays(s, r, v)     == r.output[v] = s.output[v] /\ r.last[v] = s.last[v]
StepsBack(s, r, v) == \/ r.output[v] = s.output[v]
                      \/ r.output[v] = NoOutput /\ r.last[v] = s.last[v]

\* Open brings w up on d.  Of the others none comes up, and an occupied one
\* that has to give way remembers where it was.
LEMMA OpenKeeps ==
    ASSUME NEW C \in SUBSET Outputs, NEW s, Good(s, C),
           NEW w \in Workspaces, NEW d \in C
    PROVE  /\ Open(s, w, d).output[w] = d
           /\ \A v \in Workspaces \ {w} :
                /\ Open(s, w, d).output[v] \in {s.output[v], NoOutput}
                /\ v \in s.occ => StepsBack(s, Open(s, w, d), v)
<1> DEFINE shown == s.active[d]
           clear == IF shown \in {NoWorkspace, w} THEN s ELSE Hide(s, shown)
           r     == Show(SetActive(clear, d, w), w, d)
<1>1. s \in Assignments /\ shown \in Workspaces /\ d \in Outputs
  BY DEF Good
<1>2. Open(s, w, d) = r
  BY DEF Open
<1>3. /\ clear \in Assignments
      /\ \A v \in Workspaces :
           /\ clear.output[v] \in {s.output[v], NoOutput}
           /\ v \in s.occ => StepsBack(s, clear, v)
  <2>1. CASE shown \in {NoWorkspace, w}
    BY <1>1, <2>1 DEF StepsBack
  <2>2. CASE shown \notin {NoWorkspace, w}
    <3> DEFINE h == Hide(s, shown)
    <3>1. /\ h \in Assignments
          /\ h.output = [s.output EXCEPT ![shown] = NoOutput]
          /\ h.last = [s.last EXCEPT ![shown] = IF shown \in s.occ THEN s.last[shown]
                                                ELSE NoOutput]
      BY <1>1, HideFields
    <3>2. clear = h
      BY <2>2
    <3> HIDE DEF h, clear, shown
    <3> QED
      BY <1>1, <3>1, <3>2 DEF StepsBack, Assignments
  <2> QED
    BY <2>1, <2>2
<1> HIDE DEF clear
<1>4. Shown(r, clear, w, d)
  BY <1>1, <1>3, ShownFields
<1> HIDE DEF r, shown
<1> QED
  BY <1>1, <1>2, <1>3, <1>4 DEF Shown, Assignments, StepsBack

\* Withdraw disturbs no visible workspace but w, and brings an occupied one up
\* only if no empty one is hidden.
LEMMA WithdrawKeeps ==
    ASSUME EnoughWorkspaces, NEW C \in SUBSET Outputs, NEW s, Good(s, C),
           NEW w \in Workspaces, s.output[w] # NoOutput
    PROVE  \A v \in Workspaces \ {w} :
             /\ s.output[v] # NoOutput => Stays(s, Withdraw(s, w), v)
             /\ v \in s.occ /\ s.output[v] = NoOutput
                    /\ Withdraw(s, w).output[v] # NoOutput =>
                  \A u \in Workspaces \ s.occ : s.output[u] # NoOutput
<1> DEFINE old    == s.output[w]
           hidden == [Hide(s, w) EXCEPT !.last[w] = NoOutput]
           free   == {v \in Workspaces \ {w} : hidden.output[v] = NoOutput}
           empty  == free \ hidden.occ
           next   == Replacement(hidden, w)
           r      == Show(SetActive(hidden, old, next), next, old)
<1>1. old \in Outputs /\ s.active[old] = w
  BY DEF Good
<1>2. /\ hidden \in Assignments
      /\ hidden.output = [s.output EXCEPT ![w] = NoOutput]
      /\ hidden.last = [s.last EXCEPT ![w] = NoOutput]
      /\ hidden.active = s.active
      /\ hidden.occ = s.occ
  BY DEF Hide, Good, Assignments
<1>3. free = {v \in Workspaces \ {w} : s.output[v] = NoOutput}
  BY <1>2 DEF Good, Assignments
<1>4. free # {}
  BY <1>3, SomeHidden
<1>5. next \in IF empty # {} THEN empty ELSE free
  BY <1>4, FirstIn DEF Replacement
<1>6. next \in Workspaces \ {w} /\ s.output[next] = NoOutput /\ next # NoWorkspace
  BY <1>3, <1>5 DEF Workspaces, NoWorkspace
<1>7. next \in s.occ => \A u \in Workspaces \ s.occ : s.output[u] # NoOutput
  BY <1>2, <1>3, <1>5
<1>8. Withdraw(s, w) = r
  BY <1>1, <1>2, <1>6 DEF Withdraw
<1> HIDE DEF hidden, next
<1>9. Shown(r, hidden, next, old)
  BY <1>1, <1>2, <1>6, ShownFields
<1> HIDE DEF r
<1>10. \A v \in Workspaces \ {w, next} : Stays(s, r, v)
  BY <1>2, <1>6, <1>9 DEF Shown, Stays, Good, Assignments
<1> QED
  BY <1>6, <1>7, <1>8, <1>10 DEF Stays
-----------------------------------------------------------------------------
(* The handlers                                                            *)

\* What a switch to w does: the facts the three properties need of it.
LEMMA SwitchKeeps ==
    ASSUME EnoughWorkspaces, IInv, NEW w \in Workspaces, SwitchWorkspace(w)
    PROVE  /\ output'[w] # NoOutput
           /\ w \in occupied /\ last_output[w] # NoOutput => output'[w] = last_output[w]
           /\ \A v \in occupied \ {w} :
                output[v] # NoOutput =>
                  \/ output'[v] = output[v]
                  \/ output'[v] = NoOutput /\ last_output'[v] = output[v]
           /\ \A v \in occupied \ {w} :
                output[v] = NoOutput /\ output'[v] # NoOutput =>
                  \A u \in Workspaces \ occupied : output[u] # NoOutput
<1> DEFINE s == Pull(Current, w, active_output)
           d == Destination(s, w, active_output)
           t == Open(s, w, d)
<1>1. /\ active_output \in connected /\ connected \subseteq Outputs
      /\ Good(Current, connected)
      /\ Current.output = output /\ Current.last = last_output
      /\ Current.occ = occupied /\ occupied \subseteq Workspaces
  BY DEF SwitchWorkspace, IInv, TypeOK, Current
<1>2. Good(s, connected)
  BY <1>1, WithdrawGood DEF Pull
<1>3. s.occ = occupied
  BY <1>1 DEF Pull, Withdraw, Show, SetActive, Hide, Current, Assignments
<1>4. \A v \in Workspaces \ {w} :
        /\ output[v] # NoOutput => Stays(Current, s, v)
        /\ v \in occupied /\ output[v] = NoOutput /\ s.output[v] # NoOutput =>
             \A u \in Workspaces \ occupied : output[u] # NoOutput
  <2>1. CASE s = Current
    BY <1>1, <2>1 DEF Stays
  <2>2. CASE output[w] # NoOutput /\ s = Withdraw(Current, w)
    <3>1. \A v \in Workspaces \ {w} :
            /\ Current.output[v] # NoOutput => Stays(Current, Withdraw(Current, w), v)
            /\ v \in Current.occ /\ Current.output[v] = NoOutput
                   /\ Withdraw(Current, w).output[v] # NoOutput =>
                 \A u \in Workspaces \ Current.occ : Current.output[u] # NoOutput
      BY <1>1, <2>2, WithdrawKeeps
    <3> HIDE DEF s
    <3> QED
      BY <1>1, <2>2, <3>1
  <2> QED
    BY <1>1, <2>1, <2>2 DEF Pull
<1>5. d \in connected
  BY <1>1, <1>2 DEF Destination, Good
<1>6. w \in occupied => s = Current
  BY <1>1 DEF Pull
<1>7. w \in occupied /\ last_output[w] # NoOutput => d = last_output[w]
  BY <1>1, <1>6 DEF Destination, Good
<1> HIDE DEF s, d
<1>8. /\ t.output[w] = d
      /\ \A v \in Workspaces \ {w} :
           /\ t.output[v] \in {s.output[v], NoOutput}
           /\ v \in occupied => StepsBack(s, t, v)
  <2>1. /\ t.output[w] = d
        /\ \A v \in Workspaces \ {w} :
             /\ t.output[v] \in {s.output[v], NoOutput}
             /\ v \in s.occ => StepsBack(s, t, v)
    BY <1>1, <1>2, <1>5, OpenKeeps
  <2> HIDE DEF t
  <2> QED
    BY <1>3, <2>1
<1>9. output' = t.output /\ last_output' = t.last
  BY DEF SwitchWorkspace, Becomes, s, d
<1>10. d # NoOutput
  BY <1>1, <1>5
<1>11. \A v \in Workspaces : output[v] # NoOutput => last_output[v] = output[v]
  BY <1>1 DEF Good
<1> HIDE DEF t
<1>12. ASSUME NEW v \in occupied \ {w}, output[v] # NoOutput
       PROVE  \/ output'[v] = output[v]
              \/ output'[v] = NoOutput /\ last_output'[v] = output[v]
  BY <1>1, <1>4, <1>8, <1>9, <1>11, <1>12 DEF Stays, StepsBack
<1>13. ASSUME NEW v \in occupied \ {w}, output[v] = NoOutput, output'[v] # NoOutput
       PROVE  \A u \in Workspaces \ occupied : output[u] # NoOutput
  BY <1>1, <1>4, <1>8, <1>9, <1>13
<1> QED
  BY <1>7, <1>8, <1>9, <1>10, <1>12, <1>13

\* What the release of w does.
LEMMA ReleaseKeeps ==
    ASSUME EnoughWorkspaces, IInv, NEW w \in Workspaces, ReleaseIfEmpty(w)
    PROVE  \A v \in Workspaces \ {w} :
             /\ output[v] # NoOutput => output'[v] = output[v]
             /\ v \in occupied /\ output[v] = NoOutput /\ output'[v] # NoOutput =>
                  \A u \in Workspaces \ occupied : output[u] # NoOutput
<1> DEFINE s == [Current EXCEPT !.occ = occupied']
           t == Withdraw(s, w)
<1>1. /\ connected \subseteq Outputs /\ Good(Current, connected)
      /\ occupied' = occupied \ {w} /\ occupied \subseteq Workspaces
      /\ output[w] # NoOutput
  BY DEF ReleaseIfEmpty, IInv, TypeOK
<1>2. /\ s \in Assignments
      /\ s.output = Current.output /\ s.last = Current.last /\ s.active = Current.active
      /\ s.output = output /\ s.occ = occupied'
  BY <1>1 DEF Current, Assignments, Good
<1>3. Good(s, connected)
  BY <1>1, <1>2, GoodWhateverOccupied
<1>4. output' = t.output
  BY DEF ReleaseIfEmpty, Becomes
<1> HIDE DEF s
<1>5. \A v \in Workspaces \ {w} :
        /\ s.output[v] # NoOutput => Stays(s, t, v)
        /\ v \in s.occ /\ s.output[v] = NoOutput /\ t.output[v] # NoOutput =>
             \A u \in Workspaces \ s.occ : s.output[u] # NoOutput
  BY <1>1, <1>2, <1>3, WithdrawKeeps
<1> HIDE DEF t
<1> QED
  BY <1>1, <1>2, <1>4, <1>5 DEF Stays

\* A new output hides no workspace.
LEMMA OutputCreateKeeps ==
    ASSUME IInv, NEW o \in Outputs, OutputCreate(o)
    PROVE  /\ connected' # connected
           /\ \A v \in Workspaces : output[v] # NoOutput => output'[v] # NoOutput
<1> DEFINE free == First({v \in Workspaces : output[v] = NoOutput})
           w    == IF free = NoWorkspace THEN 1 ELSE free
<1>1. /\ output' = [output EXCEPT ![w] = o] /\ output \in [Workspaces -> Outputs \cup {NoOutput}]
  BY DEF OutputCreate, Becomes, Show, SetActive, Current, IInv, TypeOK, Assignments
<1>2. connected' # connected
  BY DEF OutputCreate
<1> HIDE DEF w
<1> QED
  BY <1>1, <1>2

\* An output that goes leaves the workspaces of the others alone.
LEMMA OutputDestroyKeeps ==
    ASSUME IInv, NEW o \in Outputs, OutputDestroy(o)
    PROVE  /\ connected' # connected /\ o \notin connected'
           /\ \A v \in Workspaces : output[v] \notin {NoOutput, o} => output'[v] = output[v]
<1>1. connected' # connected /\ o \notin connected'
  BY DEF OutputDestroy
<1>2. /\ active[o] \in Workspaces /\ output[active[o]] = o /\ active[o] # NoWorkspace
      /\ output \in [Workspaces -> Outputs \cup {NoOutput}]
  BY DEF OutputDestroy, IInv, TypeOK, Good, Current, Workspaces, NoWorkspace, Assignments
<1>3. output' = [output EXCEPT ![active[o]] = NoOutput]
  BY <1>2 DEF OutputDestroy, Becomes, Forget, SetActive, Hide, Current
<1> QED
  BY <1>1, <1>2, <1>3
-----------------------------------------------------------------------------
(* The theorems                                                            *)

(***************************************************************************)
(* A switch never shuffles the occupied workspaces between outputs, and    *)
(* brings the one asked for up at home.                                    *)
(***************************************************************************)
THEOREM SwitchesKeepHomes ==
    ASSUME EnoughWorkspaces
    PROVE  Spec => SwitchKeepsHomes
<1>1. ASSUME IInv, [Next]_vars
      PROVE  [\A w \in Workspaces :
                SwitchWorkspace(w) =>
                  /\ \A v \in occupied \ {w} :
                       output[v] # NoOutput =>
                         \/ output'[v] = output[v]
                         \/ output'[v] = NoOutput /\ last_output'[v] = output[v]
                  /\ w \in occupied /\ last_output[w] # NoOutput =>
                       output'[w] = last_output[w]]_vars
  BY <1>1, SwitchKeeps
<1> QED
  BY <1>1, Inductive, PTL DEF Spec, SwitchKeepsHomes

(***************************************************************************)
(* A workspace with views that has to give way remembers its output, as    *)
(* long as that is plugged in.                                             *)
(***************************************************************************)
THEOREM HomesRemembered ==
    ASSUME EnoughWorkspaces
    PROVE  Spec => OccupiedRemembersHome
<1>1. ASSUME IInv, Next, NEW w \in occupied \cap occupied',
             output[w] # NoOutput, output'[w] = NoOutput, output[w] \in connected'
      PROVE  last_output'[w] = output[w]
  <2>0. w \in Workspaces
    BY <1>1 DEF IInv, TypeOK
  <2>1. CASE \E v \in Workspaces : SwitchWorkspace(v)
    BY <1>1, <2>0, <2>1, SwitchKeeps
  <2>2. CASE \E v \in Workspaces : ReleaseIfEmpty(v)
    <3>1. PICK v \in Workspaces : ReleaseIfEmpty(v)
      BY <2>2
    <3>2. v # w
      BY <1>1, <3>1 DEF ReleaseIfEmpty
    <3> QED
      BY <1>1, <2>0, <3>1, <3>2, ReleaseKeeps
  <2>3. CASE \E o \in Outputs : OutputCreate(o)
    BY <1>1, <2>0, <2>3, OutputCreateKeeps
  <2>4. CASE \E o \in Outputs : OutputDestroy(o)
    BY <1>1, <2>0, <2>4, OutputDestroyKeeps
  <2>5. CASE ViewsChange
    BY <1>1, <2>5 DEF ViewsChange, assignment
  <2> QED
    BY <1>1, <2>1, <2>2, <2>3, <2>4, <2>5 DEF Next
<1>2. ASSUME IInv, [Next]_vars
      PROVE  [\A w \in occupied \cap occupied' :
                /\ output[w] # NoOutput
                /\ output'[w] = NoOutput
                /\ output[w] \in connected'
                => last_output'[w] = output[w]]_vars
  BY <1>1, <1>2
<1> QED
  BY <1>2, Inductive, PTL DEF Spec, OccupiedRemembersHome

(***************************************************************************)
(* An output that loses its workspace takes no occupied one from its home  *)
(* while an empty one is hidden.                                           *)
(***************************************************************************)
THEOREM FallbacksSpareHomes ==
    ASSUME EnoughWorkspaces
    PROVE  Spec => FallbackSparesHomes
<1>1. ASSUME IInv, Next, NEW w \in occupied, connected' = connected,
             output[w] = NoOutput, last_output[w] # NoOutput,
             output'[w] \notin {NoOutput, last_output[w]}
      PROVE  \A v \in Workspaces \ occupied : output[v] # NoOutput
  <2>0. w \in Workspaces
    BY <1>1 DEF IInv, TypeOK
  <2>1. CASE \E v \in Workspaces : SwitchWorkspace(v)
    BY <1>1, <2>0, <2>1, SwitchKeeps
  <2>2. CASE \E v \in Workspaces : ReleaseIfEmpty(v)
    <3>1. PICK v \in Workspaces : ReleaseIfEmpty(v)
      BY <2>2
    <3>2. v # w
      BY <1>1, <3>1 DEF ReleaseIfEmpty
    <3> QED
      BY <1>1, <2>0, <3>1, <3>2, ReleaseKeeps
  <2>3. CASE \E o \in Outputs : OutputCreate(o)
    BY <1>1, <2>3, OutputCreateKeeps
  <2>4. CASE \E o \in Outputs : OutputDestroy(o)
    BY <1>1, <2>4, OutputDestroyKeeps
  <2>5. CASE ViewsChange
    BY <1>1, <2>5 DEF ViewsChange, assignment
  <2> QED
    BY <1>1, <2>1, <2>2, <2>3, <2>4, <2>5 DEF Next
<1>2. ASSUME IInv, [Next]_vars
      PROVE  [\A w \in occupied :
                /\ connected' = connected
                /\ output[w] = NoOutput
                /\ last_output[w] # NoOutput
                /\ output'[w] \notin {NoOutput, last_output[w]}
                => \A v \in Workspaces \ occupied : output[v] # NoOutput]_vars
  BY <1>1, <1>2
<1> QED
  BY <1>2, Inductive, PTL DEF Spec, FallbackSparesHomes
=============================================================================
