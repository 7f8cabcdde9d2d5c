----------------------------- MODULE Workspaces -----------------------------
(***************************************************************************)
(* Which workspace each output shows (src/workspace.c, src/output.c and    *)
(* the release of an empty workspace in src/server.c).                     *)
(*                                                                         *)
(* The compositor keeps the relation twice: Workspace.output (with         *)
(* Workspace.last_output, the output a hidden workspace returns to) and    *)
(* Output.active_workspace.  Five handlers update both sides by hand: the  *)
(* switch of a workspace (a key, the IPC socket or the ext-workspace       *)
(* protocol), the creation and the destruction of an output, and the       *)
(* destruction of the last view of a visible workspace.  The views are     *)
(* abstracted to the set of workspaces that hold one (workspace_empty).    *)
(*                                                                         *)
(* An assignment is a record of the three fields and of the workspaces     *)
(* that hold a view; each C helper is an operator from an assignment to    *)
(* the assignment it leaves behind.                                        *)
(***************************************************************************)
EXTENDS Naturals, FiniteSets

CONSTANTS Outputs,        \* the outputs that may be plugged in
          NumWorkspaces,  \* 10 in the code (workspaces_init)
          NoOutput        \* the NULL Output pointer

ASSUME NumWorkspacesAssumption == NumWorkspaces \in Nat \ {0}
ASSUME OutputsAssumption == IsFiniteSet(Outputs) /\ NoOutput \notin Outputs

Workspaces == 1..NumWorkspaces   \* in the order of server->workspaces
NoWorkspace == 0                 \* the NULL Workspace pointer

\* There is a hidden workspace for every output to fall back on.  The code
\* relies on it (10 workspaces) and never checks it.
EnoughWorkspaces == Cardinality(Outputs) < NumWorkspaces

VARIABLES
    connected,     \* the outputs in server->outputs
    output,        \* Workspace.output: where a workspace is visible
    last_output,   \* Workspace.last_output: where a hidden one returns to
    active,        \* Output.active_workspace
    active_output, \* Server.active_output
    occupied       \* the workspaces that are not empty: those of a view that
                   \* is mapped and not sticky

assignment == <<output, last_output, active>>
vars == <<connected, output, last_output, active, active_output, occupied>>

Assignments == [output : [Workspaces -> Outputs \cup {NoOutput}],
                last   : [Workspaces -> Outputs \cup {NoOutput}],
                active : [Outputs -> Workspaces \cup {NoWorkspace}],
                occ    : SUBSET Workspaces]

Current == [output |-> output, last |-> last_output, active |-> active,
            occ |-> occupied]

Becomes(s) == /\ output' = s.output
              /\ last_output' = s.last
              /\ active' = s.active
-----------------------------------------------------------------------------
(* The helpers of workspace.c                                              *)

\* wl_list_for_each over the ids 1, 2, ...: the first that qualifies.
First(S) == IF S = {} THEN NoWorkspace
            ELSE CHOOSE w \in S : \A v \in S : w <= v

\* Mutant of Hide: forgets the output of an occupied workspace too.
HideForgets(s, w) == [s EXCEPT !.output[w] = NoOutput, !.last[w] = NoOutput]

\* workspace_hide: an empty workspace forgets where it was.
Hide(s, w) ==
    [s EXCEPT !.output[w] = NoOutput,
              !.last[w] = IF w \in s.occ THEN @ ELSE NoOutput]

\* workspace_show
Show(s, w, o) == [s EXCEPT !.output[w] = o, !.last[w] = o]

\* output->active_workspace = w
SetActive(s, o, w) == [s EXCEPT !.active[o] = w]

\* Mutants of Replacement: the search for any hidden workspace is missing, and
\* the search for an empty one is missing.
ReplacementEmptyOnly(s, w) ==
    First({v \in Workspaces \ {w} : s.output[v] = NoOutput} \ s.occ)
ReplacementAny(s, w) ==
    First({v \in Workspaces \ {w} : s.output[v] = NoOutput})

\* The workspace an output falls back on when it loses w: the first hidden
\* empty one, else the first hidden one.
Replacement(s, w) ==
    LET hidden == {v \in Workspaces \ {w} : s.output[v] = NoOutput}
        empty  == hidden \ s.occ
    IN  First(IF empty # {} THEN empty ELSE hidden)

\* Takes the visible, empty workspace w from its output and gives that output
\* another: the opening of server_switch_workspace and the whole of
\* server_release_workspace_if_empty.
Withdraw(s, w) ==
    LET old    == s.output[w]
        hidden == [Hide(s, w) EXCEPT !.last[w] = NoOutput]
        next   == Replacement(hidden, w)
        freed  == SetActive(hidden, old, next)
    IN  IF s.active[old] # w THEN hidden
        ELSE IF next = NoWorkspace THEN freed
        ELSE Show(freed, next, old)

\* Mutant of Open: leaves the workspace that d showed as it was.
OpenUnhidden(s, w, d) == Show(SetActive(s, d, w), w, d)

\* The two branches of server_switch_workspace that bring w up on d.
Open(s, w, d) ==
    LET shown == s.active[d]
        clear == IF shown \in {NoWorkspace, w} THEN s ELSE Hide(s, shown)
    IN  Show(SetActive(clear, d, w), w, d)

\* Mutant of Destination: does not look at last_output.
DestinationHere(s, w, o) == IF s.output[w] # NoOutput THEN s.output[w] ELSE o

\* The output a switch requested on o ends up on.
Destination(s, w, o) ==
    IF s.output[w] # NoOutput THEN s.output[w]
    ELSE IF s.last[w] # NoOutput /\ w \in s.occ THEN s.last[w]
    ELSE o
-----------------------------------------------------------------------------
(* The handlers                                                            *)

\* An empty workspace that another output shows is first taken from it.
Pull(s, w, o) ==
    IF w \notin s.occ /\ s.output[w] \notin {NoOutput, o} THEN Withdraw(s, w) ELSE s

\* server_switch_workspace, as its three callers call it: on the active
\* output.  The pointer and the focus go to the destination.
SwitchWorkspace(w) ==
    LET s == Pull(Current, w, active_output)
        d == Destination(s, w, active_output)
    IN  /\ active_output # NoOutput
        /\ w # active[active_output]
        /\ Becomes(Open(s, w, d))
        /\ active_output' = d
        /\ UNCHANGED <<connected, occupied>>

\* server_release_workspace_if_empty, in server_view_destroyed: the last view
\* of the visible workspace w is gone.  The focus may move to another output.
ReleaseIfEmpty(w) ==
    /\ output[w] # NoOutput
    /\ occupied' = occupied \ {w}
    /\ Becomes(Withdraw([Current EXCEPT !.occ = occupied'], w))
    /\ active_output' \in connected \cup {active_output}
    /\ UNCHANGED connected

\* output_create: the first hidden workspace, occupied or not, or workspace 1
\* when every one is shown.  Views mapped while no output existed are adopted.
OutputCreate(o) ==
    LET free == First({w \in Workspaces : output[w] = NoOutput})
        w    == IF free = NoWorkspace THEN 1 ELSE free
    IN  /\ o \notin connected
        /\ connected' = connected \cup {o}
        /\ Becomes(Show(SetActive(Current, o, w), w, o))
        /\ active_output' = IF active_output = NoOutput THEN o ELSE active_output
        /\ occupied' \in {occupied, occupied \cup {w}}

\* Mutant of Forget: last_output is left to dangle.
ForgetNothing(s, o) == s

\* No workspace returns to o any more.
Forget(s, o) ==
    [s EXCEPT !.last = [w \in Workspaces |->
                          IF s.last[w] = o THEN NoOutput ELSE s.last[w]]]

\* The active output, when it is the one that goes, becomes another (the
\* newest); so does the focus, and the active output with it, when the focused
\* view was on the output that goes.
FallBack(o, left) ==
    active_output' \in IF left = {} THEN {NoOutput}
                       ELSE (left \cup {active_output}) \ {o}

\* output_destroy: hides the output's workspace and drops every pointer to the
\* output.
OutputDestroy(o) ==
    LET s    == IF active[o] = NoWorkspace THEN Current ELSE Hide(Current, active[o])
        left == connected \ {o}
    IN  /\ o \in connected
        /\ connected' = left
        /\ Becomes(Forget(SetActive(s, o, NoWorkspace), o))
        /\ FallBack(o, left)
        /\ UNCHANGED occupied

\* Views are mapped, unmapped, moved between workspaces and focused, and the
\* pointer crosses outputs: workspaces fill up and empty, any output may become
\* the active one, and the assignment stays.
ViewsChange ==
    /\ UNCHANGED <<connected, assignment>>
    /\ active_output' \in connected \cup {active_output}
    /\ occupied' \in SUBSET Workspaces

Init == /\ connected = {}
        /\ output = [w \in Workspaces |-> NoOutput]
        /\ last_output = [w \in Workspaces |-> NoOutput]
        /\ active = [o \in Outputs |-> NoWorkspace]
        /\ active_output = NoOutput
        /\ occupied = {}

Next == \/ ViewsChange
        \/ \E w \in Workspaces : SwitchWorkspace(w) \/ ReleaseIfEmpty(w)
        \/ \E o \in Outputs : OutputCreate(o) \/ OutputDestroy(o)

Spec == Init /\ [][Next]_vars
-----------------------------------------------------------------------------
(* Properties                                                              *)

TypeOK == /\ connected \subseteq Outputs
          /\ Current \in Assignments
          /\ active_output \in Outputs \cup {NoOutput}
          /\ occupied \subseteq Workspaces

\* The two sides of the relation agree: a workspace that thinks it is visible
\* is the active workspace of that output, and an output's active workspace
\* thinks it is visible there (Workspace.output against
\* Output.active_workspace).  So no workspace is shown twice.
SidesAgree ==
    /\ \A w \in Workspaces : output[w] # NoOutput => active[output[w]] = w
    /\ \A o \in connected : active[o] # NoWorkspace => output[active[o]] = o

\* "Each output shows one workspace": no connected output is left blank by a
\* switch, a release or the loss of another output.
NeverBlank == \A o \in connected : active[o] \in Workspaces

\* No Output pointer outlives the output: neither a workspace nor the server
\* refers to one that was freed in output_destroy.
NoDanglingOutput ==
    /\ \A w \in Workspaces : {output[w], last_output[w]} \subseteq connected \cup {NoOutput}
    /\ \A o \in Outputs \ connected : active[o] = NoWorkspace
    /\ active_output \in connected \cup {NoOutput}

\* The server has an active output whenever there is one to have: keys and IPC
\* commands always act somewhere.
ActiveOutputExists == connected # {} => active_output # NoOutput

\* A visible workspace that has to give way comes back to the same output:
\* while it holds views and the output is there, it remembers the output.
OccupiedRemembersHome ==
    [][\A w \in occupied \cap occupied' :
         /\ output[w] # NoOutput
         /\ output'[w] = NoOutput
         /\ output[w] \in connected'
         => last_output'[w] = output[w]]_vars

\* An output that loses its workspace does not take one that has views and a
\* home elsewhere while an empty one is free: only the arrival of an output or
\* the lack of hidden empty workspaces brings an occupied workspace up away
\* from the output it would return to.
FallbackSparesHomes ==
    [][\A w \in occupied :
         /\ connected' = connected
         /\ output[w] = NoOutput
         /\ last_output[w] # NoOutput
         /\ output'[w] \notin {NoOutput, last_output[w]}
         => \A v \in Workspaces \ occupied : output[v] # NoOutput]_vars

\* A switch never shuffles occupied workspaces between outputs: every visible,
\* occupied workspace is, afterwards, still on its output or hidden with that
\* output as the one to return to; and the one asked for is on its own output
\* if it had one.
SwitchKeepsHomes ==
    [][\A w \in Workspaces :
         SwitchWorkspace(w) =>
           /\ \A v \in occupied \ {w} :
                output[v] # NoOutput =>
                  \/ output'[v] = output[v]
                  \/ output'[v] = NoOutput /\ last_output'[v] = output[v]
           /\ w \in occupied /\ last_output[w] # NoOutput =>
                output'[w] = last_output[w]]_vars
=============================================================================
