-------------------------------- MODULE Ipc --------------------------------
(***************************************************************************)
(* The command socket of the compositor (src/ipc.c): clients connect,      *)
(* write lines and hang up; the event loop reads what has arrived into a   *)
(* buffer of fixed size per client and runs every complete line.  A byte   *)
(* stream knows no lines: a command may arrive in any number of pieces,    *)
(* several may arrive at once, and one may be longer than the buffer.      *)
(*                                                                         *)
(* What a command does to the workspaces is SwitchWorkspace of Workspaces; *)
(* here a command is the text that is run.  The answers written back       *)
(* change nothing in the server and are left out.                          *)
(***************************************************************************)
EXTENDS Integers, Sequences, FiniteSets

CONSTANTS Clients,
          Letters, Blank, Newline,  \* the bytes; Blank is what isspace accepts
          BufSize,                  \* sizeof(client->buf), 4096
          MaxSent                   \* bound: the bytes a connection carries

ASSUME BytesAssumption == Blank \notin Letters /\ Newline \notin Letters \cup {Blank}
ASSUME SizesAssumption == BufSize \in Nat \ {0, 1} /\ MaxSent \in Nat

Bytes == Letters \cup {Blank, Newline}

VARIABLES
    state,    \* of the connection: "none", "open", "hung up" (by the client)
    sent,     \* every byte the client wrote
    unread,   \* how many of those the compositor has not read
    buf,      \* client->buf, up to client->len
    ran       \* every command the connection ran

vars == <<state, sent, unread, buf, ran>>
-----------------------------------------------------------------------------
\* ipc_trim
Trim(line) ==
    LET text == {i \in DOMAIN line : line[i] # Blank} IN
    IF text = {} THEN <<>>
    ELSE SubSeq(line, CHOOSE i \in text : \A j \in text : i <= j,
                      CHOOSE i \in text : \A j \in text : j <= i)

\* ipc_process_command: a blank line is no command.
Run(commands, line) ==
    IF Trim(line) = <<>> THEN commands ELSE Append(commands, Trim(line))

\* Mutants of Drain: one line for every read; a line that ran stays in the
\* buffer.
DrainOne(bytes, commands) ==
    LET ends == {i \in DOMAIN bytes : bytes[i] = Newline}
        end == CHOOSE i \in ends : \A j \in ends : i <= j
    IN  IF ends = {} THEN [rest |-> bytes, ran |-> commands]
        ELSE [rest |-> SubSeq(bytes, end + 1, Len(bytes)),
              ran |-> Run(commands, SubSeq(bytes, 1, end - 1))]
DrainKeeps(bytes, commands) ==
    LET after[n \in 0..Len(bytes)] ==
          IF n = 0 THEN [rest |-> <<>>, ran |-> commands]
          ELSE IF bytes[n] = Newline
               THEN [after[n - 1] EXCEPT !.ran = Run(@, after[n - 1].rest)]
               ELSE [after[n - 1] EXCEPT !.rest = Append(@, bytes[n])]
    IN  after[Len(bytes)]

\* A byte of the buffer: a newline ends the line and runs it.
Take(line, byte) ==
    IF byte = Newline THEN [rest |-> <<>>, ran |-> Run(line.ran, line.rest)]
    ELSE [line EXCEPT !.rest = Append(@, byte)]

\* The loop over the buffer: runs each complete line and keeps the rest.
Drain(bytes, commands) ==
    LET after[n \in 0..Len(bytes)] ==
          IF n = 0 THEN [rest |-> <<>>, ran |-> commands]
          ELSE Take(after[n - 1], bytes[n])
    IN  after[Len(bytes)]

\* A buffer that is full and holds no newline is thrown away.
Spill(bytes) == IF Len(bytes) = BufSize THEN <<>> ELSE bytes

\* Mutant of Arriving: hanging up is looked at before what can be read.
ArrivingUnlessGone(c) == IF state[c] = "hung up" THEN 0
                         ELSE IF unread[c] < BufSize - Len(buf[c]) THEN unread[c]
                         ELSE BufSize - Len(buf[c])

\* read: as much as there is and as fits.
Arriving(c) == IF unread[c] < BufSize - Len(buf[c]) THEN unread[c]
               ELSE BufSize - Len(buf[c])
-----------------------------------------------------------------------------
\* ipc_listen_fd: a new connection starts with an empty buffer.
Connect(c) ==
    /\ state[c] = "none"
    /\ state' = [state EXCEPT ![c] = "open"]
    /\ sent' = [sent EXCEPT ![c] = <<>>]
    /\ unread' = [unread EXCEPT ![c] = 0]
    /\ buf' = [buf EXCEPT ![c] = <<>>]
    /\ ran' = [ran EXCEPT ![c] = <<>>]

\* The client writes a byte, or closes its end.
Write(c, b) ==
    /\ state[c] = "open"
    /\ Len(sent[c]) < MaxSent
    /\ sent' = [sent EXCEPT ![c] = Append(@, b)]
    /\ unread' = [unread EXCEPT ![c] = @ + 1]
    /\ UNCHANGED <<state, buf, ran>>
HangUp(c) ==
    /\ state[c] = "open"
    /\ state' = [state EXCEPT ![c] = "hung up"]
    /\ UNCHANGED <<sent, unread, buf, ran>>

\* ipc_client_fd: one read, every complete line in the buffer, and the end of
\* the connection if the client is gone (EOF, or a hang-up with more to read).
Event(c) ==
    LET read == Len(sent[c]) - unread[c]
        bytes == SubSeq(sent[c], read + 1, read + Arriving(c))
        drained == Drain(buf[c] \o bytes, ran[c])
    IN  /\ state[c] # "none"
        /\ state[c] = "hung up" \/ unread[c] > 0
        /\ buf' = [buf EXCEPT ![c] = Spill(drained.rest)]
        /\ ran' = [ran EXCEPT ![c] = drained.ran]
        /\ unread' = [unread EXCEPT ![c] = @ - Arriving(c)]
        /\ state' = [state EXCEPT ![c] = IF @ = "open" /\ Arriving(c) > 0 THEN @ ELSE "none"]
        /\ UNCHANGED sent

Init == /\ state = [c \in Clients |-> "none"]
        /\ sent = [c \in Clients |-> <<>>]
        /\ unread = [c \in Clients |-> 0]
        /\ buf = [c \in Clients |-> <<>>]
        /\ ran = [c \in Clients |-> <<>>]

Next == \E c \in Clients :
          \/ Connect(c) \/ HangUp(c) \/ Event(c)
          \/ \E b \in Bytes : Write(c, b)

\* The event loop is level-triggered: it comes back to a socket as long as
\* there is something to read.  Clients owe nothing.
Fairness == \A c \in Clients : WF_vars(Event(c))

Spec == Init /\ [][Next]_vars /\ Fairness
-----------------------------------------------------------------------------
(* Properties                                                              *)

\* Between two events a buffer has room: read with a length of zero would
\* return zero, which the handler takes for the end of the connection.
TypeOK ==
    /\ state \in [Clients -> {"none", "open", "hung up"}]
    /\ \A c \in Clients :
         /\ sent[c] \in Seq(Bytes) /\ Len(sent[c]) <= MaxSent
         /\ unread[c] \in 0..Len(sent[c])
         /\ buf[c] \in Seq(Bytes) /\ Len(buf[c]) < BufSize
         /\ ran[c] \in Seq(Seq(Letters \cup {Blank}))

\* Where the lines of a text end, and the line that ends at one of these
\* places, defined without regard to how the text arrives.
Ends(text) == {i \in DOMAIN text : text[i] = Newline}
Begins(text, j, i) ==
    /\ j = 1 \/ text[j - 1] = Newline
    /\ \A k \in j..i - 1 : text[k] # Newline
LineAt(text, i) == SubSeq(text, CHOOSE j \in 1..i : Begins(text, j, i), i - 1)

\* The lines that are not blank; these commands are exactly those lines, in the
\* order of the text.
Commanded(text) == {i \in Ends(text) : Trim(LineAt(text, i)) # <<>>}
AreLinesOf(commands, text) ==
    \E at \in [DOMAIN commands -> Commanded(text)] :
      /\ \A n \in DOMAIN commands : commands[n] = Trim(LineAt(text, at[n]))
      /\ \A n, k \in DOMAIN commands : n < k => at[n] < at[k]
      /\ \A i \in Commanded(text) : \E n \in DOMAIN commands : at[n] = i

\* Every line of a text, the unfinished one included, fits the buffer with its
\* newline.
Fits(text) ==
    \A i \in 0..Len(text) - BufSize : \E j \in i + 1..i + BufSize : text[j] = Newline

Read(c) == SubSeq(sent[c], 1, Len(sent[c]) - unread[c])

\* However the bytes of a client are cut up by the socket, it runs exactly the
\* lines that were read, in their order, as long as they fit the buffer.
RunsWhatWasSent == \A c \in Clients : Fits(Read(c)) => AreLinesOf(ran[c], Read(c))

\* A line that is too long is never run whole, nor glued to the next one: what
\* runs is always the tail of one line.
RunsTailsOfLines ==
    \A c \in Clients : \A n \in DOMAIN ran[c] :
      \E i \in Ends(Read(c)) :
        LET line == Trim(LineAt(Read(c), i)) IN
        \E k \in DOMAIN line : ran[c][n] = SubSeq(line, k, Len(line))

\* A client that writes its commands and hangs up at once, as a shell script
\* does, has had them run when the connection ends, if they fit one read.
HangUpRunsTheRest ==
    [][\A c \in Clients :
         /\ state[c] = "hung up" /\ state'[c] = "none"
         /\ unread[c] <= BufSize - Len(buf[c])
         /\ Fits(sent[c])
         => AreLinesOf(ran'[c], sent[c])]_vars

\* A command that was sent is run, unless the client hangs up: no line stays in
\* the buffer to wait for the next one.
CommandsRun ==
    \A c \in Clients : \A n \in 1..MaxSent :
      (state[c] = "open" /\ Fits(sent[c]) /\ Cardinality(Commanded(sent[c])) >= n)
        ~> (Len(ran[c]) >= n \/ state[c] # "open")
=============================================================================
