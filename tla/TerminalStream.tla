--------------------------- MODULE TerminalStream ---------------------------
(***************************************************************************)
(* One terminal pane of the page: its WebSocket with the reconnection and  *)
(* the backoff (useTerminalSocket), its xterm, which is loaded while       *)
(* messages already arrive (useXtermInstance), and the session behind it   *)
(* with its scrollback and the size of its PTY (sessionRuntime).  Chunks   *)
(* of output are numbered as they are made; a socket is two queues, and    *)
(* its open and close events travel with the messages.                     *)
(***************************************************************************)
EXTENDS Naturals, Sequences

CONSTANTS
    Sizes,       \* the sizes a pane can have: cols and rows
    DefaultSize, \* the size a PTY is started with
    Keep,        \* chunks that fit into the scrollback
    MaxAttempts, \* the attempts at which the delay reaches its cap
    MaxOutput,   \* bound: chunks of output
    MaxConnects, \* bound: connections of the pane
    MaxResizes   \* bound: changes of the size of the pane

ASSUME StreamAssumption ==
    Keep \in Nat \ {0} /\ MaxAttempts \in Nat /\ Sizes \subseteq Nat \X Nat

VARIABLES
    session,  \* the session: whether it lives, its scrollback and size
    attached, \* the server holds the pane's socket among the clients
    down,     \* the events on their way to the pane
    up,       \* the resize messages on their way to the session
    pane,     \* the state of the pane
    made,     \* number of the last chunk of output
    connects, \* number of connections
    resizes,  \* number of changes of the size
    failures  \* history: starts of the session that failed, in a row

streamVars == <<session, attached, down, up, pane, made, connects, resizes, failures>>

StreamSeqs == INSTANCE SequencesExt
-----------------------------------------------------------------------------
NoPty == [live |-> FALSE, scroll |-> << >>, size |-> DefaultSize]
Unsent == <<0, 0>>
Opened == [kind |-> "open", data |-> << >>]
Closed == [kind |-> "close", data |-> << >>]
History(data) == [kind |-> "history", data |-> data]
Chunk(n) == [kind |-> "output", data |-> <<n>>]

\* A PTY is never narrower or shorter than this.
MinCols == 20
MinRows == 10
Clamp(s) == <<IF s[1] < MinCols THEN MinCols ELSE s[1], IF s[2] < MinRows THEN MinRows ELSE s[2]>>

\* fit is what FitAddon computes, sent lastSentCols and lastSentRows; history
\* and pending are the buffers from before the xterm is there.
NewPane(s) ==
    [conn |-> "connecting", attempts |-> 0, term |-> "loading", screen |-> << >>,
     hasHistory |-> FALSE, history |-> << >>, pending |-> << >>,
     fit |-> s, sent |-> Unsent, timer |-> FALSE]

StreamInit ==
    /\ session = NoPty /\ attached = FALSE /\ down = << >> /\ up = << >>
    /\ pane \in {NewPane(s) : s \in Sizes}
    /\ made = 0 /\ connects = 1 /\ resizes = 0 /\ failures = 0

-----------------------------------------------------------------------------
(* The session.                                                            *)

\* appendScrollback: the oldest chunks go; of one that is too long, the tail
\* alone stays.
Scrolled(scroll, n, long) ==
    IF long \/ Len(scroll) < Keep THEN IF long THEN <<n>> ELSE Append(scroll, n)
    ELSE Append(Tail(scroll), n)

\* broadcastMessage and sendMessage.
Broadcast(message) == down' = IF attached THEN Append(down, message) ELSE down

PtyOutput(long) ==
    /\ session.live /\ made < MaxOutput /\ made' = made + 1
    /\ session' = [session EXCEPT !.scroll = Scrolled(@, made', long)]
    /\ Broadcast(Chunk(made'))
    /\ UNCHANGED <<attached, up, pane, connects, resizes, failures>>

\* teardownSession closes the sockets; the note of an exit is broadcast before.
SessionEnds(exited) ==
    /\ session.live /\ session' = NoPty
    /\ made' = IF exited THEN made + 1 ELSE made
    /\ (exited => made < MaxOutput)
    /\ down' = down \o IF ~attached THEN << >>
                       ELSE IF exited THEN <<Chunk(made'), Closed>> ELSE <<Closed>>
    /\ attached' = FALSE /\ up' = << >>
    /\ UNCHANGED <<pane, connects, resizes, failures>>

\* The session is created and bootstrapped: one that resumes a conversation of
\* Claude starts with a banner in its scrollback.
Created(resumed) ==
    /\ ~session.live /\ (resumed => made < MaxOutput)
    /\ made' = IF resumed THEN made + 1 ELSE made
    /\ session' = [NoPty EXCEPT !.live = TRUE, !.scroll = IF resumed THEN <<made'>> ELSE << >>]

\* It is started over the API or for another client.
StartSession(resumed) ==
    /\ Created(resumed) /\ failures' = 0
    /\ UNCHANGED <<attached, down, up, pane, connects, resizes>>

\* resizeSession, or the pane of another page.
ResizeSession(s) ==
    /\ session.live /\ session.size # Clamp(s)
    /\ resizes < MaxResizes /\ resizes' = resizes + 1
    /\ session' = [session EXCEPT !.size = Clamp(s)]
    /\ UNCHANGED <<attached, down, up, pane, made, connects, failures>>

-----------------------------------------------------------------------------
(* handleUpgrade.                                                          *)

Connecting == pane.conn = "connecting" /\ down = << >> /\ ~attached

\* The pane joins a session, which is created where there is none: its banner is
\* broadcast to the pane, and comes again with the history.  History is sent when
\* something was printed, then the state, of which TerminalEvents takes care.
Upgrade(resumed) ==
    /\ Connecting
    /\ \/ session.live /\ ~resumed /\ UNCHANGED <<session, made>>
       \/ Created(resumed)
    /\ attached' = TRUE /\ failures' = 0
    /\ down' = <<Opened>> \o (IF resumed THEN <<Chunk(made')>> ELSE << >>)
                 \o (IF session'.scroll = << >> THEN << >> ELSE <<History(session'.scroll)>>)
    /\ UNCHANGED <<up, pane, connects, resizes>>

\* ensureSession throws after the socket was accepted.
UpgradeFailsToStart ==
    /\ Connecting /\ ~session.live /\ made < MaxOutput /\ made' = made + 1
    /\ failures' = failures + 1
    /\ down' = <<Opened, Chunk(made'), Closed>>
    /\ UNCHANGED <<session, attached, up, pane, connects, resizes>>

\* No such terminal, or no server.
UpgradeRefused ==
    /\ Connecting /\ down' = <<Closed>>
    /\ UNCHANGED <<session, attached, up, pane, made, connects, resizes, failures>>

\* A resize message that the session already has the size of changes nothing.
ReceiveResize ==
    /\ attached /\ up # << >> /\ up' = Tail(up)
    /\ session' = [session EXCEPT !.size = Clamp(Head(up))]
    /\ UNCHANGED <<attached, down, pane, made, connects, resizes, failures>>

\* The connection breaks; both sides see a close.
Break ==
    /\ attached /\ attached' = FALSE /\ up' = << >> /\ down' = Append(down, Closed)
    /\ UNCHANGED <<session, pane, made, connects, resizes, failures>>

-----------------------------------------------------------------------------
(* useTerminalSocket.                                                      *)

\* Mutant: output from before the history is kept.
BufferedAfter(p, data) == [p EXCEPT !.hasHistory = TRUE, !.history = data]

\* pendingHistoryRef is set and pendingOutputRef emptied.
Buffered(p, data) == [p EXCEPT !.hasHistory = TRUE, !.history = data, !.pending = << >>]

\* replayTerminalHistory resets the xterm.
HandleHistory(p, data) ==
    IF p.term = "ready" THEN [p EXCEPT !.screen = data] ELSE Buffered(p, data)

HandleOutput(p, data) ==
    IF p.term = "ready" THEN [p EXCEPT !.screen = @ \o data] ELSE [p EXCEPT !.pending = @ \o data]

\* requestResizeSync does nothing before the xterm is there.
HandleOpen(p) ==
    [p EXCEPT !.conn = "open", !.attempts = 0, !.timer = @ \/ p.term = "ready"]

HandleClose(p) ==
    [p EXCEPT !.conn = "waiting", !.attempts = IF @ < MaxAttempts THEN @ + 1 ELSE @]

Receive ==
    /\ down # << >> /\ down' = Tail(down)
    /\ LET message == Head(down)
       IN pane' = CASE message.kind = "open" -> HandleOpen(pane)
                    [] message.kind = "close" -> HandleClose(pane)
                    [] message.kind = "history" -> HandleHistory(pane, message.data)
                    [] message.kind = "output" -> HandleOutput(pane, message.data)
    /\ UNCHANGED <<session, attached, up, made, connects, resizes, failures>>

Reconnect ==
    /\ pane.conn = "waiting" /\ connects < MaxConnects /\ connects' = connects + 1
    /\ pane' = [pane EXCEPT !.conn = "connecting"]
    /\ UNCHANGED <<session, attached, down, up, made, resizes, failures>>

\* The panel is closed and opened again: new hooks, a new socket.
Remount ==
    /\ connects < MaxConnects /\ connects' = connects + 1
    /\ failures' = 0 /\ \E s \in Sizes : pane' = NewPane(s)
    /\ attached' = FALSE /\ down' = << >> /\ up' = << >>
    /\ UNCHANGED <<session, made, resizes>>

-----------------------------------------------------------------------------
(* useXtermInstance.                                                       *)

\* The modules are loaded: what was buffered is written, history first.
TerminalReady ==
    /\ pane.term = "loading"
    /\ pane' = [pane EXCEPT !.term = "ready", !.timer = TRUE,
                            !.screen = pane.history \o pane.pending,
                            !.hasHistory = FALSE, !.history = << >>, !.pending = << >>]
    /\ UNCHANGED <<session, attached, down, up, made, connects, resizes, failures>>

\* onSetupError; messages are buffered on.
TerminalFails ==
    /\ pane.term = "loading" /\ pane' = [pane EXCEPT !.term = "failed"]
    /\ UNCHANGED <<session, attached, down, up, made, connects, resizes, failures>>

\* The ResizeObserver, or a new layoutVersion; the size may be what it was.
Resize(s) ==
    /\ pane.term = "ready" /\ resizes < MaxResizes /\ resizes' = resizes + 1
    /\ pane' = [pane EXCEPT !.fit = s, !.timer = TRUE]
    /\ UNCHANGED <<session, attached, down, up, made, connects, failures>>

\* onVisibilityChange: the xterm is fitted, and nothing is scheduled to report it.
Refit(s) ==
    /\ pane.term = "ready" /\ pane.fit # s /\ resizes < MaxResizes /\ resizes' = resizes + 1
    /\ pane' = [pane EXCEPT !.fit = s]
    /\ UNCHANGED <<session, attached, down, up, made, connects, failures>>

\* sendResize notes the size as sent also when the socket takes no message.
SendResize ==
    /\ pane.timer /\ pane' = [pane EXCEPT !.timer = FALSE, !.sent = pane.fit]
    /\ up' = IF pane.sent # pane.fit /\ pane.conn = "open" /\ attached
             THEN Append(up, pane.fit) ELSE up
    /\ UNCHANGED <<session, attached, down, made, connects, resizes, failures>>

-----------------------------------------------------------------------------
StreamNext ==
    \/ \E long \in BOOLEAN : PtyOutput(long) \/ SessionEnds(long)
    \/ \E resumed \in BOOLEAN : StartSession(resumed) \/ Upgrade(resumed)
    \/ UpgradeFailsToStart \/ UpgradeRefused \/ ReceiveResize \/ Break
    \/ Receive \/ Reconnect \/ Remount \/ TerminalReady \/ TerminalFails \/ SendResize
    \/ \E s \in Sizes : ResizeSession(s) \/ Resize(s) \/ Refit(s)

\* Timers fire and messages arrive.
StreamFairness ==
    /\ WF_streamVars(SendResize) /\ WF_streamVars(ReceiveResize) /\ WF_streamVars(Receive)

StreamSpec == StreamInit /\ [][StreamNext]_streamVars /\ StreamFairness

-----------------------------------------------------------------------------
\* Types of the stream, and: a socket that is attached is one that was opened,
\* or whose opening is under way.
StreamTypeOK ==
    /\ session.size \in {Clamp(s) : s \in Sizes} \cup {DefaultSize} /\ Len(session.scroll) <= Keep
    /\ pane.attempts <= MaxAttempts /\ pane.term \in {"loading", "ready", "failed"}
    /\ pane.conn \in {"connecting", "open", "waiting"} /\ pane.fit \in Sizes
    /\ attached => session.live /\ pane.conn # "waiting"

\* useTerminalSocket, useXtermInstance: whatever was buffered while the xterm was
\* loading and however often the pane was reconnected, no output is shown
\* twice or out of order, and a connected pane that has received everything
\* shows all that the session still remembers, and nothing after it.
ScreenFollows ==
    /\ \A i, j \in DOMAIN pane.screen : i < j => pane.screen[i] < pane.screen[j]
    /\ (attached /\ down = << >> /\ pane.term = "ready") =>
          StreamSeqs!IsSuffix(session.scroll, pane.screen)

\* The stream of a terminal: its pane shows it in order, once and to the end.
StreamSafe == StreamTypeOK /\ ScreenFollows

\* What waits, and what comes of it, useXtermInstance and sessionRuntime: a size
\* that is due to be sent on an open socket reaches the PTY, which takes it as
\* far as it takes small sizes, unless the pane changes or the connection is lost
\* first.  A size that only onVisibilityChange fitted is not due.
Unreported(s) ==
    pane.conn = "open" /\ pane.term = "ready" /\ pane.timer /\ pane.fit = s /\ pane.sent # s
Reached(s) == session.size = Clamp(s) \/ pane.fit # s \/ pane.conn # "open"

\* useTerminalSocket "so a terminal that repeatedly fails to start (e.g. the OS is
\* out of PTYs) doesn't hammer the server": the delay grows with every start
\* that fails.
BackoffGrows ==
    pane.conn = "waiting" /\ failures <= MaxAttempts => pane.attempts >= failures
=============================================================================
