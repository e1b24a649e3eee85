---------------------------- MODULE ClientSession ----------------------------
(***************************************************************************)
(* One client (client/src/lib.rs, run_client) and the handler that serves  *)
(* it, over the two directions of one TCP connection.                      *)
(*                                                                         *)
(* The client is two tasks after the login: a receiver that shows what     *)
(* arrives, and the main loop that sends what the user types and, at the   *)
(* end, tells the receiver to stop.  The handler is a single task: while   *)
(* it writes it does not read.  A direction holds SocketBuffer frames at   *)
(* most, so a write may wait for the other side to read.                   *)
(*                                                                         *)
(* The handler is handle_client reduced to what it does to its socket; the *)
(* other clients and the database are choices here (ChatServer has them).  *)
(* What a dropped receive or a line over the limit does to the stream of   *)
(* bytes is in Framing; here the handler loses its alignment with the      *)
(* frames, may make anything of what follows, and may get it back.         *)
(***************************************************************************)
EXTENDS Naturals, Sequences

CONSTANTS SocketBuffer,   \* frames in flight in one direction
          MaxLines,       \* bound: lines the user sends
          MaxBroadcasts   \* bound: broadcasts the handler forwards

ASSUME SessionAssumption ==
    /\ SocketBuffer \in Nat \ {0}
    /\ MaxLines \in Nat
    /\ MaxBroadcasts \in Nat

VARIABLES main,      \* the next step of the client's main task
          receiver,  \* the client's receiver task
          handler,   \* the next step of the server's task
          toServer,  \* frames on their way: 0 is the login, then lines
          toClient,  \* frames on their way: "LoginOk", "Error" or a number
          reset,     \* the connection was reset
          align,     \* is the handler's next read at the start of a frame?
          typed,     \* lines the user has typed
          heard,     \* history: the lines the handler received
          said,      \* history: what the handler wrote after LoginOk, counted
          forwarded, \* bound: broadcasts taken so far
          shown      \* history: what the receiver showed

clientVars  == <<main, receiver>>
streamVars  == <<toServer, toClient, reset>>
historyVars == <<align, typed, heard, said, forwarded, shown>>
vars        == <<clientVars, handler, streamVars, historyVars>>

LoginFrame == 0
(* "Feed" is a broadcast or an error after the login: both are shown.       *)
Frame      == [kind : {"LoginOk", "Error", "Feed"}, n : Nat]
MainStep   == {"login", "answer", "prompt", "send", "quit", "done"}
ServerStep == {"login", "welcome", "refuse", "reject", "loop", "work", "write",
               "tryWrite", "closed"}

TypeOK ==
    /\ main \in MainStep
    /\ receiver \in {"none", "reading", "done"}
    /\ handler \in ServerStep
    /\ toServer \in Seq(0..MaxLines) /\ Len(toServer) <= SocketBuffer
    /\ toClient \in Seq(Frame) /\ Len(toClient) <= SocketBuffer
    /\ reset \in BOOLEAN /\ align \in {"kept", "lost", "regained"}
    /\ typed \in 0..MaxLines
    /\ heard \in Seq(1..MaxLines)
    /\ said \in Nat /\ shown \in Seq(Nat)
    /\ forwarded \in 0..MaxBroadcasts

Init ==
    /\ main = "login" /\ receiver = "none" /\ handler = "login"
    /\ toServer = <<>> /\ toClient = <<>>
    /\ reset = FALSE /\ align = "kept"
    /\ typed = 0 /\ heard = <<>>
    /\ said = 0 /\ shown = <<>>
    /\ forwarded = 0

-----------------------------------------------------------------------------
(* The connection.                                                          *)

(* The socket is open while one of the halves is: the main task has the    *)
(* writer, the receiver the reader.                                        *)
ClientOpen == main # "done" \/ receiver = "reading"
ServerOpen == handler # "closed"

Prefixes(s) == {SubSeq(s, 1, n) : n \in 0..Len(s)}

(* What had not been read when the reset came may be lost. *)
Reset ==
    /\ reset' = TRUE
    /\ toServer' \in Prefixes(toServer)
    /\ toClient' \in Prefixes(toClient)

(* A write the kernel accepts; after the peer has closed it goes nowhere,  *)
(* and the answer to it is a reset.                                        *)
WriteToServer(f) ==
    /\ ~reset
    /\ IF ServerOpen
       THEN /\ Len(toServer) < SocketBuffer
            /\ toServer' = Append(toServer, f)
            /\ UNCHANGED <<toClient, reset>>
       ELSE Reset

WriteToClient(f) ==
    /\ ~reset
    /\ IF ClientOpen
       THEN /\ Len(toClient) < SocketBuffer
            /\ toClient' = Append(toClient, f)
            /\ UNCHANGED <<toServer, reset>>
       ELSE Reset

(* Nothing more will arrive: read_exact meets the end, or an error. *)
EndOfInput  == toClient = <<>> /\ (reset \/ ~ServerOpen)
EndOfOutput == toServer = <<>> /\ (reset \/ ~ClientOpen)

ConnectionReset ==
    /\ ~reset
    /\ Reset
    /\ UNCHANGED <<clientVars, handler, historyVars>>

-----------------------------------------------------------------------------
(* run_client: login.                                                       *)

(* The login sent again before it was answered. *)
MutantSendLogin ==
    /\ main = "login"
    /\ WriteToServer(LoginFrame)
    /\ main' \in {"answer", "login"}
    /\ UNCHANGED <<receiver, handler, historyVars>>

SendLogin ==
    /\ main = "login"
    /\ \/ WriteToServer(LoginFrame) /\ main' = "answer"
       \/ reset /\ main' = "done" /\ UNCHANGED streamVars
    /\ UNCHANGED <<receiver, handler, historyVars>>

(* LoginOk starts the two tasks; anything else, or no answer, ends it. *)
ReceiveAnswer ==
    /\ main = "answer"
    /\ toClient # <<>>
    /\ toClient' = Tail(toClient)
    /\ IF Head(toClient).kind = "LoginOk"
       THEN main' = "prompt" /\ receiver' = "reading"
       ELSE main' = "done" /\ UNCHANGED receiver
    /\ UNCHANGED <<handler, toServer, reset, historyVars>>

AnswerFails ==
    /\ main = "answer"
    /\ EndOfInput
    /\ main' = "done"
    /\ UNCHANGED <<receiver, handler, streamVars, historyVars>>

-----------------------------------------------------------------------------
(* run_client: the main loop.  Lines that send nothing (.help, an empty or *)
(* unknown line, a file that cannot be read) change nothing.               *)

(* Input taken while the line before is still being written. *)
MutantTypeLine ==
    /\ main \in {"prompt", "send"}
    /\ typed < MaxLines
    /\ typed' = typed + 1
    /\ main' = "send"
    /\ UNCHANGED <<receiver, handler, streamVars, align, heard, said, forwarded, shown>>

TypeLine ==
    /\ main = "prompt"
    /\ typed < MaxLines
    /\ typed' = typed + 1
    /\ main' = "send"
    /\ UNCHANGED <<receiver, handler, streamVars, align, heard, said, forwarded, shown>>

(* A connection error ends the loop. *)
SendLine ==
    /\ main = "send"
    /\ \/ WriteToServer(typed) /\ main' = "prompt"
       \/ reset /\ main' = "quit" /\ UNCHANGED streamVars
    /\ UNCHANGED <<receiver, handler, historyVars>>

(* .quit, the end of stdin, or an error reading it. *)
Quit ==
    /\ main = "prompt"
    /\ main' = "quit"
    /\ UNCHANGED <<receiver, handler, streamVars, historyVars>>

(* `?` on the flush of stdout leaves run_client at once. *)
FlushFails ==
    /\ main = "prompt"
    /\ main' = "done"
    /\ UNCHANGED <<receiver, handler, streamVars, historyVars>>

(* The receiver told to stop only after it has stopped. *)
MutantSignalShutdown ==
    /\ main = "quit"
    /\ receiver = "done"
    /\ main' = "done"
    /\ UNCHANGED <<receiver, handler, streamVars, historyVars>>

(* The channel has room for the one signal, or nobody listens any more. *)
SignalShutdown ==
    /\ main = "quit"
    /\ main' = "done"
    /\ UNCHANGED <<receiver, handler, streamVars, historyVars>>

-----------------------------------------------------------------------------
(* run_client: the receiver task. *)

(* One task for both directions: nothing is read while a line is sent. *)
MutantReceiverShows ==
    /\ receiver = "reading"
    /\ main # "send"
    /\ toClient # <<>>
    /\ toClient' = Tail(toClient)
    /\ shown' = Append(shown, Head(toClient).n)
    /\ UNCHANGED <<clientVars, handler, toServer, reset, align, typed, heard, said, forwarded>>

ReceiverShows ==
    /\ receiver = "reading"
    /\ toClient # <<>>
    /\ toClient' = Tail(toClient)
    /\ shown' = Append(shown, Head(toClient).n)
    /\ UNCHANGED <<clientVars, handler, toServer, reset, align, typed, heard, said, forwarded>>

(* A close that is noticed before what came ahead of it is read. *)
MutantReceiverEnds ==
    /\ receiver = "reading"
    /\ reset \/ ~ServerOpen
    /\ receiver' = "done"
    /\ UNCHANGED <<main, handler, streamVars, historyVars>>

(* ConnectionClosed or a ConnectionError: the main loop is not told. *)
ReceiverEnds ==
    /\ receiver = "reading"
    /\ EndOfInput
    /\ receiver' = "done"
    /\ UNCHANGED <<main, handler, streamVars, historyVars>>

(* The signal, its sender dropped, or the process exiting under the task. *)
ReceiverStops ==
    /\ receiver = "reading"
    /\ main = "done"
    /\ receiver' = "done"
    /\ UNCHANGED <<main, handler, streamVars, historyVars>>

ClientKilled ==
    /\ ClientOpen
    /\ main' = "done"
    /\ receiver' = IF receiver = "reading" THEN "done" ELSE receiver
    /\ UNCHANGED <<handler, streamVars, historyVars>>

-----------------------------------------------------------------------------
(* handle_client, from the socket's side.                                   *)

HandlerGoes(s) == handler' = s

(* `let _ = error.send(writer).await` *)
TryWriteError(s) ==
    /\ \/ WriteToClient([kind |-> "Error", n |-> 0])
       \/ (reset \/ ~ClientOpen) /\ UNCHANGED streamVars
    /\ HandlerGoes(s)

HandlerReceivesLogin ==
    /\ handler = "login"
    /\ \/ /\ toServer # <<>>
          /\ toServer' = Tail(toServer)
          /\ HandlerGoes("welcome") \/ HandlerGoes("refuse")
       \/ /\ EndOfOutput
          /\ HandlerGoes("reject")
          /\ UNCHANGED toServer
    /\ UNCHANGED <<clientVars, toClient, reset, historyVars>>

(* A login that is accepted without a word. *)
MutantHandlerWelcomes ==
    /\ handler = "welcome"
    /\ HandlerGoes("loop")
    /\ UNCHANGED <<clientVars, streamVars, historyVars>>

HandlerWelcomes ==
    /\ handler = "welcome"
    /\ \/ WriteToClient([kind |-> "LoginOk", n |-> 0]) /\ HandlerGoes("loop")
       \/ reset /\ HandlerGoes("reject") /\ UNCHANGED streamVars
    /\ UNCHANGED <<clientVars, historyVars>>

(* The refusal is written twice: by authenticate_client, then by its caller. *)
HandlerRefuses ==
    /\ \/ handler = "refuse" /\ TryWriteError("reject")
       \/ handler = "reject" /\ TryWriteError("closed")
    /\ UNCHANGED <<clientVars, historyVars>>

HandlerHears ==
    /\ handler = "loop"
    /\ align # "lost"
    /\ toServer # <<>>
    /\ toServer' = Tail(toServer)
    /\ heard' = Append(heard, Head(toServer))
    /\ HandlerGoes("work")
    /\ UNCHANGED <<clientVars, toClient, reset, align, typed, said, forwarded, shown>>

(* MessageTooLarge is reported, and the payload is left in the stream.  A  *)
(* .file or .image sends any size; which lines do is settled here.         *)
HandlerTooLarge ==
    /\ handler = "loop"
    /\ align # "lost"
    /\ toServer # <<>>
    /\ align' = "lost"
    /\ HandlerGoes("write")
    /\ UNCHANGED <<clientVars, streamVars, typed, heard, said, forwarded, shown>>

(* Bytes from inside a frame are an error, a message nobody sent, or a     *)
(* wait for more; the next read may happen to be at a frame's start again. *)
(* Whatever is made of one frame's bytes is one outcome here.              *)
HandlerMishears ==
    /\ handler = "loop"
    /\ align = "lost"
    /\ \E n \in 1..Len(toServer) : toServer' = SubSeq(toServer, n + 1, Len(toServer))
    /\ align' \in {"lost", "regained"}
    /\ \E s \in {"loop", "work", "write"} : HandlerGoes(s)
    /\ UNCHANGED <<clientVars, toClient, reset, typed, heard, said, forwarded, shown>>

(* A closed connection reported like a malformed frame. *)
MutantHandlerLeaves ==
    /\ handler = "loop"
    /\ EndOfOutput
    /\ HandlerGoes("tryWrite")
    /\ UNCHANGED <<clientVars, streamVars, historyVars>>

HandlerLeaves ==
    /\ handler = "loop"
    /\ EndOfOutput
    /\ HandlerGoes("closed")
    /\ UNCHANGED <<clientVars, streamVars, historyVars>>

(* The message is stored and announced, or the failure has to be reported. *)
HandlerStores ==
    /\ handler = "work"
    /\ HandlerGoes("loop") \/ HandlerGoes("tryWrite")
    /\ UNCHANGED <<clientVars, streamVars, historyVars>>

(* A broadcast was ready first; a frame that had begun to arrive is lost. *)
HandlerTakesBroadcast ==
    /\ handler = "loop"
    /\ forwarded < MaxBroadcasts
    /\ forwarded' = forwarded + 1
    /\ \/ UNCHANGED align
       \/ (toServer # <<>> \/ main = "send") /\ align' = "lost"
    /\ HandlerGoes("write")
    /\ UNCHANGED <<clientVars, streamVars, typed, heard, said, shown>>

Say == WriteToClient([kind |-> "Feed", n |-> said + 1]) /\ said' = said + 1

(* Forwarding a broadcast, or complaining of a frame: failure ends the loop. *)
HandlerWrites ==
    /\ handler = "write"
    /\ \/ Say /\ HandlerGoes("loop")
       \/ reset /\ HandlerGoes("closed") /\ UNCHANGED <<streamVars, said>>
    /\ UNCHANGED <<clientVars, align, typed, heard, forwarded, shown>>

(* Reporting a failed store: failure is ignored. *)
HandlerReports ==
    /\ handler = "tryWrite"
    /\ \/ Say
       \/ (reset \/ ~ClientOpen) /\ UNCHANGED <<streamVars, said>>
    /\ HandlerGoes("loop")
    /\ UNCHANGED <<clientVars, align, typed, heard, forwarded, shown>>

ServerKilled ==
    /\ ServerOpen
    /\ HandlerGoes("closed")
    /\ toClient' \in Prefixes(toClient)
    /\ UNCHANGED <<clientVars, toServer, reset, historyVars>>

-----------------------------------------------------------------------------
MainTask     == SendLogin \/ ReceiveAnswer \/ AnswerFails \/ SendLine \/ SignalShutdown
ReceiverTask == ReceiverShows \/ ReceiverEnds \/ ReceiverStops
User         == TypeLine \/ Quit \/ FlushFails
HandlerReads ==
    \/ HandlerReceivesLogin
    \/ HandlerHears
    \/ HandlerTooLarge
    \/ HandlerMishears
    \/ HandlerLeaves
HandlerWorks ==
    \/ HandlerWelcomes
    \/ HandlerRefuses
    \/ HandlerStores
    \/ HandlerWrites
    \/ HandlerReports

Finished == ~ClientOpen /\ ~ServerOpen /\ UNCHANGED vars

Next ==
    \/ MainTask
    \/ ReceiverTask
    \/ User
    \/ HandlerReads
    \/ HandlerWorks
    \/ HandlerTakesBroadcast
    \/ ConnectionReset
    \/ ClientKilled
    \/ ServerKilled
    \/ Finished

Spec == Init /\ [][Next]_vars

(* Tasks that can go on are polled; select! starves neither of its two     *)
(* branches.  Nothing is assumed of the user, the failures or broadcasts.  *)
FairSpec ==
    /\ Spec
    /\ WF_vars(MainTask)
    /\ WF_vars(ReceiverTask)
    /\ SF_vars(HandlerReads)
    /\ WF_vars(HandlerWorks)

-----------------------------------------------------------------------------
(* The handler hears no line twice and none after a later one, whatever    *)
(* becomes of the stream.  And it leaves none out before one it hears,     *)
(* until a receive is dropped inside a frame (server/src/lib.rs:279) or a  *)
(* line is over the limit, whose payload is left in the stream (298): then *)
(* lines may go missing and later ones still be heard.                     *)
LinesInOrder ==
    /\ \A i \in 1..Len(heard) : \A j \in 1..(i - 1) : heard[j] < heard[i]
    /\ align = "kept" => \A i \in 1..Len(heard) : heard[i] = i

(* What is shown is what the handler wrote, in order; and the receiver     *)
(* ends by itself only after showing all of it, even if the server closed  *)
(* long before (client/src/lib.rs:98), unless the connection was reset or  *)
(* the server died.                                                        *)
ShownInOrder ==
    /\ \A i \in 1..Len(shown) : shown[i] = i
    /\ receiver = "done" => toClient = <<>> \/ main = "done"

(* A line being sent gets out or the loop ends: the handler may be waiting *)
(* for this client to read while the client waits for it, and the receiver *)
(* task is what keeps them apart (client/src/lib.rs:85).                   *)
LineGetsOut == main = "send" ~> main # "send"

(* The client is never left waiting for the answer to its login.           *)
LoginDecided == main = "answer" ~> main # "answer"

(* After .quit the connection is closed, whatever the receiver was at.     *)
QuitCloses == main = "quit" ~> ~ClientOpen

(* The handler notices that its client has gone, also from inside a write. *)
HandlerNotices == ~ClientOpen ~> ~ServerOpen
=============================================================================
