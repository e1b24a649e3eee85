--------------------------- MODULE SessionProofs ---------------------------
(***************************************************************************)
(* Both directions of a client's connection.  What the handler has still   *)
(* to hear are the lines that follow the ones that were taken from the     *)
(* stream, up to the one the main task types next (LinesInv); what the     *)
(* receiver has still to show are the frames that follow those it showed,  *)
(* up to the one the handler writes next (ShowsInv).  A reset or a death   *)
(* cuts the end off, and then nothing is written any more.                 *)
(***************************************************************************)
EXTENDS ClientSession, TLAPS

(* The frame the main task writes next. *)
Upcoming == IF main = "login" THEN LoginFrame ELSE IF main = "send" THEN typed ELSE typed + 1

(* The frame the handler takes next is first: whatever it heard is before  *)
(* it, and immediately before it as long as the handler is aligned.        *)
Lined(first) ==
    /\ \A i \in 1..Len(toServer) : toServer[i] = first + (i - 1)
    /\ \A j \in 1..Len(heard) : heard[j] < first
    /\ handler = "login" => first = LoginFrame
    /\ handler # "login" => first > LoginFrame /\ (align = "kept" => first = Len(heard) + 1)
    /\ ~reset /\ main # "done" => first + Len(toServer) = Upcoming

LinesInv ==
    /\ LinesInOrder
    /\ main \in {"login", "answer"} => typed = 0
    /\ handler = "login" => heard = <<>>
    /\ ServerOpen => \E first \in Nat : Lined(first)

(* The handler has not written LoginOk, *)
Silent   == {"login", "welcome", "refuse"}
(* or has, and goes on writing. *)
Greeted  == {"loop", "work", "write", "tryWrite"}

Feed(n) == [kind |-> "Feed", n |-> n]

(* What the client's two tasks are at together. *)
TasksInv ==
    /\ main \in {"login", "answer"} => receiver = "none"
    /\ main \in {"prompt", "send", "quit"} => receiver # "none"
    /\ receiver = "none" => shown = <<>>
    /\ receiver = "done" /\ main # "done" => toClient = <<>> /\ (reset \/ ~ServerOpen)

(* What is on its way to the receiver, or will be once it is started. *)
OnTheWay ==
    /\ receiver # "none" =>
         \A i \in 1..Len(toClient) : toClient[i] = Feed(Len(shown) + i)
    /\ receiver = "none" /\ main # "done" /\ toClient # <<>> /\ toClient[1].kind = "LoginOk" =>
         \A i \in 2..Len(toClient) : toClient[i] = Feed(i - 1)
    /\ handler \in Greeted /\ ~reset /\ receiver = "reading" =>
         Len(shown) + Len(toClient) = said
    /\ handler \in Greeted /\ ~reset /\ receiver = "none" /\ main # "done" =>
         Len(toClient) = said + 1 /\ toClient[1].kind = "LoginOk"

(* Before LoginOk nothing is said, and then only that it is refused. *)
Unwelcome ==
    /\ handler \in Silent => toClient = <<>>
    /\ handler \in Silent \cup {"reject"} =>
         /\ receiver = "none" /\ said = 0
         /\ \A i \in 1..Len(toClient) : toClient[i].kind = "Error"

ShowsInv == (\A i \in 1..Len(shown) : shown[i] = i) /\ TasksInv /\ OnTheWay /\ Unwelcome

SessionInv == TypeOK /\ LinesInv /\ ShowsInv

-----------------------------------------------------------------------------
(* What the constants are. *)
LEMMA SessionConstants ==
    SocketBuffer \in Nat \ {0} /\ MaxLines \in Nat /\ MaxBroadcasts \in Nat
BY SessionAssumption

(* t is s, or s with its end cut off. *)
Cut(t, s) ==
    /\ Len(t) \in Nat /\ Len(s) \in Nat /\ Len(t) <= Len(s)
    /\ \A i \in 1..Len(t) : t[i] = s[i]

(* Prefixes are that. *)
LEMMA PrefixCuts ==
    ASSUME NEW S, NEW s \in Seq(S), NEW t \in Prefixes(s)
    PROVE  t \in Seq(S) /\ Cut(t, s)
<1>1. PICK n \in 0..Len(s) : t = SubSeq(s, 1, n)
  BY DEF Prefixes
<1>2. n \in Nat /\ Len(s) \in Nat
  OBVIOUS
<1>3. t \in Seq(S) /\ Len(t) = n
  BY <1>1, <1>2
<1>4. \A i \in 1..n : t[i] = s[i]
  BY <1>1, <1>2
<1>5. QED
  BY <1>2, <1>3, <1>4 DEF Cut

(* A frame taken leaves the others, one place further on. *)
LEMMA TailShifts ==
    ASSUME NEW S, NEW s \in Seq(S), s # <<>>
    PROVE  /\ Tail(s) \in Seq(S) /\ Len(s) \in Nat \ {0} /\ Len(Tail(s)) = Len(s) - 1
           /\ \A i \in 1..Len(Tail(s)) : Tail(s)[i] = s[i + 1]
           /\ Head(s) = s[1] /\ s[1] \in S
OBVIOUS

(* So it does when more is taken than that. *)
LEMMA SuffixTyped ==
    ASSUME NEW S, NEW s \in Seq(S), NEW n \in 1..Len(s)
    PROVE  /\ SubSeq(s, n + 1, Len(s)) \in Seq(S)
           /\ Len(SubSeq(s, n + 1, Len(s))) = Len(s) - n /\ Len(s) \in Nat
<1>1. Len(s) \in Nat /\ n \in Nat /\ n <= Len(s)
  OBVIOUS
<1>2. \A i \in (n + 1)..Len(s) : s[i] \in S
  BY <1>1
<1>3. SubSeq(s, n + 1, Len(s)) \in Seq(S)
  BY <1>1, <1>2
<1>4. Len(SubSeq(s, n + 1, Len(s))) = Len(s) - n
  BY <1>1
<1>5. QED
  BY <1>1, <1>3, <1>4

(* A frame sent comes after the others. *)
LEMMA AppendLast ==
    ASSUME NEW S, NEW s \in Seq(S), NEW e \in S
    PROVE  /\ Append(s, e) \in Seq(S) /\ Len(s) \in Nat /\ Len(Append(s, e)) = Len(s) + 1
           /\ \A i \in 1..Len(s) : Append(s, e)[i] = s[i]
           /\ Append(s, e)[Len(s) + 1] = e
OBVIOUS

(* The two directions. *)
Streams ==
    /\ toServer \in Seq(0..MaxLines) /\ Len(toServer) <= SocketBuffer
    /\ toClient \in Seq(Frame) /\ Len(toClient) <= SocketBuffer
    /\ reset \in BOOLEAN

(* What stays of them when nothing is written to them but what is given. *)
CutServer == Cut(toServer', toServer) /\ (toServer' = toServer \/ reset')
CutClient == Cut(toClient', toClient) /\ (toClient' = toClient \/ reset')

(* A reset cuts both. *)
LEMMA ResetCuts ==
    ASSUME Streams, Reset
    PROVE  Streams' /\ reset' /\ CutServer /\ CutClient
<1>1. reset' = TRUE /\ toServer' \in Prefixes(toServer) /\ toClient' \in Prefixes(toClient)
  BY DEF Reset
<1>2. toServer' \in Seq(0..MaxLines) /\ Cut(toServer', toServer)
  BY <1>1, PrefixCuts DEF Streams
<1>3. toClient' \in Seq(Frame) /\ Cut(toClient', toClient)
  BY <1>1, PrefixCuts DEF Streams
<1>4. Len(toServer') <= SocketBuffer /\ Len(toClient') <= SocketBuffer
  BY <1>2, <1>3, SessionConstants DEF Streams, Cut
<1>5. QED
  BY <1>1, <1>2, <1>3, <1>4 DEF Streams, CutServer, CutClient

(* Whole streams are cut at their end. *)
LEMMA Uncut ==
    ASSUME Streams
    PROVE  /\ toServer' = toServer => CutServer
           /\ toClient' = toClient => CutClient
<1>1. Cut(toServer, toServer) /\ Cut(toClient, toClient)
  BY DEF Streams, Cut
<1>2. QED
  BY <1>1 DEF CutServer, CutClient

(* A write to the server reaches it, or resets the connection. *)
LEMMA ServerWritten ==
    ASSUME Streams, NEW f \in 0..MaxLines, WriteToServer(f)
    PROVE  /\ Streams' /\ CutClient /\ ~reset
           /\ \/ /\ ServerOpen /\ toServer' = Append(toServer, f)
                 /\ UNCHANGED <<toClient, reset>>
              \/ ~ServerOpen /\ reset' /\ CutServer
<1>1. CASE ServerOpen
  <2>1. /\ Len(toServer) < SocketBuffer /\ toServer' = Append(toServer, f)
        /\ UNCHANGED <<toClient, reset>> /\ ~reset
    BY <1>1 DEF WriteToServer
  <2>2. toServer' \in Seq(0..MaxLines) /\ Len(toServer') = Len(toServer) + 1 /\ Len(toServer) \in Nat
    BY <2>1, AppendLast DEF Streams
  <2>3. Len(toServer') <= SocketBuffer
    BY <2>1, <2>2, SessionConstants
  <2>4. QED
    BY <1>1, <2>1, <2>2, <2>3, Uncut DEF Streams
<1>2. CASE ~ServerOpen
  BY <1>2, ResetCuts DEF WriteToServer
<1>3. QED
  BY <1>1, <1>2

(* So does one to the client. *)
LEMMA ClientWritten ==
    ASSUME Streams, NEW f \in Frame, WriteToClient(f)
    PROVE  /\ Streams' /\ CutServer /\ ~reset
           /\ \/ /\ ClientOpen /\ toClient' = Append(toClient, f)
                 /\ UNCHANGED <<toServer, reset>>
              \/ ~ClientOpen /\ reset' /\ CutClient
<1>1. CASE ClientOpen
  <2>1. /\ Len(toClient) < SocketBuffer /\ toClient' = Append(toClient, f)
        /\ UNCHANGED <<toServer, reset>> /\ ~reset
    BY <1>1 DEF WriteToClient
  <2>2. toClient' \in Seq(Frame) /\ Len(toClient') = Len(toClient) + 1 /\ Len(toClient) \in Nat
    BY <2>1, AppendLast DEF Streams
  <2>3. Len(toClient') <= SocketBuffer
    BY <2>1, <2>2, SessionConstants
  <2>4. QED
    BY <1>1, <2>1, <2>2, <2>3, Uncut DEF Streams
<1>2. CASE ~ClientOpen
  BY <1>2, ResetCuts DEF WriteToClient
<1>3. QED
  BY <1>1, <1>2

-----------------------------------------------------------------------------
(* What a step does to the lines. *)

(* It may cut or leave the stream, lose the alignment with it, and end or  *)
(* pass a point where nothing is written.                                  *)
LinesAside ==
    /\ UNCHANGED <<typed, heard>> /\ CutServer
    /\ align' \in {align, "lost"}
    /\ reset => reset'
    /\ handler = "closed" => handler' = "closed"
    /\ handler' \in {"closed", handler} \/ (handler # "login" /\ handler' # "login")
    /\ \/ main' \in {main, "done"} \/ (main = "answer" /\ main' = "prompt")
       \/ (main = "prompt" /\ main' = "quit")
       \/ reset' /\ main' \notin {"login", "answer"}

(* Then what is to come is still what was, *)
LEMMA AsideKeepsLines ==
    ASSUME TypeOK, LinesInv, LinesAside
    PROVE  LinesInv'
<1>1. /\ LinesInOrder' /\ (main' \in {"login", "answer"} => typed' = 0)
      /\ handler' = "login" => heard' = <<>>
  BY DEF LinesInv, LinesInOrder, LinesAside
<1>2. ASSUME ServerOpen' PROVE \E first \in Nat : Lined(first)'
  <2>1. PICK first \in Nat : Lined(first)
    BY <1>2 DEF LinesAside, ServerOpen, LinesInv
  <2>2. \A i \in 1..Len(toServer') : i \in 1..Len(toServer) /\ toServer'[i] = toServer[i]
    BY DEF LinesAside, CutServer, Cut
  <2>3. /\ handler' = "login" => first = LoginFrame
        /\ handler' # "login" => first > LoginFrame /\ (align' = "kept" => first = Len(heard') + 1)
    BY <1>2, <2>1 DEF Lined, LinesAside, ServerOpen
  <2>4. ASSUME ~reset', main' # "done" PROVE first + Len(toServer') = Upcoming'
    <3>1. ~reset /\ toServer' = toServer /\ typed' = typed
      BY <2>4 DEF LinesAside, CutServer
    <3>2. main' = main \/ (main = "answer" /\ main' = "prompt") \/ (main = "prompt" /\ main' = "quit")
      BY <2>4 DEF LinesAside
    <3>3. Upcoming' = Upcoming /\ main # "done"
      BY <2>4, <3>1, <3>2 DEF Upcoming
    <3>4. QED
      BY <2>1, <3>1, <3>3 DEF Lined
  <2>5. heard' = heard
    BY DEF LinesAside
  <2>6. Lined(first)'
    BY <2>1, <2>2, <2>3, <2>4, <2>5 DEF Lined
  <2>7. QED
    BY <2>6
<1>3. QED
  BY <1>1, <1>2 DEF LinesInv

(* and a frame that is written is the one that comes next. *)
LEMMA WriteKeepsLines ==
    ASSUME TypeOK, LinesInv, WriteToServer(Upcoming), Upcoming \in 0..MaxLines,
           main # "done", main' # "done", main' \notin {"login", "answer"} \/ typed = 0,
           Upcoming' = Upcoming + 1, UNCHANGED <<handler, align, typed, heard>>
    PROVE  LinesInv'
<1>1. Streams /\ Len(toServer) \in Nat
  BY DEF TypeOK, Streams
<1>2. /\ LinesInOrder' /\ (main' \in {"login", "answer"} => typed' = 0)
      /\ handler' = "login" => heard' = <<>>
  BY DEF LinesInv, LinesInOrder
<1>3. CASE ServerOpen
  <2>1. PICK first \in Nat : Lined(first)
    BY <1>3 DEF LinesInv
  <2>2. toServer' = Append(toServer, Upcoming) /\ ~reset
    BY <1>1, <1>3, ServerWritten
  <2>3. /\ Len(toServer') = Len(toServer) + 1
        /\ \A i \in 1..Len(toServer) : toServer'[i] = toServer[i]
        /\ toServer'[Len(toServer) + 1] = Upcoming
    BY <1>1, <2>2, AppendLast DEF Streams
  <2>4. /\ \A i \in 1..Len(toServer) : toServer[i] = first + (i - 1)
        /\ first + Len(toServer) = Upcoming
    BY <2>1, <2>2 DEF Lined
  <2>5. ASSUME NEW i \in 1..Len(toServer') PROVE toServer'[i] = first + (i - 1)
    <3>1. i \in 1..Len(toServer) \/ i = Len(toServer) + 1
      BY <1>1, <2>3
    <3>2. CASE i \in 1..Len(toServer)
      BY <2>3, <2>4, <3>2
    <3>3. CASE i = Len(toServer) + 1
      <4>1. toServer'[i] = first + Len(toServer)
        BY <2>3, <2>4, <3>3
      <4>2. Len(toServer) = i - 1
        BY <1>1, <3>3
      <4>3. QED
        BY <4>1, <4>2
    <3>4. QED
      BY <3>1, <3>2, <3>3
  <2>6. first + Len(toServer') = Upcoming'
    BY <1>1, <2>3, <2>4
  <2>7. Lined(first)'
    BY <2>1, <2>5, <2>6 DEF Lined
  <2>8. QED
    BY <1>2, <2>7 DEF LinesInv
<1>4. CASE ~ServerOpen
  BY <1>2, <1>4 DEF LinesInv, ServerOpen
<1>5. QED
  BY <1>3, <1>4

(* The lines go by: each action. *)
LEMMA MainKeepsLines ==
    ASSUME TypeOK, LinesInv, MainTask \/ User
    PROVE  LinesInv'
<1>1. Streams /\ typed \in Nat /\ typed \in 0..MaxLines
  BY SessionConstants DEF TypeOK, Streams
<1>2. CASE SendLogin
  <2>1. CASE WriteToServer(LoginFrame) /\ main' = "answer"
    <3>1. /\ main = "login" /\ Upcoming = LoginFrame /\ typed = 0
          /\ UNCHANGED <<handler, align, typed, heard>>
      BY <1>2 DEF SendLogin, historyVars, Upcoming, LinesInv
    <3>2. Upcoming \in 0..MaxLines /\ Upcoming' = Upcoming + 1
      BY <1>1, <2>1, <3>1, SessionConstants DEF Upcoming, LoginFrame
    <3>3. QED
      BY <2>1, <3>1, <3>2, WriteKeepsLines
  <2>2. CASE main' = "done" /\ UNCHANGED streamVars
    <3>1. LinesAside
      BY <1>1, <1>2, <2>2, Uncut DEF SendLogin, LinesAside, streamVars, historyVars, TypeOK
    <3>2. QED
      BY <3>1, AsideKeepsLines
  <2>3. QED
    BY <1>2, <2>1, <2>2 DEF SendLogin
<1>3. CASE SendLine
  <2>1. CASE WriteToServer(typed) /\ main' = "prompt"
    <3>1. /\ main = "send" /\ Upcoming = typed /\ UNCHANGED <<handler, align, typed, heard>>
      BY <1>3 DEF SendLine, historyVars, Upcoming
    <3>2. Upcoming' = Upcoming + 1
      BY <2>1, <3>1 DEF Upcoming
    <3>3. QED
      BY <1>1, <2>1, <3>1, <3>2, WriteKeepsLines
  <2>2. CASE reset /\ main' = "quit" /\ UNCHANGED streamVars
    <3>1. LinesAside
      BY <1>1, <1>3, <2>2, Uncut DEF SendLine, LinesAside, streamVars, historyVars, TypeOK
    <3>2. QED
      BY <3>1, AsideKeepsLines
  <2>3. QED
    BY <1>3, <2>1, <2>2 DEF SendLine
<1>4. CASE TypeLine
  <2>1. /\ main = "prompt" /\ main' = "send" /\ typed' = typed + 1
        /\ UNCHANGED <<handler, toServer, reset, align, heard>>
    BY <1>4 DEF TypeLine, streamVars
  <2>2. Upcoming' = Upcoming /\ ServerOpen' = ServerOpen
    BY <2>1 DEF Upcoming, ServerOpen
  <2>3. ASSUME NEW first \in Nat, Lined(first) PROVE Lined(first)'
    BY <2>1, <2>2, <2>3 DEF Lined
  <2>4. QED
    BY <2>1, <2>2, <2>3 DEF LinesInv, LinesInOrder
<1>5. CASE ReceiveAnswer \/ AnswerFails \/ SignalShutdown \/ Quit \/ FlushFails
  <2>1. LinesAside
    BY <1>1, <1>5, Uncut
       DEF ReceiveAnswer, AnswerFails, SignalShutdown, Quit, FlushFails, LinesAside, streamVars,
           historyVars, TypeOK
  <2>2. QED
    BY <2>1, AsideKeepsLines
<1>6. QED
  BY <1>2, <1>3, <1>4, <1>5 DEF MainTask, User

(* The handler takes frames from the head of the stream: at least one. *)
Taken(n) ==
    /\ toServer \in Seq(0..MaxLines) /\ n \in 1..Len(toServer)
    /\ Len(toServer') = Len(toServer) - n
    /\ \A i \in 1..Len(toServer') : toServer'[i] = toServer[i + n]

(* The next frame, or more when it makes something else of their bytes.    *)
LEMMA TailTaken ==
    ASSUME TypeOK, toServer # <<>>, toServer' = Tail(toServer)
    PROVE  Taken(1) /\ Head(toServer) = toServer[1]
<1>1. toServer \in Seq(0..MaxLines)
  BY DEF TypeOK
<1>2. /\ Len(toServer) \in Nat \ {0} /\ Len(toServer') = Len(toServer) - 1
      /\ \A i \in 1..Len(toServer') : toServer'[i] = toServer[i + 1]
      /\ Head(toServer) = toServer[1]
  BY <1>1, TailShifts
<1>3. QED
  BY <1>1, <1>2 DEF Taken

(* Those that are left still follow one another. *)
LEMMA TakenKeepsLines ==
    ASSUME TypeOK, NEW n, Taken(n), NEW first \in Nat, Lined(first), NEW next, next = first + n,
           UNCHANGED <<main, reset, typed>>, handler' # "login",
           align' = "kept" => next = Len(heard') + 1,
           \A j \in 1..Len(heard') : heard'[j] < next
    PROVE  next \in Nat /\ Lined(next)'
<1>1. Len(toServer) \in Nat /\ n \in Nat \ {0} /\ n <= Len(toServer) /\ Len(toServer') = Len(toServer) - n
  BY DEF Taken
<1>2. next \in Nat /\ next > LoginFrame
  BY <1>1 DEF LoginFrame
<1>3. ASSUME NEW i \in 1..Len(toServer') PROVE toServer'[i] = next + (i - 1)
  <2>1. i + n \in 1..Len(toServer)
    BY <1>1
  <2>2. toServer'[i] = toServer[i + n]
    BY DEF Taken
  <2>3. toServer[i + n] = first + ((i + n) - 1)
    BY <2>1 DEF Lined
  <2>4. QED
    BY <1>1, <2>2, <2>3
<1>4. ~reset' /\ main' # "done" => next + Len(toServer') = Upcoming'
  <2>1. ~reset /\ main # "done" => first + Len(toServer) = Upcoming
    BY DEF Lined
  <2>2. Upcoming' = Upcoming
    BY DEF Upcoming
  <2>3. next + Len(toServer') = first + Len(toServer)
    BY <1>1
  <2>4. QED
    BY <2>1, <2>2, <2>3
<1>5. QED
  BY <1>2, <1>3, <1>4 DEF Lined

(* The login is taken first of all, *)
LEMMA LoginKeepsLines ==
    ASSUME TypeOK, LinesInv, handler = "login", toServer # <<>>, toServer' = Tail(toServer),
           UNCHANGED <<main, reset, align, typed, heard>>, handler' # "login"
    PROVE  LinesInv'
<1>1. PICK first \in Nat : Lined(first)
  BY DEF LinesInv, ServerOpen
<1>2. Taken(1)
  BY TailTaken
<1>3. first = 0 /\ heard = <<>> /\ Len(heard) = 0
  BY <1>1 DEF Lined, LinesInv, LoginFrame
<1>4. 1 = first + 1 /\ 1 = Len(heard') + 1 /\ \A j \in 1..Len(heard') : heard'[j] < 1
  BY <1>3
<1>5. 1 \in Nat /\ Lined(1)'
  BY <1>1, <1>2, <1>4, TakenKeepsLines
<1>6. QED
  BY <1>5 DEF LinesInv, LinesInOrder

(* then the lines, each after those that were heard, *)
LEMMA HeardKeepsLines ==
    ASSUME TypeOK, LinesInv, HandlerHears
    PROVE  LinesInv' /\ Head(toServer) \in 1..MaxLines
<1>1. /\ handler = "loop" /\ handler' = "work" /\ toServer # <<>> /\ toServer' = Tail(toServer)
      /\ heard' = Append(heard, Head(toServer)) /\ UNCHANGED <<main, reset, align, typed>>
  BY DEF HandlerHears, HandlerGoes, clientVars
<1>2. PICK first \in Nat : Lined(first)
  BY <1>1 DEF LinesInv, ServerOpen
<1>3. Taken(1) /\ Head(toServer) = toServer[1]
  BY <1>1, TailTaken
<1>4. Len(toServer) \in Nat /\ 1 \in 1..Len(toServer) /\ toServer[1] \in 0..MaxLines
  <2>1. toServer \in Seq(0..MaxLines)
    BY <1>3 DEF Taken
  <2>2. Len(toServer) \in Nat \ {0} /\ toServer[1] \in 0..MaxLines
    BY <1>1, <2>1, TailShifts
  <2>3. QED
    BY <2>2
<1>5. Head(toServer) = first
  <2>1. toServer[1] = first + (1 - 1)
    BY <1>2, <1>4 DEF Lined
  <2>2. QED
    BY <1>3, <2>1
<1>6. first > 0 /\ (align = "kept" => first = Len(heard) + 1) /\ \A j \in 1..Len(heard) : heard[j] < first
  BY <1>1, <1>2 DEF Lined, LoginFrame
<1>7. Head(toServer) \in 1..MaxLines
  BY <1>3, <1>4, <1>5, <1>6, SessionConstants
<1>8. /\ heard' \in Seq(1..MaxLines) /\ Len(heard) \in Nat /\ Len(heard') = Len(heard) + 1
      /\ \A i \in 1..Len(heard) : heard'[i] = heard[i]
      /\ heard'[Len(heard) + 1] = first
  <2>1. heard \in Seq(1..MaxLines)
    BY DEF TypeOK
  <2>2. QED
    BY <1>1, <1>5, <1>7, <2>1, AppendLast
<1>9. \A i \in 1..Len(heard') : i \in 1..Len(heard) \/ i = Len(heard) + 1
  BY <1>8
<1>10. \A j \in 1..Len(heard') : heard'[j] < first + 1
  <2>1. \A j \in 1..Len(heard) : heard[j] \in Nat /\ heard[j] < first
    BY <1>6, SessionConstants DEF TypeOK
  <2>2. QED
    BY <1>8, <1>9, <2>1
<1>11. LinesInOrder'
  <2>1. ASSUME NEW i \in 1..Len(heard'), NEW j \in 1..(i - 1) PROVE heard'[j] < heard'[i]
    <3>1. j \in 1..Len(heard)
      BY <1>8, <1>9
    <3>2. CASE i \in 1..Len(heard)
      BY <1>8, <3>1, <3>2 DEF LinesInv, LinesInOrder
    <3>3. CASE i = Len(heard) + 1
      BY <1>6, <1>8, <3>1, <3>3
    <3>4. QED
      BY <1>9, <3>2, <3>3
  <2>2. ASSUME align' = "kept", NEW i \in 1..Len(heard') PROVE heard'[i] = i
    BY <1>1, <1>6, <1>8, <1>9, <2>2 DEF LinesInv, LinesInOrder
  <2>3. QED
    BY <2>1, <2>2 DEF LinesInOrder
<1>12. align' = "kept" => first + 1 = Len(heard') + 1
  BY <1>1, <1>6, <1>8
<1>13. \E next \in Nat : Lined(next)'
  <2>1. ASSUME NEW next, next = first + 1 PROVE next \in Nat /\ Lined(next)'
    BY <1>1, <1>2, <1>3, <1>10, <1>12, <2>1, TakenKeepsLines
  <2>2. QED
    BY <2>1
<1>14. QED
  BY <1>1, <1>7, <1>11, <1>13 DEF LinesInv

(* and what is lost of them is passed over. *)
LEMMA MisheardKeepsLines ==
    ASSUME TypeOK, LinesInv, HandlerMishears
    PROVE  LinesInv'
<1>1. /\ handler = "loop" /\ handler' # "login" /\ align' # "kept"
      /\ UNCHANGED <<main, reset, typed, heard>>
  BY DEF HandlerMishears, HandlerGoes, clientVars
<1>2. PICK first \in Nat : Lined(first)
  BY <1>1 DEF LinesInv, ServerOpen
<1>3. PICK n \in 1..Len(toServer) : toServer' = SubSeq(toServer, n + 1, Len(toServer))
  BY DEF HandlerMishears
<1>4. Taken(n)
  <2>1. toServer \in Seq(0..MaxLines) /\ Len(toServer) \in Nat
    BY DEF TypeOK
  <2>2. Len(toServer') = Len(toServer) - n
    BY <1>3, <2>1, SuffixTyped
  <2>3. \A i \in 1..Len(toServer') : toServer'[i] = toServer[i + n]
    BY <1>3, <2>1, <2>2
  <2>4. QED
    BY <2>1, <2>2, <2>3 DEF Taken
<1>5. \A j \in 1..Len(heard') : heard'[j] < first + n
  <2>1. \A j \in 1..Len(heard) : heard[j] \in Nat /\ heard[j] < first
    BY <1>2, SessionConstants DEF Lined, TypeOK
  <2>2. n \in Nat
    BY <1>4 DEF Taken
  <2>3. QED
    BY <1>1, <2>1, <2>2
<1>6. \E next \in Nat : Lined(next)'
  <2>1. ASSUME NEW next, next = first + n PROVE next \in Nat /\ Lined(next)'
    BY <1>1, <1>2, <1>4, <1>5, <2>1, TakenKeepsLines
  <2>2. QED
    BY <2>1
<1>7. QED
  BY <1>1, <1>6 DEF LinesInv, LinesInOrder

(* The handler's other steps and the receiver's leave the lines alone. *)
LEMMA OthersKeepLines ==
    ASSUME TypeOK, LinesInv,
           \/ ReceiverTask \/ HandlerReads \/ HandlerWorks \/ HandlerTakesBroadcast
           \/ ConnectionReset \/ ClientKilled \/ ServerKilled \/ Finished
    PROVE  LinesInv'
<1>1. Streams
  BY DEF TypeOK, Streams
<1>2. CASE HandlerReceivesLogin
  <2>1. CASE toServer # <<>> /\ toServer' = Tail(toServer) /\ handler' \in {"welcome", "refuse"}
    BY <1>2, <2>1, LoginKeepsLines DEF HandlerReceivesLogin, clientVars, historyVars
  <2>2. CASE EndOfOutput /\ handler' = "reject" /\ UNCHANGED toServer
    <3>1. /\ toServer' = <<>> /\ (reset' \/ main' = "done") /\ Len(toServer') = 0
          /\ UNCHANGED <<main, align, typed, heard>> /\ handler' # "login"
      BY <1>2, <2>2 DEF HandlerReceivesLogin, EndOfOutput, ClientOpen, clientVars, historyVars
    <3>2. heard = <<>> /\ Len(heard) = 0
      BY <1>2 DEF LinesInv, HandlerReceivesLogin
    <3>3. Lined(1)'
      BY <3>1, <3>2 DEF Lined, LoginFrame
    <3>4. QED
      BY <3>1, <3>3 DEF LinesInv, LinesInOrder
  <2>3. QED
    BY <1>2, <2>1, <2>2 DEF HandlerReceivesLogin, HandlerGoes
<1>3. CASE HandlerHears
  BY <1>3, HeardKeepsLines
<1>4. CASE HandlerMishears
  BY <1>4, MisheardKeepsLines
<1>5. CASE HandlerWelcomes \/ HandlerRefuses \/ HandlerWrites \/ HandlerReports
  <2>1. CutServer /\ (reset => reset')
    <3>1. ASSUME NEW f \in Frame, WriteToClient(f) PROVE CutServer /\ (reset => reset')
      BY <1>1, <3>1, ClientWritten
    <3>2. [kind |-> "LoginOk", n |-> 0] \in Frame /\ [kind |-> "Error", n |-> 0] \in Frame
          /\ [kind |-> "Feed", n |-> said + 1] \in Frame
      BY DEF TypeOK, Frame
    <3>3. (\E f \in Frame : WriteToClient(f)) \/ UNCHANGED streamVars
      BY <1>5, <3>2
         DEF HandlerWelcomes, HandlerRefuses, TryWriteError, HandlerWrites, HandlerReports, Say
    <3>4. QED
      BY <1>1, <3>1, <3>3, Uncut DEF streamVars
  <2>2. /\ UNCHANGED <<main, align, typed, heard>> /\ handler \notin {"login", "closed"}
        /\ handler' # "login"
    BY <1>5
       DEF HandlerWelcomes, HandlerRefuses, TryWriteError, HandlerWrites, HandlerReports, Say,
           HandlerGoes, clientVars, historyVars
  <2>3. LinesAside
    BY <2>1, <2>2 DEF LinesAside
  <2>4. QED
    BY <2>3, AsideKeepsLines
<1>6. CASE ReceiverTask
  <2>1. LinesAside
    BY <1>1, <1>6, Uncut
       DEF ReceiverTask, ReceiverShows, ReceiverEnds, ReceiverStops, LinesAside, clientVars,
           streamVars, historyVars
  <2>2. QED
    BY <2>1, AsideKeepsLines
<1>7. CASE HandlerTooLarge \/ HandlerLeaves \/ HandlerStores \/ HandlerTakesBroadcast
  <2>1. LinesAside
    BY <1>1, <1>7, Uncut
       DEF HandlerTooLarge, HandlerLeaves, HandlerStores, HandlerTakesBroadcast, LinesAside, HandlerGoes, clientVars,
           streamVars, historyVars
  <2>2. QED
    BY <2>1, AsideKeepsLines
<1>8. CASE ConnectionReset
  <2>1. LinesAside
    BY <1>1, <1>8, ResetCuts DEF ConnectionReset, LinesAside, clientVars, historyVars
  <2>2. QED
    BY <2>1, AsideKeepsLines
<1>9. CASE ClientKilled \/ ServerKilled \/ Finished
  <2>1. LinesAside
    BY <1>1, <1>9, Uncut
       DEF ClientKilled, ServerKilled, Finished, ServerOpen, ClientOpen, LinesAside, HandlerGoes,
           vars, clientVars, streamVars, historyVars
  <2>2. QED
    BY <2>1, AsideKeepsLines
<1>10. QED
  BY <1>2, <1>3, <1>4, <1>5, <1>6, <1>7, <1>8, <1>9 DEF HandlerReads, HandlerWorks

-----------------------------------------------------------------------------
(* Types.  What the handler hears is a line because the login was taken    *)
(* before it.                                                              *)

(* The streams stay streams, *)
LEMMA StreamsTyped ==
    ASSUME TypeOK, Next
    PROVE  Streams'
<1>1. Streams /\ typed \in 0..MaxLines /\ LoginFrame \in 0..MaxLines
  BY SessionConstants DEF TypeOK, Streams, LoginFrame
<1>2. ASSUME NEW f \in 0..MaxLines, WriteToServer(f) PROVE Streams'
  BY <1>1, <1>2, ServerWritten
<1>3. ASSUME NEW f \in Frame, WriteToClient(f) PROVE Streams'
  BY <1>1, <1>3, ClientWritten
<1>4. CASE UNCHANGED streamVars
  BY <1>1, <1>4 DEF Streams, streamVars
<1>5. CASE UNCHANGED <<toClient, reset>> /\ toServer # <<>> /\ toServer' = Tail(toServer)
  <2>1. toServer' \in Seq(0..MaxLines) /\ Len(toServer') = Len(toServer) - 1 /\ Len(toServer) \in Nat
    BY <1>1, <1>5, TailShifts DEF Streams
  <2>2. QED
    BY <1>1, <1>5, <2>1, SessionConstants DEF Streams
<1>6. CASE UNCHANGED <<toServer, reset>> /\ toClient # <<>> /\ toClient' = Tail(toClient)
  <2>1. toClient' \in Seq(Frame) /\ Len(toClient') = Len(toClient) - 1 /\ Len(toClient) \in Nat
    BY <1>1, <1>6, TailShifts DEF Streams
  <2>2. QED
    BY <1>1, <1>6, <2>1, SessionConstants DEF Streams
<1>7. CASE HandlerMishears
  <2>1. PICK n \in 1..Len(toServer) : toServer' = SubSeq(toServer, n + 1, Len(toServer))
    BY <1>7 DEF HandlerMishears
  <2>2. toServer' \in Seq(0..MaxLines) /\ Len(toServer') = Len(toServer) - n /\ Len(toServer) \in Nat
    BY <1>1, <2>1, SuffixTyped DEF Streams
  <2>3. Len(toServer') <= SocketBuffer
    BY <1>1, <2>2, SessionConstants DEF Streams
  <2>4. QED
    BY <1>1, <1>7, <2>2, <2>3 DEF Streams, HandlerMishears
<1>8. CASE ConnectionReset
  BY <1>1, <1>8, ResetCuts DEF ConnectionReset
<1>9. CASE ServerKilled
  <2>1. toClient' \in Seq(Frame) /\ Cut(toClient', toClient)
    BY <1>1, <1>9, PrefixCuts DEF ServerKilled, Streams
  <2>2. Len(toClient') <= SocketBuffer
    BY <1>1, <2>1, SessionConstants DEF Streams, Cut
  <2>3. QED
    BY <1>1, <1>9, <2>1, <2>2 DEF Streams, ServerKilled
<1>10. CASE MainTask \/ User
  <2>1. \/ (\E f \in 0..MaxLines : WriteToServer(f)) \/ UNCHANGED streamVars
        \/ (UNCHANGED <<toServer, reset>> /\ toClient # <<>> /\ toClient' = Tail(toClient))
    BY <1>1, <1>10
       DEF MainTask, User, SendLogin, ReceiveAnswer, AnswerFails, SendLine, SignalShutdown, TypeLine,
           Quit, FlushFails
  <2>2. QED
    BY <1>2, <1>4, <1>6, <2>1
<1>11. CASE HandlerWorks
  <2>1. [kind |-> "LoginOk", n |-> 0] \in Frame /\ [kind |-> "Error", n |-> 0] \in Frame
        /\ [kind |-> "Feed", n |-> said + 1] \in Frame
    BY DEF TypeOK, Frame
  <2>2. (\E f \in Frame : WriteToClient(f)) \/ UNCHANGED streamVars
    BY <1>11, <2>1
       DEF HandlerWorks, HandlerWelcomes, HandlerRefuses, HandlerStores, TryWriteError, HandlerWrites,
           HandlerReports, Say
  <2>3. QED
    BY <1>3, <1>4, <2>2
<1>12. CASE ReceiverTask \/ HandlerReceivesLogin \/ HandlerHears \/ HandlerTooLarge
            \/ HandlerLeaves \/ HandlerTakesBroadcast \/ ClientKilled \/ Finished
  <2>1. \/ UNCHANGED streamVars
        \/ (UNCHANGED <<toServer, reset>> /\ toClient # <<>> /\ toClient' = Tail(toClient))
        \/ (UNCHANGED <<toClient, reset>> /\ toServer # <<>> /\ toServer' = Tail(toServer))
    BY <1>12
       DEF ReceiverTask, ReceiverShows, ReceiverEnds, ReceiverStops, HandlerReceivesLogin,
           HandlerHears, HandlerTooLarge, HandlerLeaves, HandlerTakesBroadcast, ClientKilled, Finished,
           streamVars, vars
  <2>2. QED
    BY <1>4, <1>5, <1>6, <2>1
<1>13. QED
  BY <1>7, <1>8, <1>9, <1>10, <1>11, <1>12 DEF Next, HandlerReads

(* the steps steps, *)
LEMMA StepsTyped ==
    ASSUME TypeOK, Next
    PROVE  /\ main' \in MainStep /\ receiver' \in {"none", "reading", "done"}
           /\ handler' \in ServerStep
<1>1. /\ main \in MainStep /\ receiver \in {"none", "reading", "done"} /\ handler \in ServerStep
  BY DEF TypeOK
<1>2. CASE MainTask \/ User \/ ReceiverTask \/ ClientKilled
  BY <1>1, <1>2
     DEF MainTask, User, SendLogin, ReceiveAnswer, AnswerFails, SendLine, SignalShutdown, TypeLine,
         Quit, FlushFails, ReceiverTask, ReceiverShows, ReceiverEnds, ReceiverStops, ClientKilled,
         clientVars, MainStep
<1>3. CASE HandlerReads \/ HandlerWorks \/ HandlerTakesBroadcast \/ ServerKilled
  BY <1>1, <1>3
     DEF HandlerReads, HandlerReceivesLogin, HandlerHears, HandlerTooLarge, HandlerMishears, HandlerLeaves,
         HandlerWorks, HandlerWelcomes, HandlerRefuses, HandlerStores, TryWriteError, HandlerWrites,
         HandlerReports, HandlerTakesBroadcast, ServerKilled, HandlerGoes, clientVars, ServerStep
<1>4. CASE ConnectionReset \/ Finished
  BY <1>1, <1>4 DEF ConnectionReset, Finished, vars, clientVars
<1>5. QED
  BY <1>2, <1>3, <1>4 DEF Next

(* and the counters counters. *)
LEMMA HistoryTyped ==
    ASSUME TypeOK, LinesInv, Next
    PROVE  /\ align' \in {"kept", "lost", "regained"} /\ typed' \in 0..MaxLines /\ heard' \in Seq(1..MaxLines)
           /\ said' \in Nat /\ shown' \in Seq(Nat) /\ forwarded' \in 0..MaxBroadcasts
<1>1. /\ align \in {"kept", "lost", "regained"} /\ typed \in 0..MaxLines /\ heard \in Seq(1..MaxLines)
      /\ said \in Nat /\ shown \in Seq(Nat) /\ forwarded \in 0..MaxBroadcasts
  BY DEF TypeOK
<1>2. CASE TypeLine
  <2>1. typed' \in 0..MaxLines
    BY <1>1, <1>2, SessionConstants DEF TypeLine
  <2>2. QED
    BY <1>1, <1>2, <2>1 DEF TypeLine
<1>3. CASE ReceiverShows
  <2>1. Head(toClient).n \in Nat
    <3>1. Head(toClient) \in Frame
      BY <1>3, TailShifts DEF TypeOK, ReceiverShows
    <3>2. QED
      BY <3>1 DEF Frame
  <2>2. shown' \in Seq(Nat)
    BY <1>1, <1>3, <2>1, AppendLast DEF ReceiverShows
  <2>3. QED
    BY <1>1, <1>3, <2>2 DEF ReceiverShows
<1>4. CASE HandlerHears
  <2>1. heard' \in Seq(1..MaxLines)
    BY <1>1, <1>4, HeardKeepsLines, AppendLast DEF HandlerHears
  <2>2. QED
    BY <1>1, <1>4, <2>1 DEF HandlerHears
<1>5. CASE HandlerTakesBroadcast
  <2>1. forwarded' \in 0..MaxBroadcasts
    BY <1>1, <1>5, SessionConstants DEF HandlerTakesBroadcast
  <2>2. QED
    BY <1>1, <1>5, <2>1 DEF HandlerTakesBroadcast
<1>6. CASE HandlerWrites \/ HandlerReports
  <2>1. said' \in {said, said + 1} /\ UNCHANGED <<align, typed, heard, forwarded, shown>>
    BY <1>6 DEF HandlerWrites, HandlerReports, Say
  <2>2. QED
    BY <1>1, <2>1
<1>7. CASE UNCHANGED historyVars
  BY <1>1, <1>7 DEF historyVars
<1>8. CASE MainTask \/ User \/ ReceiverTask \/ ClientKilled \/ ServerKilled \/ ConnectionReset \/ Finished
  BY <1>2, <1>3, <1>7, <1>8
     DEF MainTask, User, SendLogin, ReceiveAnswer, AnswerFails, SendLine, SignalShutdown, Quit,
         FlushFails, ReceiverTask, ReceiverEnds, ReceiverStops, ClientKilled, ServerKilled,
         ConnectionReset, Finished, vars
<1>9. CASE HandlerTooLarge \/ HandlerMishears
  BY <1>1, <1>9 DEF HandlerTooLarge, HandlerMishears
<1>10. CASE HandlerReads \/ HandlerWorks
  BY <1>4, <1>6, <1>7, <1>9, <1>10
     DEF HandlerReads, HandlerReceivesLogin, HandlerLeaves, HandlerWorks, HandlerWelcomes,
         HandlerRefuses, HandlerStores
<1>11. QED
  BY <1>5, <1>8, <1>10 DEF Next

-----------------------------------------------------------------------------
(* What a step does to what is shown. *)

(* Nothing is shown and nothing said, but it may be the end of either side, *)
(* and of what was on its way. *)
Unseen ==
    /\ UNCHANGED shown
    /\ said' = said \/ (reset' /\ handler \in Greeted)
    /\ Cut(toClient', toClient)
    /\ toClient' = toClient \/ reset' \/ handler' = "closed"
    /\ reset => reset'
    /\ \/ receiver' = receiver
       \/ receiver = "reading" /\ receiver' = "done" /\ (main' = "done" \/ EndOfInput)
    /\ \/ main' \in {main, "done"}
       \/ main = "login" /\ main' = "answer"
       \/ {main, main'} \subseteq {"prompt", "send", "quit"}
    /\ \/ handler' \in {handler, "closed"}
       \/ handler \in Greeted /\ handler' \in Greeted
       \/ handler = "login" /\ handler' \in {"welcome", "refuse", "reject"}
       \/ handler = "welcome" /\ handler' = "reject"

(* What had not been said or shown has still not been. *)
LEMMA UnseenKeepsShows ==
    ASSUME TypeOK, ShowsInv, Streams', Unseen
    PROVE  ShowsInv'
<1>1. /\ \A i \in 1..Len(toClient') : i \in 1..Len(toClient) /\ toClient'[i] = toClient[i]
      /\ Len(toClient') \in Nat /\ Len(toClient) \in Nat /\ Len(toClient') <= Len(toClient)
      /\ toClient' \in Seq(Frame) /\ toClient \in Seq(Frame)
  BY DEF Unseen, Cut, TypeOK, Streams
<1>2. toClient = <<>> => toClient' = <<>>
  BY <1>1
<1>3. receiver \in {"none", "reading", "done"}
  BY DEF TypeOK
<1>4. TasksInv'
  <2>1. /\ main' \in {"login", "answer"} => receiver' = "none"
        /\ main' \in {"prompt", "send", "quit"} => receiver' # "none"
        /\ receiver' = "none" => shown' = <<>>
    BY <1>3 DEF ShowsInv, TasksInv, Unseen
  <2>2. ASSUME receiver' = "done", main' # "done"
        PROVE  toClient' = <<>> /\ (reset' \/ ~ServerOpen')
    <3>1. toClient = <<>> /\ (reset \/ ~ServerOpen)
      BY <2>2 DEF ShowsInv, TasksInv, Unseen, EndOfInput
    <3>2. reset' \/ ~ServerOpen'
      BY <3>1 DEF Unseen, ServerOpen, Greeted
    <3>3. QED
      BY <1>2, <3>1, <3>2
  <2>3. QED
    BY <2>1, <2>2 DEF TasksInv
<1>5. OnTheWay'
  <2>1. ASSUME receiver' # "none", NEW i \in 1..Len(toClient')
        PROVE  toClient'[i] = Feed(Len(shown') + i)
    <3>1. receiver # "none" /\ shown' = shown
      BY <2>1 DEF Unseen
    <3>2. QED
      BY <1>1, <3>1 DEF ShowsInv, OnTheWay
  <2>2. ASSUME receiver' = "none", main' # "done", toClient' # <<>>, toClient'[1].kind = "LoginOk",
               NEW i \in 2..Len(toClient')
        PROVE  toClient'[i] = Feed(i - 1)
    <3>1. receiver = "none" /\ main # "done" /\ toClient # <<>>
      BY <1>2, <2>2 DEF Unseen
    <3>2. 1 \in 1..Len(toClient') /\ i \in 1..Len(toClient') /\ i \in 2..Len(toClient)
      BY <1>1, <2>2
    <3>3. toClient[1].kind = "LoginOk" /\ toClient'[i] = toClient[i]
      BY <1>1, <2>2, <3>2
    <3>4. QED
      BY <3>1, <3>2, <3>3 DEF ShowsInv, OnTheWay
  <2>3. ASSUME handler' \in Greeted, ~reset'
        PROVE  /\ handler \in Greeted /\ ~reset /\ toClient' = toClient /\ said' = said
    BY <2>3 DEF Unseen, Greeted
  <2>4. ASSUME handler' \in Greeted, ~reset', receiver' = "reading"
        PROVE  Len(shown') + Len(toClient') = said'
    BY <2>3, <2>4 DEF ShowsInv, OnTheWay, Unseen
  <2>5. ASSUME handler' \in Greeted, ~reset', receiver' = "none", main' # "done"
        PROVE  Len(toClient') = said' + 1 /\ toClient'[1].kind = "LoginOk"
    <3>1. receiver = "none" /\ main # "done"
      BY <2>5 DEF Unseen
    <3>2. QED
      BY <2>3, <2>5, <3>1 DEF ShowsInv, OnTheWay
  <2>6. QED
    BY <2>1, <2>2, <2>4, <2>5 DEF OnTheWay
<1>6. Unwelcome'
  <2>1. ASSUME handler' \in Silent PROVE toClient' = <<>>
    <3>1. handler \in Silent
      BY <2>1 DEF Unseen, Silent, Greeted
    <3>2. QED
      BY <1>2, <3>1 DEF ShowsInv, Unwelcome
  <2>2. ASSUME handler' \in Silent \cup {"reject"}
        PROVE  /\ receiver' = "none" /\ said' = 0
               /\ \A i \in 1..Len(toClient') : toClient'[i].kind = "Error"
    <3>1. handler \in Silent \cup {"reject"} /\ handler \notin Greeted
      BY <2>2 DEF Unseen, Silent, Greeted
    <3>2. /\ receiver = "none" /\ said = 0
          /\ \A i \in 1..Len(toClient) : toClient[i].kind = "Error"
      BY <3>1 DEF ShowsInv, Unwelcome
    <3>3. QED
      BY <1>1, <3>1, <3>2 DEF Unseen
  <2>3. QED
    BY <2>1, <2>2 DEF Unwelcome
<1>7. QED
  BY <1>4, <1>5, <1>6 DEF ShowsInv, Unseen

(* The answer is taken: LoginOk has the feed behind it. *)
LEMMA AnswerKeepsShows ==
    ASSUME TypeOK, ShowsInv, ReceiveAnswer
    PROVE  ShowsInv'
<1>1. /\ main = "answer" /\ toClient # <<>> /\ toClient' = Tail(toClient)
      /\ UNCHANGED <<handler, reset, said, shown>> /\ toClient \in Seq(Frame)
  BY DEF ReceiveAnswer, historyVars, TypeOK
<1>2. /\ Len(toClient) \in Nat \ {0} /\ Len(toClient') = Len(toClient) - 1
      /\ \A i \in 1..Len(toClient') : toClient'[i] = toClient[i + 1]
      /\ Head(toClient) = toClient[1] /\ toClient' \in Seq(Frame)
  BY <1>1, TailShifts
<1>3. receiver = "none" /\ shown = <<>> /\ Len(shown) = 0
  BY <1>1 DEF ShowsInv, TasksInv
<1>4. /\ handler \notin Silent
      /\ handler = "reject" => toClient[1].kind = "Error"
      /\ handler = "reject" => said = 0 /\ \A i \in 1..Len(toClient') : toClient'[i].kind = "Error"
  BY <1>1, <1>2 DEF ShowsInv, Unwelcome
<1>5. CASE toClient[1].kind = "LoginOk"
  <2>1. main' = "prompt" /\ receiver' = "reading"
    BY <1>2, <1>5 DEF ReceiveAnswer
  <2>2. \A i \in 2..Len(toClient) : toClient[i] = Feed(i - 1)
    BY <1>1, <1>3, <1>5 DEF ShowsInv, OnTheWay
  <2>3. ASSUME NEW i \in 1..Len(toClient') PROVE toClient'[i] = Feed(Len(shown') + i)
    <3>1. i + 1 \in 2..Len(toClient) /\ i + 1 - 1 = i /\ Len(shown') + i = i
      BY <1>1, <1>2, <1>3
    <3>2. toClient[i + 1] = Feed(i + 1 - 1) /\ toClient'[i] = toClient[i + 1]
      BY <1>2, <2>2, <3>1
    <3>3. QED
      BY <3>1, <3>2
  <2>4. handler \in Greeted /\ ~reset => Len(shown') + Len(toClient') = said'
    <3>1. handler \in Greeted /\ ~reset => Len(toClient) = said + 1
      BY <1>1, <1>3 DEF ShowsInv, OnTheWay
    <3>2. said \in Nat
      BY DEF TypeOK
    <3>3. Len(toClient') = Len(toClient) - 1
      BY <1>2
    <3>4. Len(shown') = 0 /\ said' = said
      BY <1>1, <1>3
    <3>5. handler \in Greeted /\ ~reset => Len(toClient') = said
      BY <3>1, <3>2, <3>3
    <3>6. QED
      BY <3>2, <3>4, <3>5
  <2>5. handler # "reject"
    BY <1>4, <1>5
  <2>6. OnTheWay'
    BY <1>1, <2>1, <2>3, <2>4 DEF OnTheWay
  <2>7. TasksInv' /\ Unwelcome'
    BY <1>1, <1>4, <2>1, <2>5 DEF TasksInv, Unwelcome
  <2>8. QED
    BY <1>1, <2>6, <2>7 DEF ShowsInv
<1>6. CASE toClient[1].kind # "LoginOk"
  <2>1. main' = "done" /\ receiver' = "none"
    BY <1>2, <1>3, <1>6 DEF ReceiveAnswer
  <2>2. TasksInv' /\ OnTheWay' /\ Unwelcome'
    BY <1>1, <1>3, <1>4, <2>1 DEF TasksInv, OnTheWay, Unwelcome
  <2>3. QED
    BY <1>1, <2>2 DEF ShowsInv
<1>7. QED
  BY <1>5, <1>6

(* The receiver shows the frame after those it has shown. *)
LEMMA ShowKeepsShows ==
    ASSUME TypeOK, ShowsInv, ReceiverShows
    PROVE  ShowsInv'
<1>1. /\ receiver = "reading" /\ toClient # <<>> /\ toClient' = Tail(toClient)
      /\ shown' = Append(shown, Head(toClient).n)
      /\ UNCHANGED <<main, receiver, handler, reset, said>>
      /\ toClient \in Seq(Frame) /\ shown \in Seq(Nat) /\ said \in Nat
  BY DEF ReceiverShows, clientVars, TypeOK
<1>2. /\ Len(toClient) \in Nat \ {0} /\ Len(toClient') = Len(toClient) - 1
      /\ \A i \in 1..Len(toClient') : toClient'[i] = toClient[i + 1]
      /\ Head(toClient) = toClient[1]
  BY <1>1, TailShifts
<1>3. Head(toClient).n = Len(shown) + 1 /\ Len(shown) \in Nat
  <2>1. toClient[1] = Feed(Len(shown) + 1)
    BY <1>1, <1>2 DEF ShowsInv, OnTheWay
  <2>2. QED
    BY <1>1, <1>2, <2>1 DEF Feed
<1>4. /\ Len(shown') = Len(shown) + 1 /\ shown'[Len(shown) + 1] = Len(shown) + 1
      /\ \A i \in 1..Len(shown) : shown'[i] = shown[i]
  <2>1. shown' = Append(shown, Len(shown) + 1) /\ Len(shown) + 1 \in Nat
    BY <1>1, <1>3
  <2>2. QED
    BY <1>1, <2>1, AppendLast
<1>5. \A i \in 1..Len(shown') : shown'[i] = i
  <2>1. \A i \in 1..Len(shown') : i \in 1..Len(shown) \/ i = Len(shown) + 1
    BY <1>3, <1>4
  <2>2. QED
    BY <1>4, <2>1 DEF ShowsInv
<1>6. ASSUME NEW i \in 1..Len(toClient') PROVE toClient'[i] = Feed(Len(shown') + i)
  <2>1. i + 1 \in 1..Len(toClient) /\ Len(shown) + (i + 1) = Len(shown') + i
    BY <1>2, <1>3, <1>4
  <2>2. toClient[i + 1] = Feed(Len(shown) + (i + 1))
    BY <1>1, <2>1 DEF ShowsInv, OnTheWay
  <2>3. QED
    BY <1>2, <2>1, <2>2
<1>7. handler \in Greeted /\ ~reset => Len(shown') + Len(toClient') = said
  <2>1. handler \in Greeted /\ ~reset => Len(shown) + Len(toClient) = said
    BY <1>1 DEF ShowsInv, OnTheWay
  <2>2. Len(toClient) \in Nat /\ Len(toClient') = Len(toClient) - 1
    BY <1>2
  <2>3. Len(shown) \in Nat /\ Len(shown') = Len(shown) + 1
    BY <1>3, <1>4
  <2>4. Len(shown') + Len(toClient') = Len(shown) + Len(toClient)
    BY <2>2, <2>3
  <2>5. QED
    BY <2>1, <2>4
<1>8. OnTheWay'
  BY <1>1, <1>6, <1>7 DEF OnTheWay
<1>9. TasksInv' /\ Unwelcome'
  BY <1>1 DEF ShowsInv, TasksInv, Unwelcome
<1>10. QED
  BY <1>5, <1>8, <1>9 DEF ShowsInv


(* The handler says one thing more, or learns that nobody listens. *)
LEMMA SayKeepsShows ==
    ASSUME TypeOK, ShowsInv, Say, handler \in Greeted, handler' \in Greeted,
           UNCHANGED <<main, receiver, shown>>
    PROVE  ShowsInv'
<1>1. Streams /\ said \in Nat /\ Feed(said + 1) \in Frame
  BY DEF TypeOK, Streams, Frame, Feed
<1>2. WriteToClient(Feed(said + 1)) /\ said' = said + 1
  BY DEF Say, Feed
<1>3. /\ Streams' /\ ~reset
      /\ \/ ClientOpen /\ toClient' = Append(toClient, Feed(said + 1)) /\ reset' = reset
         \/ ~ClientOpen /\ reset' /\ CutClient
  BY <1>1, <1>2, ClientWritten
<1>4. CASE ~ClientOpen /\ reset' /\ CutClient
  <2>1. Unseen
    BY <1>3, <1>4 DEF Unseen, CutClient
  <2>2. QED
    BY <1>3, <2>1, UnseenKeepsShows
<1>5. CASE ClientOpen /\ toClient' = Append(toClient, Feed(said + 1)) /\ reset' = reset
  <2>1. /\ Len(toClient) \in Nat /\ Len(toClient') = Len(toClient) + 1
        /\ \A i \in 1..Len(toClient) : toClient'[i] = toClient[i]
        /\ toClient'[Len(toClient) + 1] = Feed(said + 1)
    BY <1>1, <1>5, AppendLast DEF Streams
  <2>2. \A i \in 1..Len(toClient') : i \in 1..Len(toClient) \/ i = Len(toClient) + 1
    BY <2>1
  <2>3. Len(shown) \in Nat /\ receiver \in {"none", "reading", "done"}
    BY DEF TypeOK
  <2>4. handler \notin Silent \cup {"reject"} /\ handler' \notin Silent \cup {"reject"} /\ handler # "closed"
    BY DEF Silent, Greeted
  <2>5. receiver = "done" => main = "done"
    BY <1>3, <2>4 DEF ShowsInv, TasksInv, ServerOpen
  <2>6. receiver # "done"
    BY <1>5, <2>5 DEF ClientOpen
  <2>7. CASE receiver = "reading"
    <3>1. Len(shown) + Len(toClient) = said
      BY <1>3, <2>7 DEF ShowsInv, OnTheWay
    <3>2. ASSUME NEW i \in 1..Len(toClient') PROVE toClient'[i] = Feed(Len(shown') + i)
      <4>1. CASE i \in 1..Len(toClient)
        BY <2>1, <2>7, <4>1 DEF ShowsInv, OnTheWay
      <4>2. CASE i = Len(toClient) + 1
        <5>1. Len(shown') + i = said + 1
          BY <2>1, <2>3, <3>1, <4>2
        <5>2. QED
          BY <2>1, <4>2, <5>1
      <4>3. QED
        BY <2>2, <4>1, <4>2
    <3>3. Len(shown') + Len(toClient') = said'
      <4>1. Len(toClient') = Len(toClient) + 1 /\ Len(toClient) \in Nat
        BY <2>1
      <4>2. Len(shown') = Len(shown)
        OBVIOUS
      <4>3. QED
        BY <1>1, <1>2, <2>3, <3>1, <4>1, <4>2
    <3>4. OnTheWay' /\ TasksInv' /\ Unwelcome'
      BY <2>4, <2>7, <3>2, <3>3 DEF OnTheWay, TasksInv, Unwelcome, ShowsInv
    <3>5. QED
      BY <3>4 DEF ShowsInv
  <2>8. CASE receiver = "none"
    <3>1. main # "done"
      BY <1>5, <2>8 DEF ClientOpen
    <3>2. Len(toClient) = said + 1 /\ toClient[1].kind = "LoginOk"
      BY <1>3, <2>8, <3>1 DEF ShowsInv, OnTheWay
    <3>3. 1 \in 1..Len(toClient) /\ toClient # <<>>
      BY <1>1, <2>1, <3>2
    <3>4. toClient'[1].kind = "LoginOk"
      BY <2>1, <3>2, <3>3
    <3>5. ASSUME NEW i \in 2..Len(toClient') PROVE toClient'[i] = Feed(i - 1)
      <4>1. i \in 1..Len(toClient')
        BY <2>1
      <4>2. CASE i \in 1..Len(toClient)
        <5>1. i \in 2..Len(toClient)
          BY <2>1, <4>2
        <5>2. toClient[i] = Feed(i - 1)
          BY <2>8, <3>1, <3>2, <3>3, <5>1 DEF ShowsInv, OnTheWay
        <5>3. QED
          BY <2>1, <4>2, <5>2
      <4>3. CASE i = Len(toClient) + 1
        <5>1. i - 1 = said + 1
          BY <1>1, <3>2, <4>3
        <5>2. QED
          BY <2>1, <4>3, <5>1
      <4>4. QED
        BY <2>2, <4>1, <4>2, <4>3
    <3>6. Len(toClient') = said' + 1
      <4>1. Len(toClient') = Len(toClient) + 1
        BY <2>1
      <4>2. QED
        BY <1>1, <1>2, <3>2, <4>1
    <3>7. OnTheWay' /\ TasksInv' /\ Unwelcome'
      BY <2>4, <2>8, <3>4, <3>5, <3>6 DEF OnTheWay, TasksInv, Unwelcome, ShowsInv
    <3>8. QED
      BY <3>7 DEF ShowsInv
  <2>9. QED
    BY <2>3, <2>6, <2>7, <2>8
<1>6. QED
  BY <1>3, <1>4, <1>5

(* LoginOk is the first frame of all. *)
LEMMA WelcomeKeepsShows ==
    ASSUME TypeOK, ShowsInv, HandlerWelcomes
    PROVE  ShowsInv'
<1>1. /\ handler = "welcome" /\ UNCHANGED <<main, receiver, said, shown>>
      /\ Streams /\ [kind |-> "LoginOk", n |-> 0] \in Frame
  BY DEF HandlerWelcomes, clientVars, historyVars, TypeOK, Streams, Frame
<1>2. toClient = <<>> /\ receiver = "none" /\ said = 0
  BY <1>1 DEF ShowsInv, Unwelcome, Silent
<1>3. CASE WriteToClient([kind |-> "LoginOk", n |-> 0]) /\ handler' = "loop"
  <2>1. /\ Streams' /\ ~reset
        /\ \/ /\ ClientOpen /\ toClient' = Append(toClient, [kind |-> "LoginOk", n |-> 0])
              /\ reset' = reset
           \/ ~ClientOpen /\ reset' /\ CutClient
    BY <1>1, <1>3, ClientWritten
  <2>2. CASE ClientOpen /\ toClient' = Append(toClient, [kind |-> "LoginOk", n |-> 0]) /\ reset' = reset
    <3>1. Len(toClient') = 1 /\ toClient'[1].kind = "LoginOk"
      BY <1>2, <2>2
    <3>2. \A i \in 2..Len(toClient') : FALSE
      BY <3>1
    <3>3. OnTheWay' /\ TasksInv' /\ Unwelcome'
      BY <1>1, <1>2, <1>3, <3>1, <3>2 DEF OnTheWay, TasksInv, Unwelcome, ShowsInv, Silent
    <3>4. QED
      BY <1>1, <3>3 DEF ShowsInv
  <2>3. CASE ~ClientOpen /\ reset' /\ CutClient
    <3>1. toClient' = <<>>
      BY <1>1, <1>2, <2>1, <2>3 DEF CutClient, Cut, Streams
    <3>2. main = "done"
      BY <2>3 DEF ClientOpen
    <3>3. OnTheWay' /\ TasksInv' /\ Unwelcome'
      BY <1>1, <1>2, <1>3, <2>3, <3>1, <3>2 DEF OnTheWay, TasksInv, Unwelcome, ShowsInv, Silent
    <3>4. QED
      BY <1>1, <3>3 DEF ShowsInv
  <2>4. QED
    BY <2>1, <2>2, <2>3
<1>4. CASE reset /\ handler' = "reject" /\ UNCHANGED streamVars
  <2>1. Unseen /\ Streams'
    BY <1>1, <1>4, Uncut DEF Unseen, CutClient, streamVars, Streams
  <2>2. QED
    BY <2>1, UnseenKeepsShows
<1>5. QED
  BY <1>3, <1>4 DEF HandlerWelcomes, HandlerGoes

(* A refusal is followed by nothing but another. *)
LEMMA RefuseKeepsShows ==
    ASSUME TypeOK, ShowsInv, HandlerRefuses
    PROVE  ShowsInv'
<1> DEFINE error == [kind |-> "Error", n |-> 0]
<1>1. /\ \/ handler = "refuse" /\ handler' = "reject"
         \/ handler = "reject" /\ handler' = "closed"
      /\ UNCHANGED <<main, receiver, said, shown>>
      /\ Streams /\ error \in Frame /\ error.kind = "Error"
  BY DEF HandlerRefuses, TryWriteError, HandlerGoes, clientVars, historyVars, TypeOK, Streams, Frame
<1>2. WriteToClient(error) \/ UNCHANGED streamVars
  BY DEF HandlerRefuses, TryWriteError
<1> HIDE DEF error
<1>3. /\ receiver = "none" /\ said = 0
      /\ \A i \in 1..Len(toClient) : toClient[i].kind = "Error"
  BY <1>1 DEF ShowsInv, Unwelcome, Silent
<1>4. ASSUME Streams', \A i \in 1..Len(toClient') : toClient'[i].kind = "Error"
      PROVE  ShowsInv'
  <2>1. toClient' # <<>> => 1 \in 1..Len(toClient')
    BY <1>4 DEF Streams
  <2>2. toClient' # <<>> => toClient'[1].kind # "LoginOk"
    BY <1>4, <2>1
  <2>3. OnTheWay' /\ TasksInv' /\ Unwelcome'
    BY <1>1, <1>3, <1>4, <2>2 DEF OnTheWay, TasksInv, Unwelcome, ShowsInv, Silent, Greeted
  <2>4. QED
    BY <1>1, <2>3 DEF ShowsInv
<1>5. CASE WriteToClient(error)
  <2>1. /\ Streams'
        /\ toClient' = Append(toClient, error) \/ CutClient
    BY <1>1, <1>5, ClientWritten
  <2>2. CASE toClient' = Append(toClient, error)
    <3>1. /\ Len(toClient) \in Nat /\ Len(toClient') = Len(toClient) + 1
          /\ \A i \in 1..Len(toClient) : toClient'[i] = toClient[i]
          /\ toClient'[Len(toClient) + 1] = error
      BY <1>1, <2>2, AppendLast DEF Streams
    <3>2. \A i \in 1..Len(toClient') : i \in 1..Len(toClient) \/ i = Len(toClient) + 1
      BY <3>1
    <3>3. QED
      BY <1>1, <1>3, <1>4, <2>1, <3>1, <3>2
  <2>3. CASE CutClient
    <3>1. \A i \in 1..Len(toClient') : i \in 1..Len(toClient) /\ toClient'[i] = toClient[i]
      BY <2>3 DEF CutClient, Cut
    <3>2. QED
      BY <1>3, <1>4, <2>1, <3>1
  <2>4. QED
    BY <2>1, <2>2, <2>3
<1>6. CASE UNCHANGED streamVars
  BY <1>1, <1>3, <1>4, <1>6 DEF streamVars, Streams
<1>7. QED
  BY <1>2, <1>5, <1>6

(* The client's other steps show nothing, *)
LEMMA ClientKeepsShows ==
    ASSUME TypeOK, ShowsInv, Streams',
           MainTask \/ User \/ ReceiverTask \/ ClientKilled
    PROVE  ShowsInv'
<1>1. Streams
  BY DEF TypeOK, Streams
<1>2. CASE SendLogin \/ SendLine
  <2>1. CutClient /\ (reset => reset') /\ UNCHANGED <<receiver, handler, said, shown>>
    <3>1. typed \in 0..MaxLines /\ LoginFrame \in 0..MaxLines
      BY SessionConstants DEF TypeOK, LoginFrame
    <3>2. (\E f \in 0..MaxLines : WriteToServer(f)) \/ UNCHANGED streamVars
      BY <1>2, <3>1 DEF SendLogin, SendLine
    <3>3. CutClient /\ (reset => reset')
      BY <1>1, <3>2, ServerWritten, Uncut DEF streamVars
    <3>4. QED
      BY <1>2, <3>3 DEF SendLogin, SendLine, historyVars
  <2>2. \/ main' \in {main, "done"}
        \/ main = "login" /\ main' = "answer"
        \/ {main, main'} \subseteq {"prompt", "send", "quit"}
    BY <1>2 DEF SendLogin, SendLine
  <2>3. Unseen
    BY <2>1, <2>2 DEF Unseen, CutClient
  <2>4. QED
    BY <2>3, UnseenKeepsShows
<1>3. CASE AnswerFails \/ SignalShutdown \/ User
  <2>1. UNCHANGED <<receiver, handler, toClient, reset, said, shown>>
    BY <1>3
       DEF AnswerFails, SignalShutdown, User, TypeLine, Quit, FlushFails, streamVars, historyVars
  <2>2. main' \in {main, "done"} \/ {main, main'} \subseteq {"prompt", "send", "quit"}
    BY <1>3 DEF AnswerFails, SignalShutdown, User, TypeLine, Quit, FlushFails
  <2>3. Unseen
    BY <1>1, <2>1, <2>2, Uncut DEF Unseen, CutClient
  <2>4. QED
    BY <2>3, UnseenKeepsShows
<1>4. CASE ReceiverEnds \/ ReceiverStops \/ ClientKilled
  <2>1. UNCHANGED <<handler, toClient, reset, said, shown>> /\ main' \in {main, "done"}
    BY <1>4 DEF ReceiverEnds, ReceiverStops, ClientKilled, streamVars, historyVars
  <2>2. \/ receiver' = receiver
        \/ receiver = "reading" /\ receiver' = "done" /\ (main' = "done" \/ EndOfInput)
    BY <1>4 DEF ReceiverEnds, ReceiverStops, ClientKilled
  <2>3. Unseen
    BY <1>1, <2>1, <2>2, Uncut DEF Unseen, CutClient
  <2>4. QED
    BY <2>3, UnseenKeepsShows
<1>5. QED
  BY <1>2, <1>3, <1>4, AnswerKeepsShows, ShowKeepsShows DEF MainTask, ReceiverTask

(* and so do the handler's. *)
LEMMA HandlerKeepsShows ==
    ASSUME TypeOK, ShowsInv, Streams',
           \/ HandlerReads \/ HandlerWorks \/ HandlerTakesBroadcast
           \/ ConnectionReset \/ ServerKilled \/ Finished
    PROVE  ShowsInv'
<1>1. Streams
  BY DEF TypeOK, Streams
<1>2. CASE HandlerReads \/ HandlerStores \/ HandlerTakesBroadcast
  <2>1. UNCHANGED <<main, receiver, toClient, reset, said, shown>>
    BY <1>2
       DEF HandlerReads, HandlerReceivesLogin, HandlerHears, HandlerTooLarge, HandlerMishears, HandlerLeaves,
           HandlerStores, HandlerTakesBroadcast, clientVars, streamVars, historyVars
  <2>2. \/ handler' = "closed"
        \/ handler \in Greeted /\ handler' \in Greeted
        \/ handler = "login" /\ handler' \in {"welcome", "refuse", "reject"}
    BY <1>2
       DEF HandlerReads, HandlerReceivesLogin, HandlerHears, HandlerTooLarge, HandlerMishears, HandlerLeaves,
           HandlerStores, HandlerTakesBroadcast, HandlerGoes, Greeted
  <2>3. Unseen
    BY <1>1, <2>1, <2>2, Uncut DEF Unseen, CutClient
  <2>4. QED
    BY <2>3, UnseenKeepsShows
<1>3. CASE HandlerWrites \/ HandlerReports
  <2>1. /\ UNCHANGED <<main, receiver, shown>> /\ handler \in Greeted
        /\ handler' \in Greeted \cup {"closed"}
    BY <1>3 DEF HandlerWrites, HandlerReports, HandlerGoes, clientVars, Greeted
  <2>2. CASE Say
    <3>1. handler' \in Greeted
      BY <1>3, <2>2, <1>1 DEF HandlerWrites, HandlerReports, HandlerGoes, Greeted, Say, WriteToClient
    <3>2. QED
      BY <2>1, <2>2, <3>1, SayKeepsShows
  <2>3. CASE UNCHANGED <<streamVars, said>>
    <3>1. Unseen
      BY <1>1, <2>1, <2>3, Uncut DEF Unseen, CutClient, streamVars
    <3>2. QED
      BY <3>1, UnseenKeepsShows
  <2>4. QED
    BY <1>3, <2>2, <2>3 DEF HandlerWrites, HandlerReports
<1>4. CASE ConnectionReset
  <2>1. Unseen
    BY <1>1, <1>4, ResetCuts DEF ConnectionReset, Unseen, CutClient, clientVars, historyVars
  <2>2. QED
    BY <2>1, UnseenKeepsShows
<1>5. CASE ServerKilled
  <2>1. Cut(toClient', toClient)
    BY <1>1, <1>5, PrefixCuts DEF ServerKilled, Streams
  <2>2. Unseen
    BY <1>5, <2>1 DEF ServerKilled, Unseen, HandlerGoes, clientVars, historyVars
  <2>3. QED
    BY <2>2, UnseenKeepsShows
<1>6. CASE Finished
  <2>1. Unseen
    BY <1>1, <1>6, Uncut DEF Finished, Unseen, CutClient, vars, clientVars, streamVars, historyVars
  <2>2. QED
    BY <2>1, UnseenKeepsShows
<1>7. QED
  BY <1>2, <1>3, <1>4, <1>5, <1>6, WelcomeKeepsShows, RefuseKeepsShows DEF HandlerWorks

-----------------------------------------------------------------------------
(* The session. *)

(* It begins that way, *)
LEMMA InitSession ==
    ASSUME Init
    PROVE  SessionInv
<1>1. /\ main = "login" /\ receiver = "none" /\ handler = "login"
      /\ toServer = <<>> /\ toClient = <<>> /\ reset = FALSE /\ align = "kept"
      /\ typed = 0 /\ heard = <<>> /\ said = 0 /\ shown = <<>> /\ forwarded = 0
  BY DEF Init
<1>2. Len(toServer) = 0 /\ Len(toClient) = 0 /\ Len(heard) = 0 /\ Len(shown) = 0
  BY <1>1
<1>3. TypeOK
  <2>1. main \in MainStep /\ handler \in ServerStep
    BY <1>1 DEF MainStep, ServerStep
  <2>2. /\ toServer \in Seq(0..MaxLines) /\ toClient \in Seq(Frame)
        /\ heard \in Seq(1..MaxLines) /\ shown \in Seq(Nat)
    BY <1>1
  <2>3. Len(toServer) <= SocketBuffer /\ Len(toClient) <= SocketBuffer
    BY <1>2, SessionConstants
  <2>4. typed \in 0..MaxLines /\ forwarded \in 0..MaxBroadcasts /\ said \in Nat
    BY <1>1, SessionConstants
  <2>5. QED
    BY <1>1, <2>1, <2>2, <2>3, <2>4 DEF TypeOK
<1>4. LinesInv
  <2>1. Lined(0)
    BY <1>1, <1>2 DEF Lined, Upcoming, LoginFrame
  <2>2. QED
    BY <1>1, <1>2, <2>1 DEF LinesInv, LinesInOrder
<1>5. ShowsInv
  BY <1>1, <1>2 DEF ShowsInv, TasksInv, OnTheWay, Unwelcome, Silent, Greeted
<1>6. QED
  BY <1>3, <1>4, <1>5 DEF SessionInv

(* and every step keeps it. *)
LEMMA NextSession ==
    ASSUME SessionInv, [Next]_vars
    PROVE  SessionInv'
<1>1. TypeOK /\ LinesInv /\ ShowsInv
  BY DEF SessionInv
<1>2. CASE Next
  <2>1. Streams'
    BY <1>1, <1>2, StreamsTyped
  <2>2. TypeOK'
    BY <1>1, <1>2, <2>1, StepsTyped, HistoryTyped DEF TypeOK, Streams
  <2>3. LinesInv'
    BY <1>1, <1>2, MainKeepsLines, OthersKeepLines DEF Next
  <2>4. ShowsInv'
    BY <1>1, <1>2, <2>1, ClientKeepsShows, HandlerKeepsShows DEF Next
  <2>5. QED
    BY <2>2, <2>3, <2>4 DEF SessionInv
<1>3. CASE UNCHANGED vars
  <2>1. /\ UNCHANGED <<main, receiver, handler, toServer, toClient, reset>>
        /\ UNCHANGED <<align, typed, heard, said, forwarded, shown>>
    BY <1>3 DEF vars, clientVars, streamVars, historyVars
  <2>2. TypeOK'
    BY <1>1, <2>1 DEF TypeOK
  <2>3. LinesInv'
    BY <1>1, <2>1 DEF LinesInv, LinesInOrder, Lined, Upcoming, ServerOpen
  <2>4. ShowsInv'
    BY <1>1, <2>1 DEF ShowsInv, TasksInv, OnTheWay, Unwelcome, ServerOpen
  <2>5. QED
    BY <2>2, <2>3, <2>4 DEF SessionInv
<1>4. QED
  BY <1>2, <1>3

(* The invariant holds of every session, whatever the sizes of the socket   *)
(* buffers and however much is typed and broadcast (client/src/lib.rs,      *)
(* run_client; server/src/lib.rs, handle_client).                           *)
THEOREM SessionHolds == Spec => []SessionInv
<1>1. Init => SessionInv
  BY InitSession
<1>2. SessionInv /\ [Next]_vars => SessionInv'
  BY NextSession
<1>3. QED
  BY <1>1, <1>2, PTL DEF Spec

(* The state of a connection is always of its type: no direction holds more *)
(* frames than the socket, and what the handler hears are lines.            *)
THEOREM SessionTyped == Spec => []TypeOK
<1>1. SessionInv => TypeOK
  BY DEF SessionInv
<1>2. QED
  BY <1>1, SessionHolds, PTL

(* The handler hears no line twice and none after a later one; and until a  *)
(* receive is dropped inside a frame (server/src/lib.rs:279) or a line is   *)
(* over the limit (298) it leaves none out before one it hears, for any     *)
(* number of lines and any socket buffer.                                   *)
THEOREM LinesHeardInOrder == Spec => []LinesInOrder
<1>1. SessionInv => LinesInOrder
  BY DEF SessionInv, LinesInv
<1>2. QED
  BY <1>1, SessionHolds, PTL

(* The receiver shows what the handler wrote, in order, and ends by itself  *)
(* only when nothing is left to show (client/src/lib.rs, the receiver task).*)
THEOREM FeedShownInOrder == Spec => []ShownInOrder
<1>1. SessionInv => ShownInOrder
  BY DEF SessionInv, ShowsInv, TasksInv, ShownInOrder
<1>2. QED
  BY <1>1, SessionHolds, PTL
=============================================================================
