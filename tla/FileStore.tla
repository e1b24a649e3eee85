----------------------------- MODULE FileStore ------------------------------
(***************************************************************************)
(* What a session does with a File or an Image: save_binary_content        *)
(* (utils/src/lib.rs) writes the bytes under server_received, then         *)
(* store_message (server/src/lib.rs) inserts the row.  Sessions share the  *)
(* directories, and nothing keeps two of them from writing one path.       *)
(*                                                                         *)
(* A file is the sequence of chunks the writes put at its offsets; a chunk *)
(* says which message it belongs to and its place there.  A client names   *)
(* its files; an image is named after its user and the clock.              *)
(***************************************************************************)
EXTENDS Naturals, Sequences

CONSTANTS Session,   \* logged-in clients; each is a user of its own
          Name,      \* file names clients send
          Text,      \* texts clients send
          Sizes,     \* chunks a file may have
          MaxSends,  \* bound: messages received over the whole run
          MaxClock   \* bound: the last millisecond

ASSUME FileStoreAssumption ==
    /\ Sizes \subseteq Nat
    /\ MaxSends \in Nat
    /\ MaxClock \in Nat

VARIABLES step,     \* step[s]: what session s does next with its message
          message,  \* message[s]: that message
          written,  \* written[s]: chunks of it written so far
          files,    \* the contents of each path that exists
          rows,     \* the rows of messages
          rowSeq,   \* messages_id_seq
          now,      \* the clock, in milliseconds
          sends,    \* bound: messages received so far; the number of the last
          opened,   \* history: the message each path was last created for
          alone,    \* history: messages whose path nobody else has had open
          whole     \* history: messages whose bytes were all written

saveVars  == <<step, message, written, files, opened, alone, whole>>
tableVars == <<rows, rowSeq>>
storeVars == <<saveVars, tableVars, now, sends>>

Path    == [dir : {"files"}, name : Name]
             \cup [dir : {"images"}, user : Session, time : 0..MaxClock]
Kind    == {"Text", "File", "Image"}
Nothing == [number |-> 0]
Hole    == [of |-> 0, place |-> 0]
Chunk   == [of : 0..MaxSends, place : Nat]

(* What the column content may hold: a text, or the name of a file. *)
Content == [dir : {"none"}, name : Text] \cup Path

(* number and saved are no columns but history: which message the row is   *)
(* of, and the path its bytes were written to.                             *)
Row == [id : Nat, kind : Kind, from : Session, number : 1..MaxSends,
        content : Content, saved : Content, sent_at : 0..MaxClock]

StoreTypeOK ==
    /\ step \in [Session -> {"idle", "create", "write", "store"}]
    /\ \A s \in Session : message[s].number \in 0..sends /\ written[s] \in Nat
    /\ DOMAIN files \subseteq Path
    /\ \A p \in DOMAIN files : files[p] \in Seq(Chunk)
    /\ DOMAIN opened = DOMAIN files
    /\ rows \subseteq Row
    /\ \A m \in rows : m.id \in 1..rowSeq
    /\ now \in 0..MaxClock
    /\ sends \in 0..MaxSends
    /\ alone \cup whole \subseteq 1..sends

StoreInit ==
    /\ step = [s \in Session |-> "idle"]
    /\ message = [s \in Session |-> Nothing]
    /\ written = [s \in Session |-> 0]
    /\ files = <<>>
    /\ rows = {}
    /\ rowSeq = 0
    /\ now = 0
    /\ sends = 0
    /\ opened = <<>>
    /\ alone = {}
    /\ whole = {}

-----------------------------------------------------------------------------
(* The handler takes a message in. *)

Take(s, msg, next) ==
    /\ step[s] = "idle"
    /\ sends < MaxSends
    /\ sends' = sends + 1
    /\ message' = [message EXCEPT ![s] = msg]
    /\ step' = [step EXCEPT ![s] = next]
    /\ UNCHANGED <<written, files, opened, alone, whole, tableVars, now>>

TakeText(s, t) ==
    Take(s, [kind |-> "Text", number |-> sends + 1, size |-> 0,
             path |-> [dir |-> "none", name |-> t]], "store")

TakeFile(s, n, size) ==
    Take(s, [kind |-> "File", number |-> sends + 1, size |-> size,
             path |-> [dir |-> "files", name |-> n]], "create")

ImagePath(s) == [dir |-> "images", user |-> s, time |-> now]

TakeImage(s, size) ==
    Take(s, [kind |-> "Image", number |-> sends + 1, size |-> size,
             path |-> ImagePath(s)], "create")

-----------------------------------------------------------------------------
(* save_binary_content. *)

(* What s goes on with: the message is dropped with an Error to its sender. *)
GiveUp(s) ==
    /\ step' = [step EXCEPT ![s] = "idle"]
    /\ message' = [message EXCEPT ![s] = Nothing]
    /\ written' = [written EXCEPT ![s] = 0]

AfterWriting(s, n) == IF n < message[s].size THEN "write" ELSE "store"

Writers(p) == {s \in Session : step[s] = "write" /\ message[s].path = p}

Open(s, kept) ==
    LET p      == message[s].path
        others == {message[t].number : t \in Writers(p)}
    IN  /\ files' = [q \in DOMAIN files \cup {p} |-> IF q = p THEN kept ELSE files[q]]
        /\ opened' = [q \in DOMAIN files \cup {p} |->
                          IF q = p THEN message[s] ELSE opened[q]]
        /\ alone' = IF others = {} THEN alone \cup {message[s].number} ELSE alone \ others
        /\ whole' = IF message[s].size = 0 THEN whole \cup {message[s].number} ELSE whole
        /\ step' = [step EXCEPT ![s] = AfterWriting(s, 0)]
        /\ UNCHANGED <<message, written, tableVars, now, sends>>

(* OpenOptions::write without truncate. *)
MutantCreateFile(s) ==
    /\ step[s] = "create"
    /\ Open(s, IF message[s].path \in DOMAIN files THEN files[message[s].path] ELSE <<>>)

(* File::create empties a file that is there, also one being written. *)
CreateFile(s) ==
    /\ step[s] = "create"
    /\ Open(s, <<>>)

(* A chunk goes to the writer's own offset, past the end or not. *)
PutAt(f, i, c) ==
    [j \in 1..(IF i > Len(f) THEN i ELSE Len(f)) |->
        IF j = i THEN c ELSE IF j <= Len(f) THEN f[j] ELSE Hole]

(* write_all and flush, chunk by chunk. *)
WriteChunk(s) ==
    LET i == written[s] + 1
        m == message[s]
    IN  /\ step[s] = "write"
        /\ files' = [files EXCEPT ![m.path] = PutAt(@, i, [of |-> m.number, place |-> i])]
        /\ written' = [written EXCEPT ![s] = i]
        /\ step' = [step EXCEPT ![s] = AfterWriting(s, i)]
        /\ whole' = IF i = m.size THEN whole \cup {m.number} ELSE whole
        /\ UNCHANGED <<message, opened, alone, tableVars, now, sends>>

(* The handler ignores the error and stores the row. *)
MutantSaveFails(s) ==
    /\ step[s] \in {"create", "write"}
    /\ step' = [step EXCEPT ![s] = "store"]
    /\ UNCHANGED <<message, written, files, opened, alone, whole, tableVars, now, sends>>

(* The directory, the file or a write fails. *)
SaveFails(s) ==
    /\ step[s] \in {"create", "write"}
    /\ GiveUp(s)
    /\ UNCHANGED <<files, opened, alone, whole, tableVars, now, sends>>

-----------------------------------------------------------------------------
(* store_message and delete_message_by_id. *)

(* messages.id from the rows there are, as without a sequence. *)
MutantNextRowId == IF \E m \in rows : m.id = rowSeq THEN rowSeq + 1 ELSE rowSeq

(* messages.id BIGSERIAL *)
NextRowId == rowSeq + 1

(* The image's name is made again, from the clock as it is now. *)
ContentOf(s) == IF message[s].kind = "Image" THEN ImagePath(s) ELSE message[s].path

StoreRow(s) ==
    /\ step[s] = "store"
    /\ rowSeq' = NextRowId
    /\ rows' = rows \cup {[id |-> NextRowId, kind |-> message[s].kind, from |-> s,
                           number |-> message[s].number, content |-> ContentOf(s),
                           saved |-> message[s].path, sent_at |-> now]}
    /\ GiveUp(s)
    /\ UNCHANGED <<files, opened, alone, whole, now, sends>>

StoreRowFails(s) ==
    /\ step[s] = "store"
    /\ GiveUp(s)
    /\ UNCHANGED <<files, opened, alone, whole, tableVars, now, sends>>

(* The row goes; the file it names stays. *)
DeleteRow(id) ==
    /\ rows' = {m \in rows : m.id # id}
    /\ UNCHANGED <<saveVars, rowSeq, now, sends>>

-----------------------------------------------------------------------------
Tick ==
    /\ now < MaxClock
    /\ now' = now + 1
    /\ UNCHANGED <<saveVars, tableVars, sends>>

(* The process is killed: what was written stays, the rest never comes. *)
Crash ==
    /\ step' = [s \in Session |-> "idle"]
    /\ message' = [s \in Session |-> Nothing]
    /\ written' = [s \in Session |-> 0]
    /\ UNCHANGED <<files, opened, alone, whole, tableVars, now, sends>>

SessionStep(s) ==
    \/ \E t \in Text : TakeText(s, t)
    \/ \E n \in Name, size \in Sizes : TakeFile(s, n, size)
    \/ \E size \in Sizes : TakeImage(s, size)
    \/ CreateFile(s)
    \/ WriteChunk(s)
    \/ SaveFails(s)
    \/ StoreRow(s)
    \/ StoreRowFails(s)

-----------------------------------------------------------------------------
(* The file holds exactly the bytes of the message it was last created for. *)
Intact(p) ==
    LET m == opened[p]
    IN  files[p] = [i \in 1..m.size |-> [of |-> m.number, place |-> i]]

(* A file that nobody else had open while it was last written, and that    *)
(* was written to the end, is intact: no rest of a longer one that was     *)
(* there before, and no chunk of an earlier save that was overtaken        *)
(* (utils/src/lib.rs:309-322).                                             *)
WholeUnlessShared == \A p \in DOMAIN files : opened[p].number \in alone \cap whole => Intact(p)

(* All the bytes of a File or an Image were written before its row was, to *)
(* a file that is still there, whatever failed or was killed in between;   *)
(* and that file is intact unless another message has taken the path since *)
(* or was writing to it at the same time.  The row of a File names it;     *)
(* that of an Image may not (lib.rs:205 and 343).                          *)
FilesBehindRows ==
    \A r \in rows : r.kind # "Text" =>
        /\ r.number \in whole /\ r.saved \in DOMAIN files
        /\ r.kind = "File" => r.content = r.saved
        /\ opened[r.saved].number = r.number /\ r.number \in alone => Intact(r.saved)

(* "For Text messages or file names" (the column content in                *)
(* migrations/20250328203435_initial_schema.sql:11): the content of a row  *)
(* that is not of a text names a file.                                     *)
ContentNamesFile == \A r \in rows : r.kind # "Text" => r.content \in DOMAIN files
=============================================================================
