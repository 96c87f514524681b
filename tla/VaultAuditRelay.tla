--------------------------- MODULE VaultAuditRelay ---------------------------
(***************************************************************************)
(* The audit relay (cmd/vault-audit-relay/main.go): a sidecar that copies  *)
(* Vault's audit records from a file it tails and from a Unix socket it    *)
(* serves to stdout, through one bounded channel and one writer goroutine. *)
(*                                                                         *)
(* Vault's two audit devices are the environment: each logs the records    *)
(* 1, 2, ... in order, the file device by appending a record at once or in *)
(* two pieces (a reader may see the file between two page copies of one    *)
(* write).  The file outlives the relay, its connections do not.           *)
(***************************************************************************)
EXTENDS Integers, Sequences, SequencesExt

CONSTANTS
  MaxRecord,   \* number of records Vault logs
  Oversized,   \* the records of 1 MiB or more
  Splits,      \* the records the file device may append in two pieces
  Capacity,    \* of main's channel
  MaxStarts,   \* bound on the starts of the relay container
  MaxConns     \* bound on the socket connections of one relay process

Records == 1..MaxRecord
ASSUME RelayAssumption ==
  /\ MaxRecord \in Nat /\ Oversized \subseteq Records /\ Splits \subseteq Records
  /\ Capacity \in Nat \ {0} /\ MaxStarts \in Nat /\ MaxConns \in Nat

VARIABLES
  exists,    \* Vault has created the audit file
  file,      \* its contents: a sequence of [rec, part]
  socketed,  \* how many records the socket device has logged
  starts,    \* starts of the relay so far
  up,        \* a relay process runs
  failed,    \* a read of the file has failed in it
  tail,      \* tailFile and followFile
  conns,     \* the process's connections, oldest first
  records,   \* the channel: a sequence of [src, rec]
  stdout     \* what the node's log collector has been given

vaultVars == <<exists, file, socketed>>
vars == <<vaultVars, starts, up, failed, tail, conns, records, stdout>>

-----------------------------------------------------------------------------
None == 0                                    \* no record
Item(src, r) == [src |-> src, rec |-> r]
Piece(r, part) == [rec |-> r, part |-> part]

(* `first' and `base' are the file's lengths when the process opened it    *)
(* for the first and for the last time (history variables), `pos' is how   *)
(* far it is read, `line' the record that emitRecord is waiting to send.   *)
Unopened == -1
NoFile == [fd |-> FALSE, first |-> Unopened, base |-> 0, pos |-> 0, line |-> None]

Init ==
  /\ exists \in BOOLEAN /\ file = <<>> /\ socketed = 0
  /\ starts = 0 /\ up = FALSE /\ failed = FALSE
  /\ tail = NoFile /\ conns = <<>> /\ records = <<>> /\ stdout = <<>>

-----------------------------------------------------------------------------
(* Vault's devices.                                                        *)

LastRecord == IF file = <<>> THEN None ELSE Last(file).rec
Unfinished == file # <<>> /\ Last(file).part = "head"

CreateFile ==
  /\ ~exists
  /\ exists' = TRUE
  /\ UNCHANGED <<file, socketed, starts, up, failed, tail, conns, records, stdout>>

AppendPiece(p) ==
  /\ file' = Append(file, p)
  /\ UNCHANGED <<exists, socketed, starts, up, failed, tail, conns, records, stdout>>
AppendWhole ==
  /\ exists /\ ~Unfinished /\ LastRecord < MaxRecord
  /\ AppendPiece(Piece(LastRecord + 1, "whole"))
AppendHead ==
  /\ exists /\ ~Unfinished /\ LastRecord + 1 \in Splits
  /\ AppendPiece(Piece(LastRecord + 1, "head"))
AppendRest ==
  /\ Unfinished
  /\ AppendPiece(Piece(LastRecord, "rest"))

(* The socket device writes to its connection, or to a new one when it has *)
(* none, when the relay closed the last one or when it gave it up itself.  *)
SendSocket ==
  /\ socketed < MaxRecord /\ up
  /\ socketed' = socketed + 1
  /\ \/ /\ conns # <<>> /\ Last(conns).open
        /\ conns' = [conns EXCEPT ![Len(conns)].buf = Append(@, socketed')]
     \/ /\ Len(conns) < MaxConns
        /\ conns' = Append(conns, [open |-> TRUE, buf |-> <<socketed'>>, line |-> None])
  /\ UNCHANGED <<exists, file, starts, up, failed, tail, records, stdout>>
(* Nobody listens: the record is logged by the file device only.           *)
SendFails ==
  /\ socketed < MaxRecord /\ ~up
  /\ socketed' = socketed + 1
  /\ UNCHANGED <<exists, file, starts, up, failed, tail, conns, records, stdout>>

-----------------------------------------------------------------------------
(* The relay process.                                                      *)

(* main: the stale socket is replaced and the goroutines start.            *)
Start ==
  /\ ~up /\ starts < MaxStarts
  /\ up' = TRUE /\ starts' = starts + 1 /\ failed' = FALSE
  /\ UNCHANGED <<vaultVars, tail, conns, records, stdout>>

(* The container is killed, or stdout is gone: the channel, the lines that *)
(* wait for it and what the connections hold are lost.                     *)
Crash ==
  /\ up
  /\ up' = FALSE
  /\ tail' = NoFile /\ conns' = <<>> /\ records' = <<>>
  /\ UNCHANGED <<vaultVars, starts, failed, stdout>>

TailPosition_FromStart == 0
(* tailFile: open, then seek to the end.  A missing file is retried.       *)
TailPosition == Len(file)
OpenFile ==
  /\ up /\ ~tail.fd /\ exists
  /\ tail' = [fd |-> TRUE, first |-> IF tail.first = Unopened THEN Len(file) ELSE tail.first,
               base |-> TailPosition, pos |-> TailPosition, line |-> None]
  /\ UNCHANGED <<vaultVars, starts, up, failed, conns, records, stdout>>

(* followFile's ReadSlice takes what it finds up to the newline, or up to  *)
(* the end of the file when the line is not complete yet; that part is     *)
(* consumed and dropped, and the rest of the line is not JSON by itself.   *)
NextPiece == file[tail.pos + 1]
Completed == tail.pos + 2 <= Len(file)       \* the rest of a head follows
LineRecord ==
  IF NextPiece.rec \in Oversized \/ NextPiece.part = "rest" \/
     (NextPiece.part = "head" /\ ~Completed)
  THEN None ELSE NextPiece.rec
LineEnd == tail.pos + (IF NextPiece.part = "head" /\ Completed THEN 2 ELSE 1)

(* followFile continues after a line that filled its buffer or that ended  *)
(* without a newline.  After any complete line it returns, once emitRecord *)
(* has, and tailFile closes the file and opens it again at its end.  What  *)
(* is left of an oversized line may or may not fill the buffer again.      *)
Continues == NextPiece.rec \in Oversized \/ (NextPiece.part = "head" /\ ~Completed)
ReadLine ==
  /\ up /\ tail.fd /\ tail.line = None /\ tail.pos < Len(file)
  /\ \/ /\ LineRecord # None \/ Continues
        /\ tail' = [tail EXCEPT !.pos = LineEnd, !.line = LineRecord]
     \/ /\ NextPiece.part = "rest"
        /\ tail' = [tail EXCEPT !.pos = LineEnd, !.fd = FALSE]
  /\ UNCHANGED <<vaultVars, starts, up, failed, conns, records, stdout>>

AtEOF_Reopens == [tail EXCEPT !.fd = FALSE]
(* At the end of the file followFile sleeps with the descriptor open.      *)
AtEOF == tail
PollEOF ==
  /\ up /\ tail.fd /\ tail.line = None /\ tail.pos = Len(file)
  /\ tail' = AtEOF
  /\ UNCHANGED <<vaultVars, starts, up, failed, conns, records, stdout>>

(* A read error: the file is closed, and opened again at its end.          *)
ReadFails ==
  /\ up /\ tail.fd /\ tail.line = None
  /\ tail' = [tail EXCEPT !.fd = FALSE] /\ failed' = TRUE
  /\ UNCHANGED <<vaultVars, starts, up, conns, records, stdout>>

EmitTo_Unbounded(src, r) == records' = Append(records, Item(src, r))
EmitTo_DropWhenFull(src, r) ==
  records' = IF Len(records) < Capacity THEN Append(records, Item(src, r)) ELSE records
(* emitRecord blocks while the channel is full.                            *)
EmitTo(src, r) ==
  /\ Len(records) < Capacity
  /\ records' = Append(records, Item(src, r))
(* followFile's emitRecord, after which it returns.                        *)
EmitFile ==
  /\ tail.line # None
  /\ EmitTo("file", tail.line)
  /\ tail' = [tail EXCEPT !.line = None, !.fd = FALSE]
  /\ UNCHANGED <<vaultVars, starts, up, failed, conns, stdout>>

ScanRecord_Once(c) ==
  conns' = [conns EXCEPT ![c] = [open |-> FALSE, buf |-> <<>>, line |-> Head(conns[c].buf)]]
(* readRecords: Scan returns the next line; an oversized one is an error,  *)
(* and the connection is closed with all that it still holds.              *)
ScanRecord(c) ==
  conns' = IF Head(conns[c].buf) \in Oversized
           THEN [conns EXCEPT ![c] = [open |-> FALSE, buf |-> <<>>, line |-> None]]
           ELSE [conns EXCEPT ![c].buf = Tail(@), ![c].line = Head(conns[c].buf)]
ReadSocket(c) ==
  /\ conns[c].line = None /\ conns[c].buf # <<>>
  /\ ScanRecord(c)
  /\ UNCHANGED <<vaultVars, starts, up, failed, tail, records, stdout>>
EmitSocket(c) ==
  /\ conns[c].line # None
  /\ EmitTo("socket", conns[c].line)
  /\ conns' = [conns EXCEPT ![c].line = None]
  /\ UNCHANGED <<vaultVars, starts, up, failed, tail, stdout>>

(* writeRecords, the only writer to stdout.                                *)
WriteRecord ==
  /\ records # <<>>
  /\ stdout' = Append(stdout, Head(records))
  /\ records' = Tail(records)
  /\ UNCHANGED <<vaultVars, starts, up, failed, tail, conns>>

VaultNext == CreateFile \/ AppendWhole \/ AppendHead \/ AppendRest \/ SendSocket \/ SendFails
Relay == OpenFile \/ ReadLine \/ PollEOF \/ ReadFails \/ EmitFile \/ WriteRecord
         \/ \E c \in DOMAIN conns : ReadSocket(c) \/ EmitSocket(c)
Next == VaultNext \/ Start \/ Crash \/ Relay

Spec == Init /\ [][Next]_vars
(* Every goroutine that can run is scheduled, also against the others that *)
(* wait for room in the channel (blocked senders are served in turn).      *)
Fairness ==
  /\ WF_vars(OpenFile) /\ WF_vars(ReadLine) /\ WF_vars(WriteRecord)
  /\ SF_vars(EmitFile)
  /\ \A c \in 1..MaxConns : WF_vars(c \in DOMAIN conns /\ ReadSocket(c))
                            /\ SF_vars(c \in DOMAIN conns /\ EmitSocket(c))
FairSpec == Spec /\ Fairness

-----------------------------------------------------------------------------
(* Properties.                                                             *)

TypeOK ==
  /\ exists \in BOOLEAN /\ up \in BOOLEAN /\ failed \in BOOLEAN
  /\ file \in Seq([rec : Records, part : {"whole", "head", "rest"}])
  /\ socketed \in 0..MaxRecord /\ starts \in 0..MaxStarts
  /\ tail \in [fd : BOOLEAN, first : Unopened..Len(file),
               base : 0..Len(file), pos : 0..Len(file), line : Records \cup {None}]
  /\ conns \in Seq([open : BOOLEAN, buf : Seq(Records), line : Records \cup {None}])
  /\ Len(conns) <= MaxConns
  /\ records \in Seq([src : {"file", "socket"}, rec : Records])
  /\ Len(records) <= Capacity
  /\ stdout \in Seq([src : {"file", "socket"}, rec : Records])

(* What has left the goroutines, oldest first: on stdout or in the channel. *)
Emitted == stdout \o records
(* A file record on its way through the relay: emitted, or waiting to be.  *)
OnFilePath(r) ==
  \/ tail.line = r
  \/ \E i \in DOMAIN Emitted : Emitted[i] = Item("file", r)
OnStdout(src, r) == Contains(stdout, Item(src, r))

(* Each record of the file reaches stdout at most once and in file order,  *)
(* over all restarts of the relay: it never starts again from the top      *)
(* (tailFile's seek) although stdout is append-only and shared.            *)
FileOrder ==
  \A j \in DOMAIN Emitted : Emitted[j].src = "file" =>
    /\ \A i \in 1..(j - 1) : Emitted[i].src = "file" => Emitted[i].rec < Emitted[j].rec
    /\ tail.line # None => Emitted[j].rec < tail.line

(* Every record of normal size that followFile has read from the file it   *)
(* has open, or had open last, is on its way or has been written, whatever *)
(* oversized or torn lines came before it and however full the channel is. *)
ReadIsForwarded ==
  \A i \in (tail.base + 1)..tail.pos :
    file[i].part = "whole" /\ file[i].rec \notin Oversized => OnFilePath(file[i].rec)

(* "Newly appended file records" are forwarded to stdout                   *)
(* (docs/operations/vault-validator-audit.md:34-35): what was appended     *)
(* since the relay opened the file, and lies behind its reading position,  *)
(* has been read and not skipped.                                          *)
AppendedIsForwarded ==
  \A i \in DOMAIN file :
    /\ ~failed /\ tail.first # Unopened /\ tail.first < i /\ i <= tail.pos
    /\ file[i].part = "whole" /\ file[i].rec \notin Oversized
    => OnFilePath(file[i].rec)

(* Piece i came after the relay had opened the file for the first time,    *)
(* and nothing but oversized lines came between.                           *)
FirstFollowed(i) ==
  /\ tail.first # Unopened /\ tail.first < i
  /\ file[i].part = "whole" /\ file[i].rec \notin Oversized
  /\ \A j \in (tail.first + 1)..(i - 1) : file[j].part = "whole" /\ file[j].rec \in Oversized

(* Record r is on a connection with no oversized record before it.         *)
InFlight(r) == \E c \in DOMAIN conns :
  /\ Contains(conns[c].buf, r)
  /\ \A b \in ToSet(conns[c].buf) : b <= r => b \notin Oversized

(* ReadyIsWritten: the first record of normal size that Vault appends after *)
(* a relay has opened the file is written to stdout while that relay stays *)
(* up and can read: neither a full channel nor an oversized line stops the *)
(* flow, and the descriptor that followFile keeps open at the end of the   *)
(* file lets it miss nothing there (main.go:124-125).  Vault's second      *)
(* device makes up for what the file path drops: a record sent before any  *)
(* oversized one on its connection arrives.                                *)
ReadyIsWritten ==
  \A r \in Records \ Oversized :
    /\ (\E i \in DOMAIN file : FirstFollowed(i) /\ file[i].rec = r)
         ~> (OnStdout("file", r) \/ ~up \/ failed)
    /\ InFlight(r) ~> (OnStdout("socket", r) \/ ~up)
=============================================================================
