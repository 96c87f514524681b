----------------------- MODULE VaultAuditRelay_proofs -----------------------
(***************************************************************************)
(* Theorems about VaultAuditRelay, for every number of records, channel    *)
(* size, number of starts and connections: what followFile reads reaches   *)
(* stdout once and in file order, whatever restarts, torn or oversized     *)
(* lines come in between, and nothing of normal size that it reads is      *)
(* dropped.  The sequences are reasoned about by length and index.         *)
(***************************************************************************)
EXTENDS VaultAuditRelay, TLAPS

(* The sets of TypeOK, named.                                              *)
Pieces == [rec : Records, part : {"whole", "head", "rest"}]
Lines == [src : {"file", "socket"}, rec : Records]
Conns == [open : BOOLEAN, buf : Seq(Records), line : Records \cup {None}]
Tails == [fd : BOOLEAN, first : Unopened..Len(file),
          base : 0..Len(file), pos : 0..Len(file), line : Records \cup {None}]

(* The audit file: the records in increasing order, a record in one piece  *)
(* or as a head that its rest follows.                                     *)
FileInv ==
  /\ \A i, j \in 1..Len(file) : i < j =>
       \/ file[i].rec < file[j].rec
       \/ /\ file[i].rec = file[j].rec /\ j = i + 1
          /\ file[i].part = "head" /\ file[j].part = "rest"
  /\ \A i \in 1..Len(file) : i + 1 \in 1..Len(file) /\ file[i].part = "head" =>
       file[i + 1].rec = file[i].rec /\ file[i + 1].part = "rest"

(* The relay is done with a record it has sent on: the record is complete  *)
(* in the file, and the open descriptor is past all of its pieces.  The    *)
(* first two conjuncts make it so for every descriptor opened later, which *)
(* is why a restart repeats nothing.                                       *)
Done(r) ==
  /\ r \in Records /\ file # <<>>
  /\ r <= file[Len(file)].rec
  /\ file[Len(file)].part = "head" => r < file[Len(file)].rec
  /\ tail.fd => \A i \in (tail.pos + 1)..Len(file) : r < file[i].rec
PathInv ==
  /\ \A i \in 1..Len(Emitted) : Emitted[i].src = "file" => Done(Emitted[i].rec)
  /\ tail.line # None => Done(tail.line)

(* With TypeOK, the inductive invariant.                                   *)
CoreInv == FileInv /\ PathInv /\ FileOrder /\ ReadIsForwarded

-----------------------------------------------------------------------------
(* The sequences.                                                          *)

LEMMA Consts ==
  /\ Records \subseteq Nat \ {0} /\ None = 0 /\ MaxRecord \in Nat /\ Capacity \in Nat \ {0}
  /\ \A r \in Records : r <= MaxRecord
  /\ Oversized \subseteq Records /\ Splits \subseteq Records
BY RelayAssumption DEF Records, None

(* TypeOK, conjunct by conjunct and with the sets named above.             *)
LEMMA TypeParts ==
  TypeOK <=> /\ exists \in BOOLEAN /\ up \in BOOLEAN /\ failed \in BOOLEAN
             /\ file \in Seq(Pieces) /\ tail \in Tails
             /\ socketed \in 0..MaxRecord /\ starts \in 0..MaxStarts
             /\ conns \in Seq(Conns) /\ Len(conns) <= MaxConns
             /\ records \in Seq(Lines) /\ Len(records) <= Capacity
             /\ stdout \in Seq(Lines)
BY DEF TypeOK, Pieces, Tails, Conns, Lines

LEMMA LastFacts ==
  ASSUME TypeOK
  PROVE  /\ Len(file) \in Nat /\ (file # <<>> <=> Len(file) # 0)
         /\ file # <<>> => LastRecord = file[Len(file)].rec
         /\ file = <<>> => LastRecord = 0
         /\ Unfinished <=> file # <<>> /\ file[Len(file)].part = "head"
         /\ \A i \in 1..Len(file) : file[i] \in Pieces
         /\ \A i \in 1..Len(file) : file[i].rec \in Records
<1> DEFINE S == Pieces
<1>1. file \in Seq(S)
  BY TypeParts
<1> HIDE DEF S
<1>2. Len(file) \in Nat /\ (file # <<>> <=> Len(file) # 0) /\ \A i \in 1..Len(file) : file[i] \in S
  BY <1>1
<1>3. \A i \in 1..Len(file) : file[i].rec \in Records
  BY <1>2 DEF S, Pieces
<1>4. file # <<>> => Last(file) = file[Len(file)]
  BY DEF Last
<1>. QED BY <1>2, <1>3, <1>4 DEF LastRecord, Unfinished, None, S

LEMMA EmittedFacts ==
  ASSUME TypeOK
  PROVE  /\ Emitted \in Seq(Lines) /\ Len(Emitted) = Len(stdout) + Len(records)
         /\ Len(Emitted) \in Nat /\ DOMAIN Emitted = 1..Len(Emitted)
         /\ \A i \in 1..Len(Emitted) : Emitted[i].rec \in Records
<1> DEFINE S == Lines
<1>1. stdout \in Seq(S) /\ records \in Seq(S)
  BY TypeParts
<1> HIDE DEF S
<1>2. Emitted \in Seq(S) /\ Len(Emitted) = Len(stdout) + Len(records)
  BY <1>1 DEF Emitted
<1>3. Len(Emitted) \in Nat /\ DOMAIN Emitted = 1..Len(Emitted) /\ \A i \in 1..Len(Emitted) : Emitted[i] \in S
  BY <1>2
<1>4. ASSUME NEW i \in 1..Len(Emitted) PROVE Emitted[i].rec \in Records
  BY <1>3, <1>4 DEF S, Lines
<1>. QED BY <1>2, <1>3, <1>4 DEF S

(* An item that enters the channel comes last.                             *)
LEMMA EmittedGrows ==
  ASSUME TypeOK, NEW x \in Lines, records' = Append(records, x), stdout' = stdout
  PROVE  /\ Len(Emitted') = Len(Emitted) + 1 /\ Emitted'[Len(Emitted) + 1] = x
         /\ \A i \in 1..Len(Emitted) : Emitted'[i] = Emitted[i]
<1> DEFINE S == Lines
<1>1. stdout \in Seq(S) /\ records \in Seq(S) /\ x \in S
  BY TypeParts
<1> HIDE DEF S
<1>. QED BY <1>1 DEF Emitted

(* writeRecords moves the border between stdout and the channel.           *)
LEMMA EmittedMoves ==
  ASSUME TypeOK, WriteRecord
  PROVE  /\ Len(Emitted') = Len(Emitted)
         /\ \A i \in 1..Len(Emitted) : Emitted'[i] = Emitted[i]
<1> DEFINE S == Lines
<1>1. stdout \in Seq(S) /\ records \in Seq(S) /\ records # <<>>
  BY TypeParts DEF WriteRecord
<1> HIDE DEF S
<1>2. Emitted' = Append(stdout, Head(records)) \o Tail(records)
  BY DEF WriteRecord, Emitted
<1>. QED BY <1>1, <1>2 DEF Emitted

(* A crash leaves what is on stdout.                                       *)
LEMMA EmittedShrinks ==
  ASSUME TypeOK, Crash
  PROVE  /\ Len(Emitted') = Len(stdout) /\ Len(stdout) \in 0..Len(Emitted)
         /\ \A i \in 1..Len(Emitted') : Emitted'[i] = Emitted[i]
<1> DEFINE S == Lines
<1>1. stdout \in Seq(S) /\ records \in Seq(S)
  BY TypeParts
<1> HIDE DEF S
<1>2. Emitted' = stdout \o <<>>
  BY DEF Crash, Emitted
<1>. QED BY <1>1, <1>2 DEF Emitted

-----------------------------------------------------------------------------
(* Type correctness.                                                       *)

(* What ReadLine may do to the follower, as one record.                    *)
LEMMA ReadLineEffect ==
  ASSUME TypeOK, ReadLine
  PROVE  /\ LineEnd \in (tail.pos + 1)..Len(file) /\ LineRecord \in Records \cup {None}
         /\ NextPiece \in Pieces /\ tail.pos + 1 \in 1..Len(file)
         /\ tail' \in Tails
         /\ tail'.first = tail.first /\ tail'.base = tail.base /\ tail'.pos = LineEnd
         /\ \/ tail'.line = LineRecord
            \/ ~tail'.fd /\ tail'.line = tail.line /\ NextPiece.part = "rest"
<1>1. tail \in Tails /\ tail.pos < Len(file) /\ Len(file) \in Nat
  BY TypeParts, LastFacts DEF ReadLine
<1>2. tail.pos \in 0..Len(file) /\ tail.pos + 1 \in 1..Len(file)
  BY <1>1 DEF Tails
<1>3. NextPiece \in Pieces /\ NextPiece.rec \in Records
  BY <1>2, LastFacts DEF NextPiece
<1>4. LineEnd \in (tail.pos + 1)..Len(file)
  BY <1>1, <1>2 DEF LineEnd, Completed
<1>5. LineRecord \in Records \cup {None}
  BY <1>3 DEF LineRecord
<1>6. LineEnd \in 0..Len(file)
  BY <1>1, <1>2, <1>4
<1>7. CASE tail' = [tail EXCEPT !.pos = LineEnd, !.line = LineRecord]
  <2>1. tail' = [fd |-> tail.fd, first |-> tail.first, base |-> tail.base, pos |-> LineEnd, line |-> LineRecord]
    BY <1>1, <1>7 DEF Tails
  <2>. QED BY <2>1, <1>1, <1>2, <1>3, <1>4, <1>5, <1>6 DEF Tails
<1>8. CASE NextPiece.part = "rest" /\ tail' = [tail EXCEPT !.pos = LineEnd, !.fd = FALSE]
  <2>1. tail' = [fd |-> FALSE, first |-> tail.first, base |-> tail.base, pos |-> LineEnd, line |-> tail.line]
    BY <1>1, <1>8 DEF Tails
  <2>. QED BY <2>1, <1>1, <1>2, <1>3, <1>4, <1>5, <1>6, <1>8 DEF Tails
<1>. QED BY <1>7, <1>8 DEF ReadLine

(* The other steps of the follower.                                        *)
LEMMA TailEffect ==
  ASSUME TypeOK
  PROVE  /\ OpenFile => /\ tail' \in Tails /\ tail'.fd /\ tail'.line = None
                        /\ tail'.base = Len(file) /\ tail'.pos = Len(file)
         /\ ReadFails => /\ tail' \in Tails /\ ~tail'.fd /\ tail'.line = None
                         /\ tail'.base = tail.base /\ tail'.pos = tail.pos
         /\ EmitFile => /\ tail' \in Tails /\ ~tail'.fd /\ tail'.line = None
                        /\ tail'.base = tail.base /\ tail'.pos = tail.pos
         /\ Crash => /\ tail' \in Tails /\ ~tail'.fd /\ tail'.line = None
                     /\ tail'.base = 0 /\ tail'.pos = 0
<1>1. tail \in Tails /\ Len(file) \in Nat
  BY TypeParts, LastFacts
<1>2. ASSUME OpenFile
      PROVE  /\ tail' \in Tails /\ tail'.fd /\ tail'.line = None
             /\ tail'.base = Len(file) /\ tail'.pos = Len(file)
  <2>1. TailPosition \in 0..Len(file) /\ TailPosition = Len(file)
    BY <1>1 DEF TailPosition
  <2>2. (IF tail.first = Unopened THEN Len(file) ELSE tail.first) \in Unopened..Len(file)
    BY <1>1 DEF Tails, Unopened
  <2>. QED BY <1>1, <1>2, <2>1, <2>2 DEF OpenFile, Tails
<1>3. ASSUME ReadFails
      PROVE  /\ tail' \in Tails /\ ~tail'.fd /\ tail'.line = None
             /\ tail'.base = tail.base /\ tail'.pos = tail.pos
  BY <1>1, <1>3 DEF ReadFails, Tails
<1>4. ASSUME EmitFile
      PROVE  /\ tail' \in Tails /\ ~tail'.fd /\ tail'.line = None
             /\ tail'.base = tail.base /\ tail'.pos = tail.pos
  BY <1>1, <1>4 DEF EmitFile, Tails
<1>5. ASSUME Crash
      PROVE  /\ tail' \in Tails /\ ~tail'.fd /\ tail'.line = None
             /\ tail'.base = 0 /\ tail'.pos = 0
  BY <1>1, <1>5 DEF Crash, Tails, NoFile, Unopened
<1>. QED BY <1>2, <1>3, <1>4, <1>5

(* Appending to the audit file.                                            *)
LEMMA AppendFacts ==
  ASSUME TypeOK, NEW p \in Pieces, AppendPiece(p)
  PROVE  /\ Len(file') = Len(file) + 1 /\ file'[Len(file) + 1] = p
         /\ \A i \in 1..Len(file) : file'[i] = file[i]
         /\ file' \in Seq(Pieces) /\ tail \in Tails /\ tail' \in Tails'
         /\ UNCHANGED <<exists, socketed, starts, up, failed, tail, conns, records, stdout>>
<1> DEFINE S == Pieces
<1>1. file \in Seq(S) /\ p \in S /\ file' = Append(file, p)
  BY TypeParts DEF AppendPiece
<1> HIDE DEF S
<1>2. /\ Len(file') = Len(file) + 1 /\ file'[Len(file) + 1] = p
      /\ \A i \in 1..Len(file) : file'[i] = file[i]
      /\ file' \in Seq(S) /\ Len(file) \in Nat
  BY <1>1
<1>3. UNCHANGED <<exists, socketed, starts, up, failed, tail, conns, records, stdout>>
  BY DEF AppendPiece
<1>4. tail \in Tails
  BY TypeParts
<1>5. /\ Unopened..Len(file) \subseteq Unopened..Len(file') /\ 0..Len(file) \subseteq 0..Len(file')
  BY <1>2 DEF Unopened
<1>6. tail' \in Tails'
  BY <1>3, <1>4, <1>5 DEF Tails
<1>. QED BY <1>2, <1>3, <1>4, <1>6 DEF S

(* The piece that the file device appends.                                 *)
LEMMA AppendEffect ==
  ASSUME TypeOK, AppendWhole \/ AppendHead \/ AppendRest
  PROVE  \E p \in Pieces :
           /\ AppendPiece(p)
           /\ \/ ~Unfinished /\ p.rec = LastRecord + 1 /\ p.part \in {"whole", "head"}
              \/ Unfinished /\ p.rec = LastRecord /\ p.part = "rest"
<1>0. file # <<>> => Len(file) \in 1..Len(file)
  BY LastFacts
<1>1. LastRecord \in Nat /\ (Unfinished => LastRecord \in Records)
  BY <1>0, LastFacts, Consts
<1>2. CASE AppendWhole
  <2>1. LastRecord + 1 \in Records
    BY <1>1, <1>2, Consts DEF AppendWhole, Records
  <2>2. Piece(LastRecord + 1, "whole") \in Pieces
    BY <2>1 DEF Piece, Pieces
  <2>. QED BY <1>2, <2>2 DEF AppendWhole, Piece
<1>3. CASE AppendHead
  <2>1. LastRecord + 1 \in Records
    BY <1>3, Consts DEF AppendHead
  <2>2. Piece(LastRecord + 1, "head") \in Pieces
    BY <2>1 DEF Piece, Pieces
  <2>. QED BY <1>3, <2>2 DEF AppendHead, Piece
<1>4. CASE AppendRest
  <2>1. Piece(LastRecord, "rest") \in Pieces
    BY <1>1, <1>4 DEF AppendRest, Piece, Pieces
  <2>. QED BY <1>4, <2>1 DEF AppendRest, Piece
<1>. QED BY <1>2, <1>3, <1>4

LEMMA TailsFrame ==
  ASSUME TypeOK, file' = file PROVE Tails' = Tails
BY DEF Tails

(* A connection that gets, scans or passes on a record.                    *)
LEMMA ConnFacts ==
  ASSUME TypeOK
  PROVE  /\ \A c \in DOMAIN conns : /\ conns[c] \in Conns /\ conns[c].buf \in Seq(Records)
                                    /\ conns[c].line \in Records \cup {None}
         /\ DOMAIN conns = 1..Len(conns) /\ Len(conns) \in Nat
<1> DEFINE S == Conns
<1>1. conns \in Seq(S)
  BY TypeParts
<1> HIDE DEF S
<1>2. DOMAIN conns = 1..Len(conns) /\ Len(conns) \in Nat /\ \A c \in DOMAIN conns : conns[c] \in S
  BY <1>1
<1>. QED BY <1>2 DEF S, Conns

LEMMA ConnUpdate ==
  ASSUME TypeOK, NEW c \in DOMAIN conns, NEW x \in Conns
  PROVE  [conns EXCEPT ![c] = x] \in Seq(Conns) /\ Len([conns EXCEPT ![c] = x]) = Len(conns)
<1> DEFINE S == Conns
<1>1. conns \in Seq(S) /\ x \in S
  BY TypeParts
<1> HIDE DEF S
<1>. QED BY <1>1 DEF S

LEMMA ConnAppend ==
  ASSUME TypeOK, NEW x \in Conns
  PROVE  Append(conns, x) \in Seq(Conns) /\ Len(Append(conns, x)) = Len(conns) + 1
<1> DEFINE S == Conns
<1>1. conns \in Seq(S) /\ x \in S
  BY TypeParts
<1> HIDE DEF S
<1>. QED BY <1>1 DEF S

LEMMA SendSocketType ==
  ASSUME TypeOK, SendSocket
  PROVE  conns' \in Seq(Conns) /\ Len(conns') <= MaxConns /\ socketed' \in 0..MaxRecord /\ socketed' \in Records
<1>1. socketed' \in 0..MaxRecord /\ socketed' \in Records
  BY TypeParts, Consts DEF SendSocket, Records
<1>2. Len(conns) <= MaxConns /\ conns \in Seq(Conns) /\ MaxConns \in Nat
  BY TypeParts, RelayAssumption
<1>3. CASE conns # <<>> /\ conns' = [conns EXCEPT ![Len(conns)].buf = Append(@, socketed')]
  <2>1. Len(conns) \in DOMAIN conns
    BY <1>3, <1>2, ConnFacts
  <2> DEFINE c == Len(conns)
  <2> DEFINE x == [open |-> conns[c].open, buf |-> Append(conns[c].buf, socketed'), line |-> conns[c].line]
  <2>2. x \in Conns
    BY <2>1, <1>1, ConnFacts DEF Conns
  <2>3. conns' = [conns EXCEPT ![c] = [conns[c] EXCEPT !.buf = Append(conns[c].buf, socketed')]]
    BY <1>3
  <2>4. [conns[c] EXCEPT !.buf = Append(conns[c].buf, socketed')] = x
    BY <2>1, ConnFacts DEF Conns
  <2>. QED BY <2>1, <2>2, <2>3, <2>4, <1>1, <1>2, ConnUpdate
<1>4. CASE Len(conns) < MaxConns
           /\ conns' = Append(conns, [open |-> TRUE, buf |-> <<socketed'>>, line |-> None])
  <2>1. <<socketed'>> \in Seq(Records)
    BY <1>1
  <2>2. [open |-> TRUE, buf |-> <<socketed'>>, line |-> None] \in Conns
    BY <2>1 DEF Conns
  <2>. QED BY <2>2, <1>4, <1>1, <1>2, ConnAppend, ConnFacts
<1>. QED BY <1>3, <1>4 DEF SendSocket

LEMMA ReadSocketType ==
  ASSUME TypeOK, NEW c \in DOMAIN conns, ReadSocket(c)
  PROVE  conns' \in Seq(Conns) /\ Len(conns') = Len(conns)
<1>1. conns[c].buf \in Seq(Records) /\ conns[c].buf # <<>> /\ conns[c] \in Conns
  BY ConnFacts DEF ReadSocket
<1>2. Head(conns[c].buf) \in Records /\ Tail(conns[c].buf) \in Seq(Records)
  BY <1>1
<1> DEFINE x == [open |-> FALSE, buf |-> <<>>, line |-> None]
<1> DEFINE y == [open |-> conns[c].open, buf |-> Tail(conns[c].buf), line |-> Head(conns[c].buf)]
<1>3. x \in Conns /\ y \in Conns
  BY <1>1, <1>2 DEF Conns
<1>4. \/ conns' = [conns EXCEPT ![c] = x]
      \/ conns' = [conns EXCEPT ![c].buf = Tail(@), ![c].line = Head(conns[c].buf)]
  BY DEF ReadSocket, ScanRecord
<1>5. [conns EXCEPT ![c].buf = Tail(@), ![c].line = Head(conns[c].buf)] = [conns EXCEPT ![c] = y]
  <2>1. [conns EXCEPT ![c].buf = Tail(@), ![c].line = Head(conns[c].buf)]
          = [conns EXCEPT ![c] = [conns[c] EXCEPT !.buf = Tail(conns[c].buf), !.line = Head(conns[c].buf)]]
    OBVIOUS
  <2>2. ASSUME NEW z, z = [conns[c] EXCEPT !.buf = Tail(conns[c].buf), !.line = Head(conns[c].buf)]
        PROVE  z = y
    BY <2>2, <1>1 DEF Conns
  <2>3. [conns[c] EXCEPT !.buf = Tail(conns[c].buf), !.line = Head(conns[c].buf)] = y
    BY <2>2
  <2>. QED BY <2>1, <2>3
<1> HIDE DEF x, y
<1>. QED BY <1>3, <1>4, <1>5, ConnUpdate

LEMMA EmitSocketType ==
  ASSUME TypeOK, NEW c \in DOMAIN conns, EmitSocket(c)
  PROVE  /\ conns' \in Seq(Conns) /\ Len(conns') = Len(conns)
         /\ records' = Append(records, Item("socket", conns[c].line)) /\ Len(records) < Capacity
         /\ Item("socket", conns[c].line) \in Lines /\ Item("socket", conns[c].line).src = "socket"
<1> DEFINE x == [open |-> conns[c].open, buf |-> conns[c].buf, line |-> None]
<1>1. conns[c] \in Conns /\ x \in Conns
  BY ConnFacts DEF Conns
<1>2. conns' = [conns EXCEPT ![c] = [conns[c] EXCEPT !.line = None]]
  BY DEF EmitSocket
<1>3. [conns[c] EXCEPT !.line = None] = x
  BY <1>1 DEF Conns
<1>4. Item("socket", conns[c].line) \in Lines /\ Item("socket", conns[c].line).src = "socket"
  BY ConnFacts DEF EmitSocket, Item, Lines
<1> HIDE DEF x
<1>5. conns' = [conns EXCEPT ![c] = x]
  BY <1>2, <1>3
<1>6. conns' \in Seq(Conns) /\ Len(conns') = Len(conns)
  BY <1>1, <1>5, ConnUpdate
<1>7. records' = Append(records, Item("socket", conns[c].line)) /\ Len(records) < Capacity
  BY DEF EmitSocket, EmitTo
<1>. QED BY <1>4, <1>6, <1>7

LEMMA ChannelType ==
  ASSUME TypeOK, NEW x \in Lines, Len(records) < Capacity, records' = Append(records, x)
  PROVE  records' \in Seq(Lines) /\ Len(records') <= Capacity
<1> DEFINE S == Lines
<1>1. records \in Seq(S) /\ x \in S
  BY TypeParts
<1> HIDE DEF S
<1>. QED BY <1>1, Consts DEF S

LEMMA WriteType ==
  ASSUME TypeOK, WriteRecord
  PROVE  /\ records' \in Seq(Lines) /\ Len(records') <= Capacity /\ stdout' \in Seq(Lines)
<1> DEFINE S == Lines
<1>1. records \in Seq(S) /\ stdout \in Seq(S) /\ records # <<>> /\ Len(records) <= Capacity
  BY TypeParts DEF WriteRecord
<1> HIDE DEF S
<1>. QED BY <1>1, Consts DEF S, WriteRecord

LEMMA EmitFileEffect ==
  ASSUME TypeOK, EmitFile
  PROVE  /\ records' = Append(records, Item("file", tail.line)) /\ Len(records) < Capacity
         /\ Item("file", tail.line) \in Lines /\ tail.line \in Records
         /\ UNCHANGED <<vaultVars, starts, up, failed, conns, stdout>>
<1>1. tail.line \in Records
  BY TypeParts DEF EmitFile, Tails
<1>. QED BY <1>1 DEF EmitFile, EmitTo, Item, Lines

LEMMA InitType == Init => TypeOK
<1> SUFFICES ASSUME Init PROVE TypeOK
  OBVIOUS
<1>1. Len(file) = 0 /\ file \in Seq(Pieces) /\ tail \in Tails
  BY DEF Init, NoFile, Tails, Unopened
<1>2. conns \in Seq(Conns) /\ Len(conns) <= MaxConns
  BY RelayAssumption DEF Init
<1>3. records \in Seq(Lines) /\ Len(records) <= Capacity /\ stdout \in Seq(Lines)
  BY Consts DEF Init
<1>4. socketed \in 0..MaxRecord /\ starts \in 0..MaxStarts
  BY RelayAssumption DEF Init
<1>. QED BY <1>1, <1>2, <1>3, <1>4, TypeParts DEF Init

LEMMA TypeStep == TypeOK /\ [Next]_vars => TypeOK'
<1> SUFFICES ASSUME TypeOK, [Next]_vars PROVE TypeOK'
  OBVIOUS
<1> DEFINE P == /\ exists' \in BOOLEAN /\ up' \in BOOLEAN /\ failed' \in BOOLEAN
                /\ file' \in Seq(Pieces) /\ tail' \in Tails'
                /\ socketed' \in 0..MaxRecord /\ starts' \in 0..MaxStarts
                /\ conns' \in Seq(Conns) /\ Len(conns') <= MaxConns
                /\ records' \in Seq(Lines) /\ Len(records') <= Capacity
                /\ stdout' \in Seq(Lines)
<1>1. P => TypeOK'
  BY DEF TypeOK, Pieces, Tails, Conns, Lines
<1>2. SUFFICES P
  BY <1>1
<1> HIDE DEF P
<1>3. CASE AppendWhole \/ AppendHead \/ AppendRest
  <2>1. PICK p \in Pieces : AppendPiece(p)
    BY <1>3, AppendEffect
  <2>. QED BY <2>1, AppendFacts, TypeParts DEF P
<1>4. CASE CreateFile
  BY <1>4, TypeParts, TailsFrame DEF CreateFile, P
<1>5. CASE SendSocket
  <2>1. UNCHANGED <<exists, file, starts, up, failed, tail, records, stdout>>
    BY <1>5 DEF SendSocket
  <2>. QED BY <1>5, <2>1, SendSocketType, TypeParts, TailsFrame DEF P
<1>6. CASE SendFails
  <2>1. socketed' \in 0..MaxRecord
    BY <1>6, TypeParts, Consts DEF SendFails
  <2>. QED BY <1>6, <2>1, TypeParts, TailsFrame DEF SendFails, P
<1>7. CASE Start
  <2>1. starts' \in 0..MaxStarts
    BY <1>7, TypeParts, RelayAssumption DEF Start
  <2>. QED BY <1>7, <2>1, TypeParts, TailsFrame DEF Start, vaultVars, P
<1>8. CASE Crash
  <2>1. records' \in Seq(Lines) /\ Len(records') <= Capacity /\ conns' \in Seq(Conns) /\ Len(conns') <= MaxConns
    BY <1>8, Consts, RelayAssumption DEF Crash
  <2>. QED BY <1>8, <2>1, TailEffect, TypeParts, TailsFrame DEF Crash, vaultVars, P
<1>9. CASE OpenFile
  <2>1. UNCHANGED <<vaultVars, starts, up, failed, conns, records, stdout>>
    BY <1>9 DEF OpenFile
  <2>. QED BY <1>9, <2>1, TailEffect, TypeParts, TailsFrame DEF vaultVars, P
<1>10. CASE ReadLine
  <2>1. UNCHANGED <<vaultVars, starts, up, failed, conns, records, stdout>>
    BY <1>10 DEF ReadLine
  <2>. QED BY <1>10, <2>1, ReadLineEffect, TypeParts, TailsFrame DEF vaultVars, P
<1>11. CASE PollEOF
  BY <1>11, TypeParts, TailsFrame DEF PollEOF, AtEOF, vaultVars, P
<1>12. CASE ReadFails
  <2>1. UNCHANGED <<vaultVars, starts, up, conns, records, stdout>> /\ failed' = TRUE
    BY <1>12 DEF ReadFails
  <2>. QED BY <1>12, <2>1, TailEffect, TypeParts, TailsFrame DEF vaultVars, P
<1>13. CASE EmitFile
  <2>1. records' \in Seq(Lines) /\ Len(records') <= Capacity
    BY <1>13, EmitFileEffect, ChannelType
  <2>. QED BY <1>13, <2>1, EmitFileEffect, TailEffect, TypeParts, TailsFrame DEF vaultVars, P
<1>14. CASE WriteRecord
  <2>1. UNCHANGED <<vaultVars, starts, up, failed, tail, conns>>
    BY <1>14 DEF WriteRecord
  <2>. QED BY <1>14, <2>1, WriteType, TypeParts, TailsFrame DEF vaultVars, P
<1>15. ASSUME NEW c \in DOMAIN conns, ReadSocket(c) PROVE P
  <2>1. UNCHANGED <<vaultVars, starts, up, failed, tail, records, stdout>>
    BY <1>15 DEF ReadSocket
  <2>2. conns' \in Seq(Conns) /\ Len(conns') = Len(conns)
    BY <1>15, ReadSocketType
  <2>. QED BY <2>1, <2>2, TypeParts, TailsFrame DEF vaultVars, P
<1>16. ASSUME NEW c \in DOMAIN conns, EmitSocket(c) PROVE P
  <2>1. UNCHANGED <<vaultVars, starts, up, failed, tail, stdout>>
    BY <1>16 DEF EmitSocket
  <2>2. conns' \in Seq(Conns) /\ Len(conns') = Len(conns) /\ records' \in Seq(Lines) /\ Len(records') <= Capacity
    BY <1>16, EmitSocketType, ChannelType
  <2>. QED BY <2>1, <2>2, TypeParts, TailsFrame DEF vaultVars, P
<1>17. CASE UNCHANGED vars
  BY <1>17, TypeParts, TailsFrame DEF vars, vaultVars, P
<1>. QED BY <1>3, <1>4, <1>5, <1>6, <1>7, <1>8, <1>9, <1>10, <1>11, <1>12, <1>13, <1>14, <1>15, <1>16, <1>17
         DEF Next, VaultNext, Relay

(* TypeCorrect: the type invariant; the channel never holds more than its  *)
(* capacity (main.go's buffered channel) and the follower never reads      *)
(* behind the end of the audit file.                                       *)
THEOREM TypeCorrect == Spec => []TypeOK
BY InitType, TypeStep, PTL DEF Spec

-----------------------------------------------------------------------------
(* The audit file.                                                         *)

(* Every appended piece keeps the order, and ends no done record anew.     *)
LEMMA AppendKeeps ==
  ASSUME TypeOK, FileInv, AppendWhole \/ AppendHead \/ AppendRest
  PROVE  /\ FileInv'
         /\ \A r : Done(r) => Done(r)'
         /\ Len(file') = Len(file) + 1 /\ \A i \in 1..Len(file) : file'[i] = file[i]
         /\ UNCHANGED <<tail, records, stdout>>
<1>1. PICK p \in Pieces :
        /\ AppendPiece(p)
        /\ \/ ~Unfinished /\ p.rec = LastRecord + 1 /\ p.part \in {"whole", "head"}
           \/ Unfinished /\ p.rec = LastRecord /\ p.part = "rest"
  BY AppendEffect
<1> DEFINE n == Len(file)
<1>2. /\ Len(file') = n + 1 /\ file'[n + 1] = p /\ \A i \in 1..n : file'[i] = file[i]
      /\ UNCHANGED <<tail, records, stdout>> /\ file' # <<>>
  BY <1>1, AppendFacts, LastFacts
<1>3. /\ n \in Nat /\ \A i \in 1..n : file[i] \in Pieces /\ file[i].rec \in Nat
      /\ n # 0 => LastRecord = file[n].rec /\ (Unfinished <=> file[n].part = "head")
      /\ n = 0 => LastRecord = 0 /\ ~Unfinished
  BY LastFacts, Consts
<1>4. /\ p.rec \in Nat /\ LastRecord \in Nat
  <2>1. n # 0 => n \in 1..n
    BY <1>3
  <2>. QED BY <2>1, <1>3, Consts DEF Pieces
<1> HIDE DEF n
<1>5. \A i, j \in 1..n : i < j =>
        \/ file[i].rec < file[j].rec
        \/ /\ file[i].rec = file[j].rec /\ j = i + 1
           /\ file[i].part = "head" /\ file[j].part = "rest"
  BY DEF FileInv, n
<1>6. \A i \in 1..n : i + 1 \in 1..n /\ file[i].part = "head" =>
        file[i + 1].rec = file[i].rec /\ file[i + 1].part = "rest"
  BY DEF FileInv, n
<1>7. \A i \in 1..n : \/ file[i].rec < p.rec
                      \/ /\ file[i].rec = p.rec /\ i = n
                         /\ file[n].part = "head" /\ p.part = "rest"
  BY <1>1, <1>3, <1>4, <1>5
<1>8. \A i, j \in 1..(n + 1) : i < j =>
        \/ file'[i].rec < file'[j].rec
        \/ /\ file'[i].rec = file'[j].rec /\ j = i + 1
           /\ file'[i].part = "head" /\ file'[j].part = "rest"
  BY <1>2, <1>3, <1>5, <1>7
<1>9. \A i \in 1..(n + 1) : i + 1 \in 1..(n + 1) /\ file'[i].part = "head" =>
        file'[i + 1].rec = file'[i].rec /\ file'[i + 1].part = "rest"
  BY <1>1, <1>2, <1>3, <1>6
<1>10. FileInv'
  BY <1>2, <1>8, <1>9 DEF FileInv
<1>11. ASSUME NEW r, Done(r) PROVE Done(r)'
  <2>1. /\ r \in Nat /\ n # 0 /\ r \in Records
        /\ r <= file[n].rec /\ (file[n].part = "head" => r < file[n].rec)
        /\ tail.fd => \A i \in (tail.pos + 1)..n : r < file[i].rec
    BY <1>11, <1>3, LastFacts, Consts DEF Done, n
  <2>2. r < p.rec
    BY <2>1, <1>1, <1>3
  <2>3. tail.pos \in Nat
    BY TypeParts, LastFacts DEF Tails
  <2>4. tail'.fd => \A i \in (tail'.pos + 1)..(n + 1) : r < file'[i].rec
    BY <1>2, <1>3, <2>1, <2>2, <2>3
  <2>. QED BY <1>2, <2>1, <2>2, <2>4, <1>4 DEF Done
<1>. QED BY <1>2, <1>10, <1>11 DEF n

-----------------------------------------------------------------------------
(* The way of a record to stdout.                                          *)

(* The order by indices alone.                                             *)
LEMMA OrderFacts ==
  ASSUME TypeOK
  PROVE  FileOrder <=>
           \A j \in 1..Len(Emitted) : Emitted[j].src = "file" =>
             /\ \A i \in 1..(j - 1) : Emitted[i].src = "file" => Emitted[i].rec < Emitted[j].rec
             /\ tail.line # None => Emitted[j].rec < tail.line
BY EmittedFacts DEF FileOrder

(* The same after a step.                                                  *)
LEMMA OrderNext ==
  ASSUME TypeOK'
  PROVE  /\ Len(Emitted') \in Nat
         /\ FileOrder' <=>
              \A j \in 1..Len(Emitted') : Emitted'[j].src = "file" =>
                /\ \A i \in 1..(j - 1) : Emitted'[i].src = "file" => Emitted'[i].rec < Emitted'[j].rec
                /\ tail'.line # None => Emitted'[j].rec < tail'.line
<1> DEFINE S == [src : {"file", "socket"}, rec : Records]
<1>1. stdout' \in Seq(S) /\ records' \in Seq(S)
  BY DEF TypeOK
<1> HIDE DEF S
<1>2. Emitted' \in Seq(S)
  BY <1>1 DEF Emitted
<1>3. Len(Emitted') \in Nat /\ DOMAIN Emitted' = 1..Len(Emitted')
  BY <1>2
<1>. QED BY <1>3 DEF FileOrder

(* A step that leaves the file alone and moves no record: what was on its  *)
(* way stays in place.                                                     *)
LEMMA FlowFrame ==
  ASSUME TypeOK, TypeOK', CoreInv, file' = file, tail'.line = tail.line,
         tail'.base = tail.base, tail'.pos = tail.pos,
         tail'.fd => tail.fd,
         Len(Emitted') = Len(Emitted), \A i \in 1..Len(Emitted) : Emitted'[i] = Emitted[i]
  PROVE  CoreInv'
<1>1. FileInv'
  BY DEF CoreInv, FileInv
<1>2. \A r : Done(r) => Done(r)'
  BY DEF Done
<1>3. PathInv'
  BY <1>2 DEF CoreInv, PathInv
<1>4. FileOrder'
  <2>1. \A j \in 1..Len(Emitted) : Emitted[j].src = "file" =>
             /\ \A i \in 1..(j - 1) : Emitted[i].src = "file" => Emitted[i].rec < Emitted[j].rec
             /\ tail.line # None => Emitted[j].rec < tail.line
    BY OrderFacts DEF CoreInv
  <2>2. \A j \in 1..Len(Emitted') : Emitted'[j].src = "file" =>
             /\ \A i \in 1..(j - 1) : Emitted'[i].src = "file" => Emitted'[i].rec < Emitted'[j].rec
             /\ tail'.line # None => Emitted'[j].rec < tail'.line
    BY <2>1, EmittedFacts
  <2>. QED BY <2>2, OrderNext
<1>5. ReadIsForwarded'
  <2>1. \A r : OnFilePath(r) => OnFilePath(r)'
    BY EmittedFacts DEF OnFilePath
  <2>. QED BY <2>1 DEF CoreInv, ReadIsForwarded
<1>. QED BY <1>1, <1>3, <1>4, <1>5 DEF CoreInv

(* followFile's steps that leave no record waiting: another reading        *)
(* position, or none.  What was done stays done, and what is behind the    *)
(* new position was forwarded when it was behind the old one.              *)
LEMMA FlowIdle ==
  ASSUME TypeOK, TypeOK', CoreInv, file' = file, tail'.line = None,
         Len(Emitted') = Len(Emitted), \A i \in 1..Len(Emitted) : Emitted'[i] = Emitted[i],
         tail'.fd => tail'.pos = Len(file) \/ (tail.fd /\ tail.pos <= tail'.pos),
         \A i \in (tail'.base + 1)..tail'.pos :
           file[i].part = "whole" /\ file[i].rec \notin Oversized =>
             i \in (tail.base + 1)..tail.pos,
         tail'.pos # tail'.base => tail.line = None
  PROVE  CoreInv'
<1>0. /\ tail.pos \in Nat /\ tail'.pos \in Nat /\ Len(file) \in Nat
      /\ tail.base \in Nat /\ tail'.base \in Nat /\ tail.pos <= Len(file)
  BY LastFacts DEF TypeOK
<1>1. FileInv'
  BY DEF CoreInv, FileInv
<1>2. \A r : Done(r) => Done(r)'
  BY <1>0 DEF Done
<1>3. PathInv'
  BY <1>2 DEF CoreInv, PathInv
<1>4. FileOrder'
  <2>1. \A j \in 1..Len(Emitted) : Emitted[j].src = "file" =>
             \A i \in 1..(j - 1) : Emitted[i].src = "file" => Emitted[i].rec < Emitted[j].rec
    BY OrderFacts DEF CoreInv
  <2>2. \A j \in 1..Len(Emitted') : Emitted'[j].src = "file" =>
             \A i \in 1..(j - 1) : Emitted'[i].src = "file" => Emitted'[i].rec < Emitted'[j].rec
    BY <2>1, EmittedFacts
  <2>. QED BY <2>2, OrderNext
<1>5. ReadIsForwarded'
  <2>1. SUFFICES ASSUME NEW i \in (tail'.base + 1)..tail'.pos,
                        file[i].part = "whole", file[i].rec \notin Oversized
                 PROVE  OnFilePath(file[i].rec)'
    BY DEF ReadIsForwarded
  <2>2. i \in (tail.base + 1)..tail.pos /\ tail.line = None /\ i \in 1..Len(file)
    BY <1>0, <2>1
  <2>3. OnFilePath(file[i].rec)
    BY <2>1, <2>2 DEF CoreInv, ReadIsForwarded
  <2>4. file[i].rec # None
    BY <2>2, LastFacts, Consts
  <2>. QED BY <2>2, <2>3, <2>4, EmittedFacts DEF OnFilePath
<1>. QED BY <1>1, <1>3, <1>4, <1>5 DEF CoreInv

(* followFile reads a record that emitRecord is to send: its pieces are    *)
(* behind the reading position and all that was sent before is older.      *)
LEMMA FlowRead ==
  ASSUME TypeOK, TypeOK', CoreInv, ReadLine, tail'.line = LineRecord, LineRecord # None
  PROVE  CoreInv'
<1> DEFINE p == tail.pos
<1> DEFINE n == Len(file)
<1>0. /\ p \in Nat /\ n \in Nat /\ p + 1 \in 1..n /\ tail'.pos \in Nat /\ tail'.pos <= n
      /\ tail.fd /\ tail.line = None /\ file' = file /\ stdout' = stdout /\ records' = records
      /\ tail'.base = tail.base /\ tail.base \in Nat /\ tail'.pos = LineEnd
  BY LastFacts, ReadLineEffect DEF TypeOK, ReadLine, vaultVars
<1>1. LineRecord = file[p + 1].rec /\ LineRecord \in Records /\ LineRecord \in Nat
  BY <1>0, ReadLineEffect, Consts DEF LineRecord, NextPiece
<1>2. \/ file[p + 1].part = "whole" /\ tail'.pos = p + 1
      \/ file[p + 1].part = "head" /\ tail'.pos = p + 2 /\ p + 2 <= n
  BY <1>0, ReadLineEffect DEF LineRecord, LineEnd, NextPiece, Completed, Pieces
<1> HIDE DEF p, n
<1>3. \A i, j \in 1..n : i < j =>
        \/ file[i].rec < file[j].rec
        \/ file[i].rec = file[j].rec /\ j = i + 1 /\ file[i].part = "head" /\ file[j].part = "rest"
  BY DEF CoreInv, FileInv, n
<1>4. \A i \in 1..n : i + 1 \in 1..n /\ file[i].part = "head" =>
        file[i + 1].rec = file[i].rec /\ file[i + 1].part = "rest"
  BY DEF CoreInv, FileInv, n
<1>5. \A i \in 1..n : file[i].rec \in Nat
  BY LastFacts, Consts DEF n
<1>6. \A i \in (tail'.pos + 1)..n : file[p + 1].rec < file[i].rec
  BY <1>0, <1>2, <1>3
<1>7. file[p + 1].rec <= file[n].rec /\ (file[n].part = "head" => file[p + 1].rec < file[n].rec)
  <2>1. CASE n >= tail'.pos + 1
    BY <2>1, <1>0, <1>5, <1>6
  <2>2. CASE n = tail'.pos /\ file[p + 1].part = "whole"
    BY <2>2, <1>0, <1>2, <1>5
  <2>3. CASE n = tail'.pos /\ file[p + 1].part = "head"
    <3>1. n = p + 2 /\ file[p + 2].rec = file[p + 1].rec /\ file[p + 2].part = "rest"
      BY <2>3, <1>0, <1>2, <1>4
    <3>. QED BY <3>1, <1>0, <1>5
  <2>. QED BY <2>1, <2>2, <2>3, <1>0, <1>2
<1>8. ASSUME NEW r, r = LineRecord PROVE Done(r)'
  BY <1>8, <1>0, <1>1, <1>6, <1>7, LastFacts DEF Done, n, p
<1>9. \A r : Done(r) => Done(r)' /\ r < tail'.line
  <2>1. SUFFICES ASSUME NEW r, Done(r) PROVE Done(r)' /\ r < tail'.line
    OBVIOUS
  <2>2. \A i \in (p + 1)..n : r < file[i].rec
    BY <2>1, <1>0 DEF Done, p, n
  <2>3. r < file[p + 1].rec
    BY <2>2, <1>0
  <2>4. \A i \in (tail'.pos + 1)..n : r < file[i].rec
    BY <2>2, <1>0, <1>2
  <2>. QED BY <2>1, <2>3, <2>4, <1>0, <1>1 DEF Done, n
<1>10. Emitted' = Emitted
  BY <1>0 DEF Emitted
<1>11. PathInv'
  <2>1. \A i \in 1..Len(Emitted') : Emitted'[i].src = "file" => Done(Emitted[i].rec)
    BY <1>10 DEF CoreInv, PathInv
  <2>. QED BY <2>1, <1>8, <1>9, <1>10 DEF PathInv
<1>12. FileOrder'
  <2>1. \A j \in 1..Len(Emitted) : Emitted[j].src = "file" =>
             \A i \in 1..(j - 1) : Emitted[i].src = "file" => Emitted[i].rec < Emitted[j].rec
    BY OrderFacts DEF CoreInv
  <2>2. \A j \in 1..Len(Emitted) : Emitted[j].src = "file" => Emitted[j].rec < tail'.line
    BY <1>9 DEF CoreInv, PathInv
  <2>. QED BY <2>1, <2>2, <1>10, OrderNext
<1>13. FileInv'
  BY <1>0 DEF CoreInv, FileInv
<1>14. ReadIsForwarded'
  <2>1. SUFFICES ASSUME NEW i \in (tail.base + 1)..tail'.pos,
                        file[i].part = "whole", file[i].rec \notin Oversized
                 PROVE  OnFilePath(file[i].rec)'
    BY <1>0 DEF ReadIsForwarded
  <2>2. CASE i <= p
    <3>1. OnFilePath(file[i].rec) /\ i \in 1..n
      BY <2>1, <2>2, <1>0 DEF CoreInv, ReadIsForwarded, p, n
    <3>2. file[i].rec # None
      BY <3>1, LastFacts, Consts DEF n
    <3>. QED BY <3>1, <3>2, <1>0, <1>10 DEF OnFilePath
  <2>3. CASE i = p + 1
    BY <2>3, <1>0, <1>1 DEF OnFilePath
  <2>4. CASE i = p + 2
    BY <2>1, <2>4, <1>0, <1>2, <1>4
  <2>. QED BY <2>1, <2>2, <2>3, <2>4, <1>0, <1>2
<1>. QED BY <1>11, <1>12, <1>13, <1>14 DEF CoreInv

(* emitRecord: the item enters the channel behind all that was sent.       *)
LEMMA FlowEmit ==
  ASSUME TypeOK, TypeOK', CoreInv, NEW x \in Lines, file' = file,
         records' = Append(records, x), stdout' = stdout,
         tail'.base = tail.base, tail'.pos = tail.pos, tail'.fd => tail.fd,
         \/ x.src = "socket" /\ tail'.line = tail.line
         \/ x = Item("file", tail.line) /\ tail.line # None /\ tail'.line = None
  PROVE  CoreInv'
<1> DEFINE m == Len(Emitted)
<1>1. /\ Len(Emitted') = m + 1 /\ Emitted'[m + 1] = x /\ m \in Nat
      /\ \A i \in 1..m : Emitted'[i] = Emitted[i]
  BY EmittedGrows, EmittedFacts
<1> HIDE DEF m
<1>2. \A r : Done(r) => Done(r)'
  BY DEF Done
<1>3. x.src = "file" => x.rec = tail.line /\ tail.line # None /\ tail'.line = None
  BY DEF Item
<1>4. PathInv'
  <2>1. \A i \in 1..m : Emitted[i].src = "file" => Done(Emitted[i].rec)
    BY DEF CoreInv, PathInv, m
  <2>2. tail.line # None => Done(tail.line)
    BY DEF CoreInv, PathInv
  <2>3. \A i \in 1..(m + 1) : Emitted'[i].src = "file" => Done(Emitted'[i].rec)
    BY <2>1, <2>2, <1>1, <1>3
  <2>4. tail'.line # None => Done(tail'.line)
    BY <2>2
  <2>. QED BY <2>3, <2>4, <1>1, <1>2 DEF PathInv
<1>5. FileOrder'
  <2>1. \A j \in 1..m : Emitted[j].src = "file" =>
             /\ \A i \in 1..(j - 1) : Emitted[i].src = "file" => Emitted[i].rec < Emitted[j].rec
             /\ tail.line # None => Emitted[j].rec < tail.line
    BY OrderFacts DEF CoreInv, m
  <2>2. \A j \in 1..m : Emitted'[j].src = "file" =>
             \A i \in 1..(j - 1) : Emitted'[i].src = "file" => Emitted'[i].rec < Emitted'[j].rec
    BY <2>1, <1>1
  <2>3. Emitted'[m + 1].src = "file" =>
             \A i \in 1..m : Emitted'[i].src = "file" => Emitted'[i].rec < Emitted'[m + 1].rec
    BY <2>1, <1>1, <1>3
  <2>4. \A j \in 1..m : tail'.line # None /\ Emitted'[j].src = "file" => Emitted'[j].rec < tail'.line
    BY <2>1, <1>1
  <2>5. tail'.line # None => Emitted'[m + 1].src # "file"
    BY <1>1, <1>3
  <2>6. \A j \in 1..Len(Emitted') : Emitted'[j].src = "file" =>
             \A i \in 1..(j - 1) : Emitted'[i].src = "file" => Emitted'[i].rec < Emitted'[j].rec
    BY <2>2, <2>3, <1>1
  <2>7. \A j \in 1..Len(Emitted') : tail'.line # None /\ Emitted'[j].src = "file" => Emitted'[j].rec < tail'.line
    BY <2>4, <2>5, <1>1
  <2>. QED BY <2>6, <2>7, OrderNext
<1>6. FileInv'
  BY DEF CoreInv, FileInv
<1>7. \A r \in Records : OnFilePath(r) => OnFilePath(r)'
  <2>0. DOMAIN Emitted = 1..m /\ DOMAIN Emitted' = 1..(m + 1)
    BY <1>1, EmittedFacts, OrderNext DEF m
  <2>1. SUFFICES ASSUME NEW r \in Records, OnFilePath(r) PROVE OnFilePath(r)'
    OBVIOUS
  <2>2. CASE tail.line = r /\ tail'.line = tail.line
    BY <2>2 DEF OnFilePath
  <2>3. CASE tail.line = r /\ x = Item("file", tail.line)
    <3>1. m + 1 \in DOMAIN Emitted' /\ Emitted'[m + 1] = Item("file", r)
      BY <2>0, <2>3, <1>1
    <3>. QED BY <3>1 DEF OnFilePath
  <2>4. ASSUME NEW i \in 1..m, Emitted[i] = Item("file", r) PROVE OnFilePath(r)'
    <3>1. i \in DOMAIN Emitted' /\ Emitted'[i] = Item("file", r)
      BY <2>0, <2>4, <1>1
    <3>. QED BY <3>1 DEF OnFilePath
  <2>. QED BY <2>0, <2>1, <2>2, <2>3, <2>4 DEF OnFilePath
<1>8. ReadIsForwarded'
  <2>1. tail.pos <= Len(file) /\ tail.pos \in Nat /\ tail.base \in Nat /\ Len(file) \in Nat
    BY LastFacts DEF TypeOK
  <2>2. \A i \in (tail.base + 1)..tail.pos : file[i].rec \in Records
    BY <2>1, LastFacts
  <2>. QED BY <2>2, <1>7 DEF CoreInv, ReadIsForwarded
<1>. QED BY <1>4, <1>5, <1>6, <1>8 DEF CoreInv

(* A crash loses what was not yet on stdout, and forgets the position.     *)
LEMMA FlowCrash ==
  ASSUME TypeOK, TypeOK', CoreInv, Crash
  PROVE  CoreInv'
<1>1. /\ file' = file /\ ~tail'.fd /\ tail'.line = None /\ tail'.base = 0 /\ tail'.pos = 0
  BY TailEffect DEF Crash, vaultVars
<1>2. /\ Len(Emitted') \in 0..Len(Emitted) /\ Len(Emitted) \in Nat
      /\ \A i \in 1..Len(Emitted') : Emitted'[i] = Emitted[i]
  BY EmittedShrinks, EmittedFacts
<1>3. FileInv'
  BY <1>1 DEF CoreInv, FileInv
<1>4. PathInv'
  <2>1. \A r : Done(r) => Done(r)'
    BY <1>1 DEF Done
  <2>2. \A i \in 1..Len(Emitted') : i \in 1..Len(Emitted)
    BY <1>2
  <2>. QED BY <1>1, <1>2, <2>1, <2>2 DEF CoreInv, PathInv
<1>5. FileOrder'
  <2>1. \A j \in 1..Len(Emitted) : Emitted[j].src = "file" =>
             \A i \in 1..(j - 1) : Emitted[i].src = "file" => Emitted[i].rec < Emitted[j].rec
    BY OrderFacts DEF CoreInv
  <2>2. \A j \in 1..Len(Emitted') : Emitted'[j].src = "file" =>
             \A i \in 1..(j - 1) : Emitted'[i].src = "file" => Emitted'[i].rec < Emitted'[j].rec
    BY <2>1, <1>2
  <2>. QED BY <1>1, <2>2, OrderNext
<1>6. ReadIsForwarded'
  BY <1>1 DEF ReadIsForwarded
<1>. QED BY <1>3, <1>4, <1>5, <1>6 DEF CoreInv

-----------------------------------------------------------------------------
(* Every step.                                                             *)

LEMMA CoreInit == Init => CoreInv
<1> SUFFICES ASSUME Init PROVE CoreInv
  OBVIOUS
<1>1. TypeOK /\ file = <<>> /\ Emitted = <<>> /\ tail.line = None /\ tail.base = 0 /\ tail.pos = 0
  BY InitType DEF Init, Emitted, NoFile
<1>2. Len(file) = 0 /\ Len(Emitted) = 0 /\ DOMAIN Emitted = 1..0
  BY <1>1
<1>3. FileInv
  BY <1>2 DEF FileInv
<1>4. PathInv
  BY <1>1, <1>2 DEF PathInv
<1>5. FileOrder
  BY <1>2 DEF FileOrder
<1>6. ReadIsForwarded
  BY <1>1 DEF ReadIsForwarded
<1>. QED BY <1>3, <1>4, <1>5, <1>6 DEF CoreInv

(* ReadLine, whether a record comes of it or not.                          *)
LEMMA CoreReadLine ==
  ASSUME TypeOK, TypeOK', CoreInv, ReadLine
  PROVE  CoreInv'
<1>1. /\ tail.fd /\ tail.line = None /\ file' = file /\ stdout' = stdout /\ records' = records
      /\ Emitted' = Emitted
  BY DEF ReadLine, vaultVars, Emitted
<1>2. CASE tail'.line = LineRecord /\ LineRecord # None
  BY <1>2, FlowRead
<1>3. CASE \/ tail'.line = None /\ LineRecord = None
           \/ ~tail'.fd /\ tail'.line = tail.line /\ NextPiece.part = "rest"
  <2>1. /\ tail'.line = None /\ tail'.base = tail.base /\ tail'.pos = LineEnd
        /\ tail.pos \in Nat /\ Len(file) \in Nat /\ tail.pos + 1 \in 1..Len(file)
        /\ LineEnd \in (tail.pos + 1)..Len(file) /\ tail.base \in Nat
    BY <1>1, <1>3, ReadLineEffect, LastFacts DEF TypeOK
  <2>2. ~(file[tail.pos + 1].part = "whole" /\ file[tail.pos + 1].rec \notin Oversized)
    BY <1>3, <2>1, LastFacts, Consts DEF LineRecord, NextPiece
  <2>3. \/ LineEnd = tail.pos + 1
        \/ /\ LineEnd = tail.pos + 2 /\ tail.pos + 2 \in 1..Len(file)
           /\ file[tail.pos + 1].part = "head"
    BY <2>1 DEF LineEnd, NextPiece, Completed
  <2>4. tail.pos + 2 \in 1..Len(file) /\ file[tail.pos + 1].part = "head"
          => file[tail.pos + 2].part = "rest"
    <3>1. \A i \in 1..Len(file) : i + 1 \in 1..Len(file) /\ file[i].part = "head" =>
             file[i + 1].part = "rest"
      BY DEF CoreInv, FileInv
    <3>2. tail.pos + 2 = (tail.pos + 1) + 1
      BY <2>1
    <3>. QED BY <2>1, <3>1, <3>2
  <2>5. \A i \in (tail'.base + 1)..tail'.pos :
           file[i].part = "whole" /\ file[i].rec \notin Oversized =>
             i \in (tail.base + 1)..tail.pos
    <3>1. SUFFICES ASSUME NEW i \in (tail.base + 1)..LineEnd,
                          file[i].part = "whole", file[i].rec \notin Oversized
                   PROVE  i <= tail.pos
      BY <2>1
    <3>2. i # tail.pos + 1 /\ i # tail.pos + 2
      BY <3>1, <2>1, <2>2, <2>3, <2>4
    <3>. QED BY <3>1, <3>2, <2>1, <2>3
  <2>6. tail.pos <= tail'.pos
    BY <2>1
  <2>. QED BY <1>1, <2>1, <2>5, <2>6, FlowIdle
<1>. QED BY <1>2, <1>3, ReadLineEffect

LEMMA CoreStep == TypeOK /\ TypeOK' /\ CoreInv /\ [Next]_vars => CoreInv'
<1> SUFFICES ASSUME TypeOK, TypeOK', CoreInv, [Next]_vars PROVE CoreInv'
  OBVIOUS
<1>0. tail.pos \in Nat /\ tail.base \in Nat /\ Len(file) \in Nat /\ tail.pos <= Len(file)
  BY LastFacts DEF TypeOK
(* Steps that touch neither the file nor a record on its way.              *)
<1>1. CASE file' = file /\ tail' = tail /\ stdout' = stdout /\ records' = records
  BY <1>1, FlowFrame DEF Emitted
<1>2. CASE AppendWhole \/ AppendHead \/ AppendRest
  <2>1. CoreInv /\ FileInv
    BY DEF CoreInv
  <2>2. /\ FileInv' /\ \A r : Done(r) => Done(r)'
        /\ \A i \in 1..Len(file) : file'[i] = file[i]
        /\ tail' = tail /\ Emitted' = Emitted /\ stdout' = stdout /\ records' = records
    BY <1>2, <2>1, AppendKeeps DEF Emitted
  <2>3. PathInv'
    <3>1. \A i \in 1..Len(Emitted') : Emitted'[i].src = "file" => Done(Emitted[i].rec)
      BY <2>1, <2>2 DEF CoreInv, PathInv
    <3>2. tail'.line # None => Done(tail.line)
      BY <2>1, <2>2 DEF CoreInv, PathInv
    <3>. QED BY <3>1, <3>2, <2>2 DEF PathInv
  <2>4. FileOrder'
    BY <2>1, <2>2 DEF CoreInv, FileOrder
  <2>5. ReadIsForwarded'
    <3>1. \A i \in (tail.base + 1)..tail.pos : i \in 1..Len(file)
      BY <1>0
    <3>2. SUFFICES ASSUME NEW i \in (tail'.base + 1)..tail'.pos,
                          file'[i].part = "whole", file'[i].rec \notin Oversized
                   PROVE  OnFilePath(file[i].rec)'
      BY DEF ReadIsForwarded
    <3>3. i \in (tail.base + 1)..tail.pos /\ file'[i] = file[i]
      BY <2>2, <3>1, <3>2
    <3>4. OnFilePath(file[i].rec)
      BY <2>1, <3>2, <3>3 DEF CoreInv, ReadIsForwarded
    <3>. QED BY <2>2, <3>3, <3>4 DEF OnFilePath
  <2>. QED BY <2>2, <2>3, <2>4, <2>5 DEF CoreInv
<1>3. CASE Crash
  BY <1>3, FlowCrash
<1>4. CASE OpenFile
  <2>1. /\ file' = file /\ Emitted' = Emitted /\ tail'.line = None
        /\ tail'.base = Len(file) /\ tail'.pos = Len(file)
    BY <1>4, TailEffect DEF OpenFile, vaultVars, Emitted
  <2>. QED BY <1>0, <2>1, FlowIdle
<1>5. CASE ReadLine
  BY <1>5, CoreReadLine
<1>6. CASE ReadFails
  <2>1. /\ file' = file /\ Emitted' = Emitted /\ tail.line = None /\ tail'.line = None
        /\ ~tail'.fd /\ tail'.base = tail.base /\ tail'.pos = tail.pos
    BY <1>6, TailEffect DEF ReadFails, vaultVars, Emitted
  <2>. QED BY <1>0, <2>1, FlowIdle
<1>7. CASE EmitFile
  <2>1. /\ file' = file /\ stdout' = stdout /\ tail.line # None
        /\ records' = Append(records, Item("file", tail.line)) /\ Item("file", tail.line) \in Lines
        /\ ~tail'.fd /\ tail'.line = None /\ tail'.base = tail.base /\ tail'.pos = tail.pos
    BY <1>7, EmitFileEffect, TailEffect DEF EmitFile, vaultVars
  <2>. QED BY <2>1, FlowEmit
<1>8. CASE WriteRecord
  <2>1. file' = file /\ tail' = tail
    BY <1>8 DEF WriteRecord, vaultVars
  <2>. QED BY <1>8, <2>1, EmittedMoves, FlowFrame
<1>9. ASSUME NEW c \in DOMAIN conns, EmitSocket(c) PROVE CoreInv'
  <2>1. /\ file' = file /\ stdout' = stdout /\ tail' = tail
        /\ records' = Append(records, Item("socket", conns[c].line))
        /\ Item("socket", conns[c].line) \in Lines /\ Item("socket", conns[c].line).src = "socket"
    BY <1>9, EmitSocketType DEF EmitSocket, vaultVars
  <2>. QED BY <2>1, FlowEmit
<1>10. CASE CreateFile \/ SendSocket \/ SendFails \/ Start \/ PollEOF \/ UNCHANGED vars
            \/ \E c \in DOMAIN conns : ReadSocket(c)
  <2>1. file' = file /\ tail' = tail /\ stdout' = stdout /\ records' = records
    BY <1>10 DEF CreateFile, SendSocket, SendFails, Start, PollEOF, AtEOF, ReadSocket, vars, vaultVars
  <2>. QED BY <2>1, <1>1
<1>. QED BY <1>2, <1>3, <1>4, <1>5, <1>6, <1>7, <1>8, <1>9, <1>10 DEF Next, VaultNext, Relay

(* Invariance: the audit file is in order, what was sent on is done with,  *)
(* in order and complete as far as followFile has read.                    *)
THEOREM Invariance == Spec => [](TypeOK /\ CoreInv)
BY InitType, TypeStep, CoreInit, CoreStep, PTL DEF Spec

(* OrderKept: each audit record of the file reaches stdout at most once    *)
(* and in file order, over any number of relay restarts, torn and          *)
(* oversized lines: tailFile never goes back behind what it has sent.      *)
THEOREM OrderKept == Spec => []FileOrder
BY Invariance, PTL DEF CoreInv

(* ReadForwarded: a record of normal size that followFile has read is      *)
(* waiting, in the channel or on stdout, however full the channel is.      *)
THEOREM ReadForwarded == Spec => []ReadIsForwarded
BY Invariance, PTL DEF CoreInv
=============================================================================
