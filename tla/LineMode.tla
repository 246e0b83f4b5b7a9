-------------------------------- MODULE LineMode --------------------------------
(***************************************************************************)
(* The reading half of a line mode socket (src/sock.c): the network hands    *)
(* over what has arrived in reads that begin and end anywhere, linemode_read *)
(* puts the characters into readbuf and calls the parser for each line.      *)
(* Without the table of sockets and what parsers do with a line.             *)
(*                                                                         *)
(* A parser that refuses a line makes linemode_read delete the Sock, whose   *)
(* readbufsize it sets next: what follows is undefined and ends the model.   *)
(***************************************************************************)
EXTENDS Integers, SequencesExt

CONSTANTS
  Chars,         \* characters of lines
  Newlines,      \* '\n' and '\r'
  Refused,       \* lines the parser refuses: an origin without a command
  RecvQs,        \* values of the setting RECVQ, from 1024 on
  ReadSize,      \* 512
  MaxStream      \* a bound on the characters that arrive

ASSUME LineModeAssumption ==
  /\ Chars \cap Newlines = {} /\ Chars # {} /\ Newlines # {}
  /\ Refused \subseteq Seq(Chars) \ {<<>>}
  /\ RecvQs \subseteq Nat /\ ReadSize \in Nat \ {0} /\ MaxStream \in Nat
  /\ \A q \in RecvQs : q >= 2 * ReadSize

VARIABLES
  recvq,         \* the setting when the socket was added
  readbuf,       \* the characters of the line that has no end yet
  lines,         \* history: the lines the parser was called with
  stream,        \* history: what was read
  sockstate      \* "open", "dropped" for its RecvQ, "closed" by an error, "freed"

linevars == <<recvq, readbuf, lines, stream, sockstate>>

LinesTypeOK ==
  /\ recvq \in RecvQs
  /\ readbuf \in Seq(Chars) /\ lines \in Seq(Seq(Chars) \ {<<>>})
  /\ stream \in Seq(Chars \cup Newlines)
  /\ sockstate \in {"open", "dropped", "closed", "freed"}

-----------------------------------------------------------------------------
ReceiveMutant(s, ch) ==  \* readbufsize is not reset
  IF ch \in Newlines
    THEN IF s.buf = <<>> THEN s ELSE [s EXCEPT !.lines = Append(@, s.buf)]
    ELSE [s EXCEPT !.buf = Append(@, ch)]
\* A character that was read: the end of a line, or of none.
Receive(s, ch) ==
  IF ch \in Newlines
    THEN IF s.buf = <<>> THEN s ELSE [buf |-> <<>>, lines |-> Append(s.lines, s.buf)]
    ELSE [s EXCEPT !.buf = Append(@, ch)]

\* What the loop over the characters of a read leaves of s.
Received(s, read) ==
  LET after[n \in 0 .. Len(read)] == IF n = 0 THEN s ELSE Receive(after[n - 1], read[n])
  IN  after[Len(read)]

Exceeds(read) == Len(read) + Len(readbuf) > recvq

\* One turn of the loop of linemode_read.  The size is looked at before the ends
\* of lines in what was read.
linemode_read(read) ==
  /\ sockstate = "open"
  /\ IF Exceeds(read)
       THEN sockstate' = "dropped" /\ UNCHANGED <<readbuf, lines>>
       ELSE LET s == Received([buf |-> readbuf, lines |-> lines], read)
            IN  /\ readbuf' = s.buf /\ lines' = s.lines
                /\ sockstate' = IF \E i \in Len(lines) + 1 .. Len(s.lines) : s.lines[i] \in Refused
                                THEN "freed" ELSE "open"
  /\ stream' = stream \o read
  /\ UNCHANGED recvq

socket_linemode_error ==
  /\ sockstate = "open"
  /\ sockstate' = "closed"
  /\ UNCHANGED <<recvq, readbuf, lines, stream>>

-----------------------------------------------------------------------------
\* add_linemode_socket
LinesInit ==
  /\ recvq \in RecvQs
  /\ readbuf = <<>> /\ lines = <<>> /\ stream = <<>>
  /\ sockstate = "open"

LinesNext ==
  \/ \E n \in 1 .. ReadSize : \E read \in [1 .. n -> Chars \cup Newlines] :
       Len(stream) + n <= MaxStream /\ linemode_read(read)
  \/ socket_linemode_error

LinesSpec == LinesInit /\ [][LinesNext]_linevars

-----------------------------------------------------------------------------
(* The lines of a stream, from the places where they begin and end. *)

Begins(s, i) == s[i] \in Chars /\ (i > 1 => s[i - 1] \in Newlines)

\* The last character of the line or the unfinished line that begins at i.
EndOf(s, i) ==
  CHOOSE j \in i .. Len(s) :
    /\ \A k \in i .. j : s[k] \in Chars
    /\ j < Len(s) => s[j + 1] \in Newlines

LineAt(s, i) == SubSeq(s, i, EndOf(s, i))

\* Where the lines that have their end begin, and which of them begins at i.
Finished(s) == {i \in DOMAIN s : Begins(s, i) /\ EndOf(s, i) < Len(s)}
Number(s, i) == Cardinality({j \in Finished(s) : j <= i})

\* However the stream is cut into reads, the parser gets every line of it once,
\* whole and in order, without the empty ones, and what is kept is the line that
\* has no end yet.
LinesWhole ==
  sockstate \in {"open", "closed"} =>
    /\ Len(lines) = Cardinality(Finished(stream))
    /\ \A i \in Finished(stream) : lines[Number(stream, i)] = LineAt(stream, i)
    /\ readbuf = IF stream = <<>> \/ Last(stream) \in Newlines THEN <<>>
                 ELSE LineAt(stream, CHOOSE i \in DOMAIN stream :
                                       Begins(stream, i) /\ EndOf(stream, i) = Len(stream))

\* With a RECVQ of two reads no peer is dropped for lines an IRC server may send,
\* at most a read long with their end, and a line always fits in readbuf with its
\* terminator.
OnlyLongLinesDrop ==
  /\ sockstate = "dropped" =>
       \E i \in DOMAIN stream : Begins(stream, i) /\ Len(LineAt(stream, i)) > ReadSize
  /\ \A i \in DOMAIN lines : Len(lines[i]) < recvq

LinesFollow == LinesTypeOK /\ LinesWhole /\ OnlyLongLinesDrop
==============================================================================
