------------------------------ MODULE Framing ------------------------------
(***************************************************************************)
(* One TCP connection as two byte streams, and the two loops that cut      *)
(* lines of JSON out of them: ClientHandler::onReadyRead for requests      *)
(* ("up") and NetworkController::onReadyRead for responses and             *)
(* notifications ("down").  TCP hands the bytes over in order, in chunks   *)
(* of any size; a chunk is what one readAll returns.                       *)
(***************************************************************************)
EXTENDS Naturals, Sequences, SequencesExt

CONSTANT MaxLines  \* bound: lines sent in each direction
ASSUME LinesAssumption == MaxLines \in Nat

Ways == {"up", "down"}

\* A byte, and the line it belongs to: the braces around an object, white space
\* in one of its strings, the end of the line.
Bytes == [line : 1 .. MaxLines, char : {"open", "blank", "close", "newline"}]
Byte(i, ch) == [line |-> i, char |-> ch]
Object(i) == <<Byte(i, "open"), Byte(i, "blank"), Byte(i, "close")>>
Line(i) == Append(Object(i), Byte(i, "newline"))

VARIABLES
  sent,       \* lines written so far
  wire,       \* bytes between the two sockets
  buffer,     \* the receiver's buffer
  start,      \* the client's startIndex (counted from 1)
  got,        \* what was dispatched
  dropped,    \* history: the bytes that were skipped as white space
  connected

vars == <<sent, wire, buffer, start, got, dropped, connected>>

TypeOK ==
  /\ sent \in [Ways -> 0 .. MaxLines]
  /\ wire \in [Ways -> Seq(Bytes)]
  /\ buffer \in [Ways -> Seq(Bytes)]
  /\ start \in 1 .. 4 * MaxLines + 1
  /\ got \in [Ways -> Seq(Seq(Bytes))]
  /\ dropped \subseteq Bytes
  /\ connected \in BOOLEAN

Init ==
  /\ sent = [w \in Ways |-> 0]
  /\ wire = [w \in Ways |-> <<>>]
  /\ buffer = [w \in Ways |-> <<>>]
  /\ start = 1
  /\ got = [w \in Ways |-> <<>>]
  /\ dropped = {}
  /\ connected = TRUE

-----------------------------------------------------------------------------
White(s) == \A i \in DOMAIN s : s[i].char \in {"blank", "newline"}

\* Mutant: the parser stops at the end of the first object.
IsObject_Prefix(s) == s # <<>> /\ s[1].char = "open" /\ Last(s).char = "close"

\* QJsonDocument::fromJson makes an object of s.
IsObject(s) ==
  /\ Len(s) >= 2 /\ s[1].char = "open" /\ Last(s).char = "close"
  /\ \A i \in 2 .. Len(s) - 1 : s[i].char = "blank"

\* QByteArray::indexOf from a position on, 0 if there is none.
Index(s, ch, from) ==
  LET at == {i \in DOMAIN s : i >= from /\ s[i].char = ch} IN
  IF at = {} THEN 0 ELSE CHOOSE i \in at : \A j \in at : i <= j

\* Mutant: the lines are counted from 0.
Send_FromZero(w) ==
  /\ connected
  /\ sent[w] < MaxLines
  /\ sent' = [sent EXCEPT ![w] = @ + 1]
  /\ wire' = [wire EXCEPT ![w] = @ \o Line(sent[w])]
  /\ UNCHANGED <<buffer, start, got, dropped, connected>>

\* sendData and sendResponse: one write of a compact JSON object and "\n".
Send(w) ==
  /\ connected
  /\ sent[w] < MaxLines
  /\ sent' = [sent EXCEPT ![w] = @ + 1]
  /\ wire' = [wire EXCEPT ![w] = @ \o Line(sent[w] + 1)]
  /\ UNCHANGED <<buffer, start, got, dropped, connected>>

\* The loops are over: no whole line is left to look at.
ServerDone == Index(buffer["up"], "newline", 1) = 0
ClientObject == Index(buffer["down"], "open", start)
ClientEnd == Index(buffer["down"], "newline", ClientObject)
ClientDone == ClientObject = 0 \/ ClientEnd = 0

\* Mutant: the buffer is cleared before a new chunk.
ServerRead_Clears ==
  /\ ServerDone
  /\ \E n \in 1 .. Len(wire["up"]) :
       /\ buffer' = [buffer EXCEPT !["up"] = SubSeq(wire["up"], 1, n)]
       /\ wire' = [wire EXCEPT !["up"] = SubSeq(@, n + 1, Len(@))]
  /\ UNCHANGED <<sent, start, got, dropped, connected>>

\* ClientHandler::onReadyRead: readAll; white space is skipped.
ServerRead ==
  /\ ServerDone
  /\ \E n \in 1 .. Len(wire["up"]) :
       LET chunk == SubSeq(wire["up"], 1, n) IN
       /\ wire' = [wire EXCEPT !["up"] = SubSeq(@, n + 1, Len(@))]
       /\ IF White(chunk)
            THEN dropped' = dropped \cup ToSet(chunk) /\ UNCHANGED buffer
            ELSE buffer' = [buffer EXCEPT !["up"] = @ \o chunk] /\ UNCHANGED dropped
  /\ UNCHANGED <<sent, start, got, connected>>

\* One round of its loop: a line that is no object is skipped.
ServerLine ==
  LET end == Index(buffer["up"], "newline", 1)
      data == SubSeq(buffer["up"], 1, end - 1) IN
  /\ ~ServerDone
  /\ buffer' = [buffer EXCEPT !["up"] = SubSeq(@, end + 1, Len(@))]
  /\ got' = IF IsObject(data) THEN [got EXCEPT !["up"] = Append(@, data)] ELSE got
  /\ UNCHANGED <<sent, wire, start, dropped, connected>>

\* NetworkController::onReadyRead: startIndex is 0 at each call.
ClientRead ==
  /\ ClientDone
  /\ \E n \in 1 .. Len(wire["down"]) :
       /\ buffer' = [buffer EXCEPT !["down"] = @ \o SubSeq(wire["down"], 1, n)]
       /\ wire' = [wire EXCEPT !["down"] = SubSeq(@, n + 1, Len(@))]
  /\ start' = 1
  /\ UNCHANGED <<sent, got, dropped, connected>>

\* Mutant: startIndex is not reset after an object.
ClientLine_NoReset ==
  LET data == SubSeq(buffer["down"], ClientObject, ClientEnd - 1) IN
  /\ ~ClientDone
  /\ got' = [got EXCEPT !["down"] = Append(@, data)]
  /\ buffer' = [buffer EXCEPT !["down"] = SubSeq(@, ClientEnd + 1, Len(@))]
  /\ start' = ClientEnd + 1
  /\ UNCHANGED <<sent, wire, dropped, connected>>

\* One round of its loop: a line that does not parse stays in the buffer.
ClientLine ==
  LET data == SubSeq(buffer["down"], ClientObject, ClientEnd - 1) IN
  /\ ~ClientDone
  /\ IF IsObject(data)
       THEN /\ got' = [got EXCEPT !["down"] = Append(@, data)]
            /\ buffer' = [buffer EXCEPT !["down"] = SubSeq(@, ClientEnd + 1, Len(@))]
            /\ start' = 1
       ELSE start' = ClientEnd + 1 /\ UNCHANGED <<got, buffer>>
  /\ UNCHANGED <<sent, wire, dropped, connected>>

\* The connection is lost, with what has not arrived.
Break ==
  /\ connected
  /\ connected' = FALSE
  /\ \E n \in [Ways -> 0 .. 4 * MaxLines] :
       /\ \A w \in Ways : n[w] <= Len(wire[w])
       /\ wire' = [w \in Ways |-> SubSeq(wire[w], 1, n[w])]
  /\ UNCHANGED <<sent, buffer, start, got, dropped>>

Next ==
  \/ \E w \in Ways : Send(w)
  \/ ServerRead \/ ServerLine \/ ClientRead \/ ClientLine \/ Break

Spec == Init /\ [][Next]_vars

-----------------------------------------------------------------------------
\* Everything sent has arrived and been looked at.
Arrived(w) ==
  /\ connected /\ wire[w] = <<>>
  /\ IF w = "up" THEN ServerDone ELSE ClientDone

\* The object of line i, without a blank that was skipped.
Left(w, i) ==
  IF w = "up" /\ Byte(i, "blank") \in dropped THEN <<Byte(i, "open"), Byte(i, "close")>> ELSE Object(i)

\* However the streams are cut into chunks, and wherever they end, what is
\* dispatched is one line that was sent, whole but for skipped white space, and
\* later lines are dispatched later: no two lines are taken for one, no part of
\* a line for a line.
LinesInOrder ==
  \A w \in Ways : \A k \in DOMAIN got[w] :
    LET i == got[w][k][1].line IN
    /\ got[w][k] = Left(w, i)
    /\ k > 1 => got[w][k - 1][1].line < i

\* The client dispatches every line the server has written.
ClientGetsAll == Arrived("down") => Len(got["down"]) = sent["down"]

\* A chunk that is skipped costs at most the line it ends and the next one:
\* then the server is in step again.
ServerResyncs ==
  Arrived("up") =>
    \A i \in 1 .. sent["up"] :
      \/ \E k \in DOMAIN got["up"] : got["up"][k][1].line = i
      \/ Byte(i, "newline") \in dropped
      \/ i > 1 /\ Byte(i - 1, "newline") \in dropped

\* README.md:30, "Establish a reliable connection between clients and the server":
\* every request that was sent is dispatched.  TLC refutes it: a newline, or the
\* white space in a string, may be a chunk of its own, and is thrown away.
ServerGetsAll == Arrived("up") => Len(got["up"]) = sent["up"]
=============================================================================
