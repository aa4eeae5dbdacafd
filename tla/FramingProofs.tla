--------------------------- MODULE FramingProofs ---------------------------
(***************************************************************************)
(* For any number of lines: however the two streams are cut into chunks,   *)
(* the loops dispatch whole lines in the order of sending, the client all  *)
(* of them, the server all but those next to white space it skipped.       *)
(***************************************************************************)
EXTENDS Framing, WellFoundedInduction, TLAPS

\* The place of a byte in everything that is ever sent one way.
Place(ch) == IF ch = "open" THEN 1 ELSE IF ch = "blank" THEN 2 ELSE IF ch = "close" THEN 3 ELSE 4
Pos(b) == 4 * b.line - 4 + Place(b.char)

\* The wire carries what follows the first r bytes.
Stream(w, r) ==
  /\ \A i \in DOMAIN wire[w] : Pos(wire[w][i]) = r + i
  /\ r + Len(wire[w]) <= 4 * sent[w]
  /\ connected => r + Len(wire[w]) = 4 * sent[w]

\* The client has dispatched the first lines; its buffer has the bytes behind.
Aligned ==
  \A i \in DOMAIN buffer["down"] : Pos(buffer["down"][i]) = 4 * Len(got["down"]) + i
DownInv ==
  /\ start = 1
  /\ \A k \in DOMAIN got["down"] : got["down"][k] = Object(k)
  /\ Aligned
  /\ \E r \in Nat : r = 4 * Len(got["down"]) + Len(buffer["down"]) /\ Stream("down", r)

\* The server has read r bytes and is done with c lines.  Its buffer has the
\* rest of them in order, but for those that were skipped.
Buffered(r, c) ==
  /\ \A i \in DOMAIN buffer["up"] : 4 * c < Pos(buffer["up"][i]) /\ Pos(buffer["up"][i]) <= r
  /\ \A i, j \in DOMAIN buffer["up"] : i < j => Pos(buffer["up"][i]) < Pos(buffer["up"][j])
  /\ \A i \in DOMAIN buffer["up"] : buffer["up"][i] \notin dropped
Skipped(r) == \A b \in dropped : Pos(b) <= r /\ b.char \in {"blank", "newline"}
Complete(r, c) ==
  \A b \in Bytes : 4 * c < Pos(b) /\ Pos(b) <= r =>
    b \in dropped \/ \E i \in DOMAIN buffer["up"] : buffer["up"][i] = b

\* What it dispatched are lines it is done with, in order and whole but for
\* what was skipped; the others stand next to a newline that was skipped.
LineOf(k) == got["up"][k][1].line
Dispatched(c) ==
  \A k \in DOMAIN got["up"] :
    /\ LineOf(k) \in 1 .. c
    /\ got["up"][k] = Left("up", LineOf(k))
    /\ k > 1 => LineOf(k - 1) < LineOf(k)
Accounted(c) ==
  \A i \in 1 .. c :
    \/ \E k \in DOMAIN got["up"] : LineOf(k) = i
    \/ Byte(i, "newline") \in dropped
    \/ i > 1 /\ Byte(i - 1, "newline") \in dropped

Up(r, c) ==
  /\ 4 * c <= r
  /\ Stream("up", r)
  /\ Buffered(r, c)
  /\ Skipped(r)
  /\ Complete(r, c)
  /\ Dispatched(c)
  /\ Accounted(c)
UpInv == \E r, c \in Nat : Up(r, c)

IInv == TypeOK /\ DownInv /\ UpInv

-----------------------------------------------------------------------------
\* Numbers, sequences and bytes.

LEMMA Least ==
  ASSUME NEW T \in SUBSET Nat, T # {}
  PROVE  \E n \in T : \A m \in T : n <= m
<1> DEFINE R == OpToRel(<, Nat)
<1>1. IsWellFoundedOn(R, Nat)
  BY NatLessThanWellFounded
<1>2. \A x, y \in Nat : <<x, y>> \in R <=> x < y
  BY DEF OpToRel
<1> HIDE DEF R
<1>3. PICK n \in T : \A m \in T : ~ (<<m, n>> \in R)
  BY <1>1, WFMin
<1>4. \A m \in T : n <= m
  <2> SUFFICES ASSUME NEW m \in T PROVE n <= m
    OBVIOUS
  <2>1. m \in Nat /\ n \in Nat /\ ~ (m < n)
    BY <1>2, <1>3
  <2> QED
    BY <2>1
<1> QED
  BY <1>4

\* indexOf finds the first place, or nothing.
LEMMA Found ==
  ASSUME NEW s \in Seq(Bytes), NEW ch, NEW from \in Nat
  PROVE  \/ /\ Index(s, ch, from) = 0
            /\ \A i \in DOMAIN s : i >= from => s[i].char # ch
         \/ /\ Index(s, ch, from) # 0
            /\ Index(s, ch, from) \in 1 .. Len(s)
            /\ Index(s, ch, from) >= from
            /\ s[Index(s, ch, from)].char = ch
            /\ \A i \in 1 .. Len(s) : i >= from /\ s[i].char = ch => Index(s, ch, from) <= i
<1> DEFINE at == {i \in DOMAIN s : i >= from /\ s[i].char = ch}
<1>1. CASE at = {}
  BY <1>1 DEF Index
<1>2. CASE at # {}
  <2>1. at \in SUBSET Nat
    OBVIOUS
  <2>2. PICK n \in at : \A m \in at : n <= m
    BY <1>2, <2>1, Least
  <2>3. Index(s, ch, from) = CHOOSE i \in at : \A j \in at : i <= j
    BY <1>2 DEF Index
  <2>4. Index(s, ch, from) \in at /\ \A j \in at : Index(s, ch, from) <= j
    BY <2>2, <2>3
  <2> QED
    BY <2>4
<1> QED
  BY <1>1, <1>2

LEMMA Added ==
  ASSUME NEW S, NEW s \in Seq(S), NEW b \in S
  PROVE  /\ Append(s, b) \in Seq(S)
         /\ Len(Append(s, b)) = Len(s) + 1
         /\ \A i \in 1 .. Len(s) : Append(s, b)[i] = s[i]
         /\ Append(s, b)[Len(s) + 1] = b
OBVIOUS

LEMMA Joined ==
  ASSUME NEW s \in Seq(Bytes), NEW t \in Seq(Bytes)
  PROVE  /\ s \o t \in Seq(Bytes)
         /\ Len(s \o t) = Len(s) + Len(t)
         /\ \A i \in 1 .. Len(s) : (s \o t)[i] = s[i]
         /\ \A i \in 1 .. Len(t) : (s \o t)[Len(s) + i] = t[i]
OBVIOUS

LEMMA Cut ==
  ASSUME NEW s \in Seq(Bytes), NEW m \in Nat, NEW n \in Nat, 1 <= m, m <= n + 1, n <= Len(s)
  PROVE  /\ SubSeq(s, m, n) \in Seq(Bytes)
         /\ Len(SubSeq(s, m, n)) = n - m + 1
         /\ \A i \in 1 .. n - m + 1 : SubSeq(s, m, n)[i] = s[m + i - 1]
OBVIOUS

LEMMA Places ==
  /\ Place("open") = 1 /\ Place("blank") = 2 /\ Place("close") = 3 /\ Place("newline") = 4
BY DEF Place

LEMMA Fields ==
  ASSUME NEW b \in Bytes
  PROVE  /\ b.line \in 1 .. MaxLines
         /\ b.line \in Nat
         /\ b.char \in {"open", "blank", "close", "newline"}
         /\ b = Byte(b.line, b.char)
         /\ Place(b.char) \in 1 .. 4
         /\ Pos(b) = 4 * b.line - 4 + Place(b.char)
         /\ Pos(b) \in Nat
         /\ 4 * b.line - 4 < Pos(b) /\ Pos(b) <= 4 * b.line
<1>1. b.line \in 1 .. MaxLines /\ b.char \in {"open", "blank", "close", "newline"} /\ b = Byte(b.line, b.char)
  BY DEF Bytes, Byte
<1>2. b.line \in Nat /\ b.line >= 1
  BY <1>1, LinesAssumption
<1>3. Place(b.char) \in 1 .. 4
  BY <1>1, Places
<1>4. Pos(b) = 4 * b.line - 4 + Place(b.char)
  BY DEF Pos
<1>5. Pos(b) \in Nat /\ 4 * b.line - 4 < Pos(b) /\ Pos(b) <= 4 * b.line
  BY <1>2, <1>3, <1>4
<1> QED
  BY <1>1, <1>2, <1>3, <1>4, <1>5

LEMMA ByteIs ==
  ASSUME NEW i \in 1 .. MaxLines
  PROVE  /\ i \in Nat
         /\ Byte(i, "open") \in Bytes /\ Pos(Byte(i, "open")) = 4 * i - 3
         /\ Byte(i, "blank") \in Bytes /\ Pos(Byte(i, "blank")) = 4 * i - 2
         /\ Byte(i, "close") \in Bytes /\ Pos(Byte(i, "close")) = 4 * i - 1
         /\ Byte(i, "newline") \in Bytes /\ Pos(Byte(i, "newline")) = 4 * i
         /\ \A ch : Byte(i, ch).line = i /\ Byte(i, ch).char = ch
BY LinesAssumption DEF Bytes, Byte, Pos, Place

\* A byte has a place of its own.
LEMMA SameByte ==
  ASSUME NEW b \in Bytes, NEW d \in Bytes, Pos(b) = Pos(d)
  PROVE  b = d
<1>1. /\ b.line \in Nat /\ d.line \in Nat
      /\ Place(b.char) \in 1 .. 4 /\ Place(d.char) \in 1 .. 4
      /\ 4 * b.line - 4 + Place(b.char) = 4 * d.line - 4 + Place(d.char)
  BY Fields
<1>2. b.line = d.line /\ Place(b.char) = Place(d.char)
  BY <1>1
<1>3. b.char = d.char
  <2>1. /\ b.char \in {"open", "blank", "close", "newline"}
        /\ d.char \in {"open", "blank", "close", "newline"}
    BY Fields
  <2> QED
    BY <1>2, <2>1, Places
<1> QED
  BY <1>2, <1>3, Fields

LEMMA ObjectIs ==
  ASSUME NEW i \in 1 .. MaxLines
  PROVE  /\ Object(i) \in Seq(Bytes)
         /\ Len(Object(i)) = 3
         /\ Object(i)[1] = Byte(i, "open")
         /\ Object(i)[2] = Byte(i, "blank")
         /\ Object(i)[3] = Byte(i, "close")
BY ByteIs DEF Object

LEMMA LineIs ==
  ASSUME NEW i \in 1 .. MaxLines
  PROVE  /\ Line(i) \in Seq(Bytes)
         /\ Len(Line(i)) = 4
         /\ \A k \in 1 .. 4 : Pos(Line(i)[k]) = 4 * i - 4 + k
<1> DEFINE newline == Byte(i, "newline")
<1>1. Object(i) \in Seq(Bytes) /\ newline \in Bytes /\ Line(i) = Append(Object(i), newline)
  BY ObjectIs, ByteIs DEF Line
<1> HIDE DEF newline
<1>2. /\ Line(i) \in Seq(Bytes)
      /\ Len(Line(i)) = 4
      /\ \A k \in 1 .. 3 : Line(i)[k] = Object(i)[k]
      /\ Line(i)[4] = newline
  BY <1>1, ObjectIs, Added
<1>3. Line(i)[1] = Byte(i, "open") /\ Line(i)[2] = Byte(i, "blank") /\ Line(i)[3] = Byte(i, "close")
  BY <1>2, ObjectIs
<1>4. \A k \in 1 .. 4 : k = 1 \/ k = 2 \/ k = 3 \/ k = 4
  OBVIOUS
<1>5. i \in Nat
  OBVIOUS
<1>6. Pos(Line(i)[1]) = 4 * i - 4 + 1 /\ Pos(Line(i)[2]) = 4 * i - 4 + 2
  BY <1>3, <1>5, ByteIs
<1>7. Pos(Line(i)[3]) = 4 * i - 4 + 3 /\ Pos(Line(i)[4]) = 4 * i - 4 + 4
  BY <1>2, <1>3, <1>5, ByteIs DEF newline
<1> QED
  BY <1>2, <1>4, <1>6, <1>7

LEMMA NewlineIs ==
  ASSUME NEW b \in Bytes
  PROVE  /\ b.char = "newline" => Pos(b) = 4 * b.line
         /\ b.char = "open" => Pos(b) = 4 * b.line - 3
<1>1. b.line \in Nat
  BY Fields
<1> QED
  BY <1>1, Fields, Places
-----------------------------------------------------------------------------
\* The parts of the types, one way at a time.

LEMMA TypesOf ==
  ASSUME TypeOK, NEW w \in Ways
  PROVE  /\ sent[w] \in 0 .. MaxLines /\ sent[w] \in Nat
         /\ wire[w] \in Seq(Bytes) /\ Len(wire[w]) \in Nat
         /\ buffer[w] \in Seq(Bytes) /\ Len(buffer[w]) \in Nat
         /\ got[w] \in Seq(Seq(Bytes)) /\ Len(got[w]) \in Nat
BY LinesAssumption DEF TypeOK

LEMMA InitHolds == Init => IInv
<1> SUFFICES ASSUME Init PROVE IInv
  OBVIOUS
<1>1. /\ "up" \in Ways /\ "down" \in Ways
      /\ 4 * MaxLines + 1 \in Nat /\ 1 <= 4 * MaxLines + 1
  BY LinesAssumption DEF Ways
<1>2. TypeOK
  BY <1>1, LinesAssumption DEF Init, TypeOK
<1>3. /\ \A w \in Ways : sent[w] = 0 /\ wire[w] = <<>> /\ buffer[w] = <<>> /\ got[w] = <<>>
      /\ start = 1 /\ dropped = {} /\ connected
  BY DEF Init
<1>4. \A w \in Ways : Stream(w, 0)
  BY <1>3 DEF Stream
<1>5. DownInv
  <2>1. got["down"] = <<>> /\ buffer["down"] = <<>>
    BY <1>1, <1>3
  <2>2. Len(<<>>) = 0 /\ 0 = 4 * 0 + 0
    OBVIOUS
  <2>3. 0 = 4 * Len(got["down"]) + Len(buffer["down"])
    BY <2>1, <2>2
  <2>4. Aligned /\ \A k \in DOMAIN got["down"] : got["down"][k] = Object(k)
    BY <2>1 DEF Aligned
  <2> QED
    BY <1>1, <1>3, <1>4, <2>3, <2>4 DEF DownInv
<1>6. Up(0, 0)
  <2>1. Complete(0, 0)
    BY Fields DEF Complete
  <2> QED
    BY <1>1, <1>3, <1>4, <2>1 DEF Up, Buffered, Skipped, Dispatched, Accounted
<1> QED
  BY <1>2, <1>5, <1>6 DEF IInv, UpInv

\* What is written to one stream does not touch the other.
LEMMA DownStays ==
  ASSUME DownInv, start' = start, got'["down"] = got["down"], buffer'["down"] = buffer["down"],
         wire'["down"] = wire["down"], sent'["down"] = sent["down"], connected' = connected
  PROVE  DownInv'
BY DEF DownInv, Aligned, Stream

LEMMA UpStays ==
  ASSUME UpInv, got'["up"] = got["up"], buffer'["up"] = buffer["up"], dropped' = dropped,
         wire'["up"] = wire["up"], sent'["up"] = sent["up"], connected' = connected
  PROVE  UpInv'
<1>1. PICK r \in Nat, c \in Nat : Up(r, c)
  BY DEF UpInv
<1>2. Stream("up", r)' /\ Buffered(r, c)' /\ Skipped(r)' /\ Complete(r, c)'
  BY <1>1 DEF Up, Stream, Buffered, Skipped, Complete
<1>3. Dispatched(c)' /\ Accounted(c)'
  BY <1>1 DEF Up, Dispatched, Accounted, LineOf, Left
<1> QED
  BY <1>1, <1>2, <1>3 DEF UpInv, Up
-----------------------------------------------------------------------------
\* Writing, reading and losing bytes.

LEMMA Sending ==
  ASSUME TypeOK, NEW w \in Ways, Send(w), NEW r \in Nat, Stream(w, r)
  PROVE  Stream(w, r)'
<1> DEFINE s == wire[w]
           t == Line(sent[w] + 1)
<1>1. /\ s \in Seq(Bytes) /\ sent[w] \in Nat /\ sent[w] + 1 \in 1 .. MaxLines
      /\ wire'[w] = s \o t /\ sent'[w] = sent[w] + 1
      /\ connected /\ connected' = connected
  BY TypesOf, LinesAssumption DEF Send, TypeOK
<1>2. /\ t \in Seq(Bytes) /\ Len(t) = 4
      /\ \A k \in 1 .. 4 : Pos(t[k]) = 4 * (sent[w] + 1) - 4 + k
  BY <1>1, LineIs
<1>3. /\ \A i \in 1 .. Len(s) : Pos(s[i]) = r + i
      /\ r + Len(s) = 4 * sent[w] /\ Len(s) \in Nat
  BY <1>1 DEF Stream
<1> HIDE DEF s, t
<1>4. /\ s \o t \in Seq(Bytes) /\ Len(s \o t) = Len(s) + 4
      /\ \A i \in 1 .. Len(s) : (s \o t)[i] = s[i]
      /\ \A i \in 1 .. 4 : (s \o t)[Len(s) + i] = t[i]
  <2>1. /\ s \o t \in Seq(Bytes) /\ Len(s \o t) = Len(s) + Len(t)
        /\ \A i \in 1 .. Len(s) : (s \o t)[i] = s[i]
        /\ \A i \in 1 .. Len(t) : (s \o t)[Len(s) + i] = t[i]
    BY <1>1, <1>2, Joined
  <2> QED
    BY <1>2, <2>1
<1>5. \A i \in DOMAIN (s \o t) : Pos((s \o t)[i]) = r + i
  <2> SUFFICES ASSUME NEW i \in DOMAIN (s \o t) PROVE Pos((s \o t)[i]) = r + i
    OBVIOUS
  <2>1. i \in Nat /\ 1 <= i /\ i <= Len(s) + 4
    BY <1>3, <1>4
  <2>2. CASE i <= Len(s)
    BY <1>3, <1>4, <2>1, <2>2
  <2>3. CASE i > Len(s)
    <3>1. PICK k \in 1 .. 4 : i = Len(s) + k
      <4>1. i - Len(s) \in 1 .. 4 /\ i = Len(s) + (i - Len(s))
        BY <1>3, <2>1, <2>3
      <4> QED
        BY <4>1
    <3>2. Pos((s \o t)[i]) = 4 * (sent[w] + 1) - 4 + k
      BY <1>2, <1>4, <3>1
    <3> QED
      BY <1>1, <1>3, <3>1, <3>2
  <2> QED
    BY <1>3, <2>1, <2>2, <2>3
<1>6. r + Len(s \o t) = 4 * (sent[w] + 1)
  <2>1. \A a, b, c \in Nat : a + b = 4 * c => a + (b + 4) = 4 * (c + 1)
    OBVIOUS
  <2>2. r + (Len(s) + 4) = 4 * (sent[w] + 1)
    BY <1>1, <1>3, <2>1
  <2>3. Len(s \o t) = Len(s) + 4
    BY <1>4
  <2> QED
    BY <2>2, <2>3
<1>7. r + Len(s \o t) <= 4 * (sent[w] + 1)
  BY <1>1, <1>6
<1> QED
  BY <1>1, <1>5, <1>6, <1>7 DEF Stream

LEMMA Reading ==
  ASSUME TypeOK, NEW w \in Ways, NEW r \in Nat, Stream(w, r), NEW n \in 1 .. Len(wire[w]),
         wire' = [wire EXCEPT ![w] = SubSeq(@, n + 1, Len(@))], sent' = sent, connected' = connected
  PROVE  /\ r + n \in Nat
         /\ Stream(w, r + n)'
         /\ \A i \in 1 .. n : wire[w][i] \in Bytes /\ Pos(wire[w][i]) = r + i
<1> DEFINE s == wire[w]
           t == SubSeq(s, n + 1, Len(s))
<1>1. s \in Seq(Bytes) /\ Len(s) \in Nat /\ n \in Nat /\ 1 <= n /\ n <= Len(s) /\ sent[w] \in Nat
  BY TypesOf
<1>2. wire'[w] = t
  BY <1>1 DEF TypeOK
<1>3. /\ \A i \in 1 .. Len(s) : Pos(s[i]) = r + i
      /\ r + Len(s) <= 4 * sent[w]
      /\ connected => r + Len(s) = 4 * sent[w]
  BY <1>1 DEF Stream
<1> HIDE DEF s
<1>4. /\ t \in Seq(Bytes) /\ Len(t) = Len(s) - (n + 1) + 1
      /\ \A i \in 1 .. Len(s) - (n + 1) + 1 : t[i] = s[n + 1 + i - 1]
  <2>1. n + 1 \in Nat /\ 1 <= n + 1 /\ n + 1 <= Len(s) + 1
    BY <1>1
  <2> QED
    BY <1>1, <2>1, Cut
<1> HIDE DEF t
<1>5. Len(t) = Len(s) - n /\ Len(t) \in Nat /\ r + n + Len(t) = r + Len(s)
  BY <1>1, <1>4
<1>6. \A i \in DOMAIN t : Pos(t[i]) = r + n + i
  <2>0. DOMAIN t = 1 .. Len(t)
    BY <1>4
  <2> SUFFICES ASSUME NEW i \in 1 .. Len(t) PROVE Pos(t[i]) = r + n + i
    BY <2>0
  <2>1. /\ i \in Nat /\ n + 1 + i - 1 = n + i /\ n + i \in 1 .. Len(s)
        /\ i \in 1 .. Len(s) - (n + 1) + 1 /\ r + (n + i) = r + n + i
    BY <1>1, <1>5
  <2> QED
    BY <1>3, <1>4, <2>1
<1>7. Stream(w, r + n)'
  BY <1>2, <1>3, <1>5, <1>6 DEF Stream
<1>8. r + n \in Nat
  BY <1>1
<1>9. \A i \in 1 .. n : s[i] \in Bytes /\ Pos(s[i]) = r + i
  BY <1>1, <1>3
<1> QED
  BY <1>7, <1>8, <1>9 DEF s

LEMMA Breaking ==
  ASSUME TypeOK, NEW w \in Ways, NEW r \in Nat, Stream(w, r), NEW n \in Nat, n <= Len(wire[w]),
         wire'[w] = SubSeq(wire[w], 1, n), sent' = sent, connected' = FALSE
  PROVE  Stream(w, r)'
<1>1. /\ wire[w] \in Seq(Bytes) /\ sent[w] \in Nat /\ Len(wire[w]) \in Nat
  BY TypesOf
<1>2. /\ wire'[w] \in Seq(Bytes) /\ Len(wire'[w]) = n
      /\ \A i \in 1 .. n : wire'[w][i] = wire[w][i]
  BY <1>1
<1>3. \A i \in DOMAIN wire'[w] : Pos(wire'[w][i]) = r + i
  BY <1>1, <1>2 DEF Stream
<1>4. r + n <= 4 * sent[w]
  BY <1>1 DEF Stream
<1> QED
  BY <1>2, <1>3, <1>4 DEF Stream
-----------------------------------------------------------------------------
\* The client.

LEMMA ClientReads == ASSUME IInv, ClientRead PROVE IInv'
<1> DEFINE s == buffer["down"]
           k == Len(got["down"])
<1>1. PICK n \in 1 .. Len(wire["down"]) :
        /\ buffer' = [buffer EXCEPT !["down"] = @ \o SubSeq(wire["down"], 1, n)]
        /\ wire' = [wire EXCEPT !["down"] = SubSeq(@, n + 1, Len(@))]
  BY DEF ClientRead
<1> DEFINE t == SubSeq(wire["down"], 1, n)
<1>2. /\ TypeOK /\ "down" \in Ways /\ "up" \in Ways
      /\ s \in Seq(Bytes) /\ Len(s) \in Nat /\ k \in Nat
      /\ wire["down"] \in Seq(Bytes) /\ Len(wire["down"]) \in Nat
      /\ n \in Nat /\ 1 <= n /\ n <= Len(wire["down"])
  BY TypesOf DEF IInv, Ways
<1>3. /\ t \in Seq(Bytes) /\ Len(t) = n - 1 + 1
      /\ \A i \in 1 .. n - 1 + 1 : t[i] = wire["down"][1 + i - 1]
  BY <1>2, Cut
<1>4. /\ SubSeq(wire["down"], n + 1, Len(wire["down"])) \in Seq(Bytes)
  BY <1>2
<1>5. /\ buffer'["down"] = s \o t /\ buffer'["up"] = buffer["up"]
      /\ wire'["up"] = wire["up"]
      /\ start' = 1 /\ sent' = sent /\ got' = got /\ dropped' = dropped /\ connected' = connected
  BY <1>1, <1>2 DEF ClientRead, TypeOK
<1>6. PICK r \in Nat : r = 4 * k + Len(s) /\ Stream("down", r)
  BY DEF IInv, DownInv
<1>7. /\ r + n \in Nat /\ Stream("down", r + n)'
      /\ \A i \in 1 .. n : Pos(wire["down"][i]) = r + i
  BY <1>1, <1>2, <1>5, <1>6, Reading
<1> HIDE DEF s, t, k
<1>8. /\ s \o t \in Seq(Bytes) /\ Len(s \o t) = Len(s) + Len(t)
      /\ \A i \in 1 .. Len(s) : (s \o t)[i] = s[i]
      /\ \A i \in 1 .. Len(t) : (s \o t)[Len(s) + i] = t[i]
  BY <1>2, <1>3, Joined
<1>9. Len(t) = n
  BY <1>2, <1>3
<1>10. TypeOK'
  BY <1>1, <1>2, <1>4, <1>5, <1>8, LinesAssumption DEF TypeOK, s, t
<1>11. DownInv'
  <2>1. \A i \in DOMAIN (s \o t) : Pos((s \o t)[i]) = 4 * k + i
    <3> SUFFICES ASSUME NEW i \in DOMAIN (s \o t) PROVE Pos((s \o t)[i]) = 4 * k + i
      OBVIOUS
    <3>1. i \in Nat /\ 1 <= i /\ i <= Len(s) + n
      BY <1>2, <1>8, <1>9
    <3>2. CASE i <= Len(s)
      <4>1. Pos(s[i]) = 4 * k + i
        BY <3>1, <3>2, <1>2 DEF IInv, DownInv, Aligned, s, k
      <4> QED
        BY <1>8, <3>1, <3>2, <4>1
    <3>3. CASE i > Len(s)
      <4>1. PICK j \in 1 .. n : i = Len(s) + j
        <5>1. i - Len(s) \in 1 .. n /\ i = Len(s) + (i - Len(s))
          BY <1>2, <3>1, <3>3
        <5> QED
          BY <5>1
      <4>2. (s \o t)[i] = t[j]
        BY <1>8, <1>9, <4>1
      <4>3. t[j] = wire["down"][j]
        <5>1. j \in 1 .. n - 1 + 1 /\ 1 + j - 1 = j
          BY <1>2
        <5> QED
          BY <1>3, <5>1
      <4>4. Pos((s \o t)[i]) = r + j
        BY <1>7, <4>2, <4>3
      <4>5. r + j = 4 * k + (Len(s) + j)
        BY <1>2, <1>6
      <4> QED
        BY <4>1, <4>4, <4>5
    <3> QED
      BY <1>2, <3>1, <3>2, <3>3
  <2>2. Aligned'
    BY <1>5, <2>1 DEF Aligned, k
  <2>3. r + n = 4 * k + Len(s \o t)
    <3>1. r + n = 4 * k + (Len(s) + n)
      BY <1>2, <1>6
    <3>2. Len(s \o t) = Len(s) + n
      BY <1>8, <1>9
    <3> QED
      BY <3>1, <3>2
  <2>4. r + n = 4 * Len(got'["down"]) + Len(buffer'["down"])
    BY <1>5, <2>3 DEF k
  <2>5. \A i \in DOMAIN got'["down"] : got'["down"][i] = Object(i)
    BY <1>5 DEF IInv, DownInv
  <2> QED
    BY <1>5, <1>7, <2>2, <2>4, <2>5 DEF DownInv
<1>12. UpInv'
  BY <1>5, UpStays DEF IInv
<1> QED
  BY <1>10, <1>11, <1>12 DEF IInv

LEMMA PlaceIs ==
  ASSUME NEW b \in Bytes, NEW l \in Nat, NEW d \in 1 .. 4, Pos(b) = 4 * l + d
  PROVE  /\ b.line = l + 1 /\ l + 1 \in 1 .. MaxLines
         /\ d = 1 => b.char = "open"
         /\ d = 2 => b.char = "blank"
         /\ d = 3 => b.char = "close"
         /\ d = 4 => b.char = "newline"
<1>1. /\ b.line \in Nat /\ b.line \in 1 .. MaxLines /\ Place(b.char) \in 1 .. 4
      /\ 4 * b.line - 4 + Place(b.char) = 4 * l + d
  BY Fields
<1>2. b.line = l + 1 /\ Place(b.char) = d
  BY <1>1
<1>3. b.char \in {"open", "blank", "close", "newline"}
  BY Fields
<1>4. d = 1 \/ d = 2 \/ d = 3 \/ d = 4
  OBVIOUS
<1> QED
  BY <1>1, <1>2, <1>3, <1>4, Places

LEMMA SameObject ==
  ASSUME NEW i \in 1 .. MaxLines, NEW s \in Seq(Bytes), Len(s) = 3,
         s[1] = Byte(i, "open"), s[2] = Byte(i, "blank"), s[3] = Byte(i, "close")
  PROVE  s = Object(i) /\ IsObject(s)
<1>1. s = Object(i)
  <2>1. \A k \in 1 .. 3 : k = 1 \/ k = 2 \/ k = 3
    OBVIOUS
  <2>2. \A k \in 1 .. 3 : s[k] = Object(i)[k]
    BY <2>1, ObjectIs
  <2> QED
    BY <2>2, ObjectIs
<1>2. \A k \in 2 .. Len(s) - 1 : k = 2
  OBVIOUS
<1>3. Last(s).char = "close" /\ s[1].char = "open" /\ s[2].char = "blank"
  BY ByteIs DEF Last
<1> QED
  BY <1>1, <1>2, <1>3 DEF IsObject

\* Its buffer begins with a line, so the loop finds that line and no other.
LEMMA ClientFinds ==
  ASSUME IInv, ~ClientDone
  PROVE  LET s == buffer["down"]
             i == Len(got["down"]) + 1 IN
         /\ i \in 1 .. MaxLines
         /\ Len(s) >= 4 /\ ClientObject = 1 /\ ClientEnd = 4
         /\ SubSeq(s, 1, 3) = Object(i) /\ IsObject(SubSeq(s, 1, 3))
<1> DEFINE s == buffer["down"]
           k == Len(got["down"])
           e == Index(s, "newline", 1)
<1>1. /\ TypeOK /\ "down" \in Ways /\ s \in Seq(Bytes) /\ Len(s) \in Nat /\ k \in Nat /\ start = 1
  BY TypesOf DEF IInv, Ways, DownInv
<1>2. \A i \in 1 .. Len(s) : s[i] \in Bytes /\ Pos(s[i]) = 4 * k + i
  BY <1>1 DEF IInv, DownInv, Aligned
<1>3. Index(s, "open", 1) # 0
  BY <1>1 DEF ClientDone, ClientObject
<1>4. ClientObject = Index(s, "open", 1)
  BY <1>1 DEF ClientObject
<1> HIDE DEF s, k
<1>5. Index(s, "open", 1) \in 1 .. Len(s) /\ \A i \in 1 .. Len(s) : i >= 1 /\ s[i].char = "open" => Index(s, "open", 1) <= i
  BY <1>1, <1>3, Found
<1>6. 1 \in 1 .. Len(s)
  BY <1>1, <1>5
<1>7. s[1].line = k + 1 /\ s[1].char = "open" /\ k + 1 \in 1 .. MaxLines
  BY <1>1, <1>2, <1>6, PlaceIs
<1>8. ClientObject = 1
  BY <1>1, <1>4, <1>5, <1>6, <1>7
<1>9. ClientEnd = e /\ e # 0
  BY <1>8 DEF ClientEnd, ClientDone, s
<1> HIDE DEF e
<1>10. /\ e \in 1 .. Len(s) /\ s[e].char = "newline"
       /\ \A i \in 1 .. Len(s) : i >= 1 /\ s[i].char = "newline" => e <= i
  BY <1>1, <1>9, Found DEF e
<1>11. e \in Nat /\ 4 * k + e = 4 * s[e].line /\ s[e].line \in Nat
  BY <1>2, <1>10, NewlineIs, Fields
<1>12. e >= 4
  <2>1. \A a, b, c \in Nat : 4 * a + b = 4 * c /\ b >= 1 => b >= 4
    OBVIOUS
  <2>2. e >= 1
    BY <1>10
  <2> QED
    BY <1>1, <1>11, <2>1, <2>2
<1>13. Len(s) >= 4 /\ 2 \in 1 .. Len(s) /\ 3 \in 1 .. Len(s) /\ 4 \in 1 .. Len(s)
  BY <1>1, <1>10, <1>11, <1>12
<1>14. /\ s[2].line = k + 1 /\ s[2].char = "blank"
       /\ s[3].line = k + 1 /\ s[3].char = "close"
       /\ s[4].line = k + 1 /\ s[4].char = "newline"
  BY <1>1, <1>2, <1>13, PlaceIs
<1>15. e = 4
  BY <1>10, <1>11, <1>12, <1>13, <1>14
<1>16. s[1] = Byte(k + 1, "open") /\ s[2] = Byte(k + 1, "blank") /\ s[3] = Byte(k + 1, "close")
  BY <1>2, <1>6, <1>7, <1>13, <1>14, Fields
<1>17. /\ SubSeq(s, 1, 3) \in Seq(Bytes) /\ Len(SubSeq(s, 1, 3)) = 3
       /\ SubSeq(s, 1, 3)[1] = s[1] /\ SubSeq(s, 1, 3)[2] = s[2] /\ SubSeq(s, 1, 3)[3] = s[3]
  BY <1>1, <1>13
<1>18. SubSeq(s, 1, 3) = Object(k + 1) /\ IsObject(SubSeq(s, 1, 3))
  BY <1>7, <1>16, <1>17, SameObject
<1> QED
  BY <1>7, <1>8, <1>9, <1>13, <1>15, <1>18 DEF s, k

LEMMA ClientTakes == ASSUME IInv, ClientLine PROVE IInv'
<1> DEFINE s == buffer["down"]
           k == Len(got["down"])
           t == SubSeq(s, 5, Len(s))
<1>1. /\ TypeOK /\ "down" \in Ways /\ "up" \in Ways
      /\ s \in Seq(Bytes) /\ Len(s) \in Nat /\ k \in Nat /\ got["down"] \in Seq(Seq(Bytes))
  BY TypesOf DEF IInv, Ways
<1>2. /\ k + 1 \in 1 .. MaxLines /\ Len(s) >= 4 /\ ClientObject = 1 /\ ClientEnd = 4
      /\ SubSeq(s, 1, 3) = Object(k + 1) /\ IsObject(SubSeq(s, 1, 3))
  BY ClientFinds DEF ClientLine
<1>3. /\ SubSeq(s, ClientObject, ClientEnd - 1) = SubSeq(s, 1, 3)
      /\ SubSeq(s, ClientEnd + 1, Len(s)) = t
  <2>1. ClientEnd - 1 = 3 /\ ClientEnd + 1 = 5
    BY <1>2
  <2> QED
    BY <1>2, <2>1
<1>4. /\ got' = [got EXCEPT !["down"] = Append(@, Object(k + 1))]
      /\ buffer' = [buffer EXCEPT !["down"] = t]
      /\ start' = 1 /\ sent' = sent /\ wire' = wire /\ dropped' = dropped /\ connected' = connected
  BY <1>2, <1>3 DEF ClientLine
<1>5. /\ buffer'["down"] = t /\ buffer'["up"] = buffer["up"] /\ got'["up"] = got["up"]
      /\ got'["down"] = Append(got["down"], Object(k + 1))
  BY <1>1, <1>4 DEF TypeOK
<1>6. PICK r \in Nat : r = 4 * k + Len(s) /\ Stream("down", r)
  BY DEF IInv, DownInv
<1>7. \A i \in 1 .. Len(s) : Pos(s[i]) = 4 * k + i
  BY <1>1 DEF IInv, DownInv, Aligned
<1>8. \A i \in 1 .. k : got["down"][i] = Object(i)
  BY <1>1 DEF IInv, DownInv
<1>9. Object(k + 1) \in Seq(Bytes)
  BY <1>2, ObjectIs
<1> HIDE DEF s
<1>10. /\ t \in Seq(Bytes) /\ Len(t) = Len(s) - 5 + 1
       /\ \A i \in 1 .. Len(s) - 5 + 1 : t[i] = s[5 + i - 1]
  <2>1. 5 \in Nat /\ 1 <= 5 /\ 5 <= Len(s) + 1 /\ Len(s) <= Len(s)
    BY <1>1, <1>2
  <2> QED
    BY <1>1, <2>1, Cut
<1> HIDE DEF t
<1>11. TypeOK'
  BY <1>1, <1>4, <1>9, <1>10, LinesAssumption DEF TypeOK
<1>12. /\ Len(got'["down"]) = k + 1
       /\ \A i \in 1 .. k : got'["down"][i] = got["down"][i]
       /\ got'["down"][k + 1] = Object(k + 1)
       /\ DOMAIN got'["down"] = 1 .. k + 1
  BY <1>1, <1>5, <1>9, Added
<1> HIDE DEF k
<1>13. \A i \in DOMAIN got'["down"] : got'["down"][i] = Object(i)
  <2>1. \A i \in 1 .. k + 1 : i \in 1 .. k \/ i = k + 1
    BY <1>1
  <2> QED
    BY <1>8, <1>12, <2>1
<1>14. \A i \in DOMAIN t : Pos(t[i]) = 4 * (k + 1) + i
  <2>0. DOMAIN t = 1 .. Len(s) - 5 + 1
    BY <1>10
  <2> SUFFICES ASSUME NEW i \in 1 .. Len(s) - 5 + 1 PROVE Pos(t[i]) = 4 * (k + 1) + i
    BY <2>0
  <2>1. 5 + i - 1 \in 1 .. Len(s) /\ 4 * k + (5 + i - 1) = 4 * (k + 1) + i
    BY <1>1
  <2> QED
    BY <1>7, <1>10, <2>1
<1>15. r = 4 * (k + 1) + Len(t)
  <2>1. \A a, b \in Nat : 4 * a + b = 4 * (a + 1) + (b - 5 + 1)
    OBVIOUS
  <2>2. 4 * k + Len(s) = 4 * (k + 1) + (Len(s) - 5 + 1)
    BY <1>1, <2>1
  <2> QED
    BY <1>6, <1>10, <2>2
<1>16. Stream("down", r)'
  BY <1>4, <1>6 DEF Stream
<1>17. Aligned'
  BY <1>5, <1>12, <1>14 DEF Aligned
<1>18. r = 4 * Len(got'["down"]) + Len(buffer'["down"])
  BY <1>5, <1>12, <1>15
<1>19. DownInv'
  BY <1>4, <1>13, <1>16, <1>17, <1>18 DEF DownInv
<1>20. UpInv'
  BY <1>4, <1>5, UpStays DEF IInv
<1> QED
  BY <1>11, <1>19, <1>20 DEF IInv
-----------------------------------------------------------------------------
\* The server.

\* Lines it is done with stay as they are: what is skipped from now on lies
\* behind them.
LEMMA DispatchedStays ==
  ASSUME NEW r \in Nat, NEW c \in Nat, c <= MaxLines, 4 * c <= r, Dispatched(c), Accounted(c),
         got'["up"] = got["up"], dropped \subseteq dropped',
         \A b \in dropped' \ dropped : r < Pos(b)
  PROVE  Dispatched(c)' /\ Accounted(c)'
<1>1. Accounted(c)'
  BY DEF Accounted, LineOf
<1>2. \A i \in 1 .. c : Byte(i, "blank") \in dropped' => Byte(i, "blank") \in dropped
  <2> SUFFICES ASSUME NEW i \in 1 .. c, Byte(i, "blank") \in dropped' \ dropped PROVE FALSE
    OBVIOUS
  <2>1. i \in 1 .. MaxLines /\ i \in Nat /\ i <= c
    BY LinesAssumption
  <2>2. Pos(Byte(i, "blank")) = 4 * i - 2 /\ r < Pos(Byte(i, "blank"))
    BY <2>1, ByteIs
  <2> QED
    BY <2>1, <2>2
<1>3. Dispatched(c)'
  <2> SUFFICES ASSUME NEW k \in DOMAIN got["up"]
               PROVE  /\ LineOf(k)' \in 1 .. c
                      /\ got["up"][k] = Left("up", LineOf(k))'
                      /\ k > 1 => LineOf(k - 1)' < LineOf(k)'
    BY DEF Dispatched
  <2>1. /\ LineOf(k) \in 1 .. c
        /\ got["up"][k] = Left("up", LineOf(k))
        /\ k > 1 => LineOf(k - 1) < LineOf(k)
    BY DEF Dispatched
  <2>2. LineOf(k)' = LineOf(k) /\ LineOf(k - 1)' = LineOf(k - 1)
    BY DEF LineOf
  <2>3. PICK i \in 1 .. c : i = LineOf(k)
    BY <2>1
  <2>4. Left("up", i)' = Left("up", i)
    BY <1>2 DEF Left
  <2>5. got["up"][k] = Left("up", i)'
    BY <2>1, <2>3, <2>4
  <2>6. Left("up", LineOf(k))' = Left("up", i)'
    BY <2>2, <2>3
  <2> QED
    BY <2>1, <2>2, <2>5, <2>6
<1> QED
  BY <1>1, <1>3

LEMMA Bounds ==
  ASSUME TypeOK, NEW r \in Nat, NEW c \in Nat, Up(r, c)
  PROVE  c <= MaxLines /\ r <= 4 * sent["up"]
<1>1. /\ sent["up"] \in 0 .. MaxLines /\ Len(wire["up"]) \in Nat
      /\ r + Len(wire["up"]) <= 4 * sent["up"] /\ 4 * c <= r
  BY TypesOf DEF Ways, Up, Stream
<1> QED
  BY <1>1, LinesAssumption

LEMMA ServerReads == ASSUME IInv, ServerRead PROVE IInv'
<1> DEFINE s == buffer["up"]
<1>1. PICK n \in 1 .. Len(wire["up"]) :
        LET chunk == SubSeq(wire["up"], 1, n) IN
        /\ wire' = [wire EXCEPT !["up"] = SubSeq(@, n + 1, Len(@))]
        /\ IF White(chunk)
             THEN dropped' = dropped \cup ToSet(chunk) /\ UNCHANGED buffer
             ELSE buffer' = [buffer EXCEPT !["up"] = @ \o chunk] /\ UNCHANGED dropped
  BY DEF ServerRead
<1> DEFINE t == SubSeq(wire["up"], 1, n)
<1>2. /\ TypeOK /\ "down" \in Ways /\ "up" \in Ways
      /\ s \in Seq(Bytes) /\ Len(s) \in Nat /\ dropped \subseteq Bytes
      /\ wire["up"] \in Seq(Bytes) /\ Len(wire["up"]) \in Nat
      /\ n \in Nat /\ 1 <= n /\ n <= Len(wire["up"])
      /\ SubSeq(wire["up"], n + 1, Len(wire["up"])) \in Seq(Bytes)
  BY TypesOf DEF IInv, Ways, TypeOK
<1>3. /\ t \in Seq(Bytes) /\ Len(t) = n
      /\ \A i \in 1 .. n : t[i] = wire["up"][i]
  <2>1. /\ t \in Seq(Bytes) /\ Len(t) = n - 1 + 1
        /\ \A i \in 1 .. n - 1 + 1 : t[i] = wire["up"][1 + i - 1]
    BY <1>2, Cut
  <2>2. n - 1 + 1 = n /\ \A i \in 1 .. n : 1 + i - 1 = i
    BY <1>2
  <2> QED
    BY <2>1, <2>2
<1>4. /\ wire'["down"] = wire["down"] /\ buffer'["down"] = buffer["down"]
      /\ start' = start /\ sent' = sent /\ got' = got /\ connected' = connected
      /\ wire' = [wire EXCEPT !["up"] = SubSeq(@, n + 1, Len(@))]
  BY <1>1, <1>2 DEF ServerRead, TypeOK
<1>5. DownInv'
  BY <1>4, DownStays DEF IInv
<1>6. PICK r \in Nat, c \in Nat : Up(r, c)
  BY DEF IInv, UpInv
<1>7. /\ r + n \in Nat /\ Stream("up", r + n)'
      /\ \A i \in 1 .. n : t[i] \in Bytes /\ Pos(t[i]) = r + i
  <2>1. Stream("up", r)
    BY <1>6 DEF Up
  <2> QED
    BY <1>2, <1>3, <1>4, <2>1, Reading
<1>8. c <= MaxLines /\ 4 * c <= r /\ 4 * c <= r + n /\ r < r + n
  BY <1>2, <1>6, Bounds DEF Up
<1>9. /\ \A i \in 1 .. Len(s) : s[i] \in Bytes /\ 4 * c < Pos(s[i]) /\ Pos(s[i]) <= r
      /\ \A i, j \in 1 .. Len(s) : i < j => Pos(s[i]) < Pos(s[j])
      /\ \A i \in 1 .. Len(s) : s[i] \notin dropped
  BY <1>2, <1>6 DEF Up, Buffered
<1>10. \A b \in Bytes : r < Pos(b) /\ Pos(b) <= r + n => \E i \in 1 .. n : b = t[i]
  <2> SUFFICES ASSUME NEW b \in Bytes, r < Pos(b), Pos(b) <= r + n PROVE \E i \in 1 .. n : b = t[i]
    OBVIOUS
  <2>1. Pos(b) \in Nat
    BY Fields
  <2>2. Pos(b) - r \in 1 .. n /\ r + (Pos(b) - r) = Pos(b)
    BY <1>2, <2>1
  <2> QED
    BY <1>7, <2>2, SameByte
<1>11. CASE White(t)
  <2>1. dropped' = dropped \cup {t[i] : i \in 1 .. n} /\ buffer' = buffer
    <3>1. dropped' = dropped \cup ToSet(t) /\ buffer' = buffer
      BY <1>1, <1>11
    <3>2. ToSet(t) = {t[i] : i \in DOMAIN t}
      BY DEF ToSet
    <3>3. DOMAIN t = 1 .. n
      BY <1>3
    <3> HIDE DEF t
    <3> QED
      BY <3>1, <3>2, <3>3
  <2>2. TypeOK'
    BY <1>2, <1>4, <1>7, <2>1, LinesAssumption DEF TypeOK
  <2>3. \A b \in dropped' \ dropped : r < Pos(b) /\ Pos(b) <= r + n /\ b.char \in {"blank", "newline"}
    <3>1. \A i \in 1 .. n : r < r + i /\ r + i <= r + n
      BY <1>2
    <3>2. \A i \in 1 .. n : t[i].char \in {"blank", "newline"}
      BY <1>3, <1>11 DEF White
    <3> QED
      BY <1>7, <2>1, <3>1, <3>2
  <2>4. Dispatched(c)' /\ Accounted(c)'
    BY <1>4, <1>6, <1>8, <2>1, <2>3, DispatchedStays DEF Up
  <2>5. Skipped(r + n)'
    <3> SUFFICES ASSUME NEW b \in dropped' PROVE Pos(b) <= r + n /\ b.char \in {"blank", "newline"}
      BY DEF Skipped
    <3>1. CASE b \in dropped
      <4>1. Pos(b) <= r /\ b.char \in {"blank", "newline"} /\ Pos(b) \in Nat
        BY <1>2, <1>6, <3>1, Fields DEF Up, Skipped
      <4> QED
        BY <1>2, <4>1
    <3> QED
      BY <2>3, <3>1
  <2>6. Buffered(r + n, c)'
    <3>1. \A i \in 1 .. Len(s) : 4 * c < Pos(s[i]) /\ Pos(s[i]) <= r + n
      <4> SUFFICES ASSUME NEW i \in 1 .. Len(s) PROVE 4 * c < Pos(s[i]) /\ Pos(s[i]) <= r + n
        OBVIOUS
      <4>1. Pos(s[i]) \in Nat /\ 4 * c < Pos(s[i]) /\ Pos(s[i]) <= r
        BY <1>9, Fields
      <4> QED
        BY <1>2, <4>1
    <3>2. \A i \in 1 .. Len(s) : s[i] \notin dropped'
      <4> SUFFICES ASSUME NEW i \in 1 .. Len(s), s[i] \in dropped' PROVE FALSE
        OBVIOUS
      <4>1. r < Pos(s[i]) /\ Pos(s[i]) <= r /\ Pos(s[i]) \in Nat
        BY <1>9, <2>3, Fields
      <4> QED
        BY <4>1
    <3>3. DOMAIN s = 1 .. Len(s) /\ buffer'["up"] = s
      BY <1>2, <2>1
    <3> QED
      BY <1>9, <3>1, <3>2, <3>3 DEF Buffered
  <2>7. Complete(r + n, c)'
    <3> SUFFICES ASSUME NEW b \in Bytes, 4 * c < Pos(b), Pos(b) <= r + n
                 PROVE  b \in dropped' \/ \E i \in DOMAIN s : s[i] = b
      BY <2>1 DEF Complete
    <3>1. CASE Pos(b) <= r
      BY <1>6, <2>1, <3>1 DEF Up, Complete
    <3>2. CASE r < Pos(b)
      BY <1>10, <2>1, <3>2
    <3> QED
      BY <3>1, <3>2, Fields
  <2>8. Up(r + n, c)'
    BY <1>7, <1>8, <2>4, <2>5, <2>6, <2>7 DEF Up
  <2>9. UpInv'
    BY <1>7, <2>8 DEF UpInv
  <2> QED
    BY <1>5, <2>2, <2>9 DEF IInv
<1>12. CASE ~White(t)
  <2>1. /\ buffer' = [buffer EXCEPT !["up"] = s \o t] /\ dropped' = dropped
    BY <1>1, <1>12
  <2>2. buffer'["up"] = s \o t
    BY <1>2, <2>1 DEF TypeOK
  <2> HIDE DEF s, t
  <2>3. /\ s \o t \in Seq(Bytes) /\ Len(s \o t) = Len(s) + n
        /\ \A i \in 1 .. Len(s) : (s \o t)[i] = s[i]
        /\ \A i \in 1 .. n : (s \o t)[Len(s) + i] = t[i]
    <3>1. /\ s \o t \in Seq(Bytes) /\ Len(s \o t) = Len(s) + Len(t)
          /\ \A i \in 1 .. Len(s) : (s \o t)[i] = s[i]
          /\ \A i \in 1 .. Len(t) : (s \o t)[Len(s) + i] = t[i]
      BY <1>2, <1>3, Joined
    <3> QED
      BY <1>3, <3>1
  <2>4. TypeOK'
    BY <1>2, <1>4, <2>1, <2>3, LinesAssumption DEF TypeOK
  <2>5. Dispatched(c)' /\ Accounted(c)'
    BY <1>4, <1>6, <1>8, <2>1, DispatchedStays DEF Up
  <2>6. Skipped(r + n)'
    <3> SUFFICES ASSUME NEW b \in dropped PROVE Pos(b) <= r + n /\ b.char \in {"blank", "newline"}
      BY <2>1 DEF Skipped
    <3>1. Pos(b) <= r /\ b.char \in {"blank", "newline"} /\ Pos(b) \in Nat
      BY <1>2, <1>6, Fields DEF Up, Skipped
    <3> QED
      BY <1>2, <3>1
  <2>7. \A i \in 1 .. Len(s) + n :
          \/ i \in 1 .. Len(s) /\ (s \o t)[i] = s[i]
          \/ \E j \in 1 .. n : i = Len(s) + j /\ (s \o t)[i] = t[j]
    <3> SUFFICES ASSUME NEW i \in 1 .. Len(s) + n, i \notin 1 .. Len(s)
                 PROVE  \E j \in 1 .. n : i = Len(s) + j /\ (s \o t)[i] = t[j]
      BY <2>3
    <3>1. i - Len(s) \in 1 .. n /\ i = Len(s) + (i - Len(s))
      BY <1>2
    <3> QED
      BY <2>3, <3>1
  <2>8. Buffered(r + n, c)'
    <3>1. \A i \in 1 .. Len(s) + n : 4 * c < Pos((s \o t)[i]) /\ Pos((s \o t)[i]) <= r + n
      <4> SUFFICES ASSUME NEW i \in 1 .. Len(s) + n
                   PROVE  4 * c < Pos((s \o t)[i]) /\ Pos((s \o t)[i]) <= r + n
        OBVIOUS
      <4>1. CASE i \in 1 .. Len(s) /\ (s \o t)[i] = s[i]
        <5>1. Pos(s[i]) \in Nat /\ 4 * c < Pos(s[i]) /\ Pos(s[i]) <= r
          BY <1>9, <4>1, Fields
        <5>2. Pos(s[i]) <= r + n
          BY <1>2, <5>1
        <5> QED
          BY <4>1, <5>1, <5>2
      <4>2. ASSUME NEW j \in 1 .. n, i = Len(s) + j /\ (s \o t)[i] = t[j]
            PROVE  4 * c < Pos((s \o t)[i]) /\ Pos((s \o t)[i]) <= r + n
        <5>1. 4 * c < r + j /\ r + j <= r + n
          BY <1>2, <1>8
        <5> QED
          BY <1>7, <4>2, <5>1
      <4> QED
        BY <2>7, <4>1, <4>2
    <3>2. \A i, j \in 1 .. Len(s) + n : i < j => Pos((s \o t)[i]) < Pos((s \o t)[j])
      <4> SUFFICES ASSUME NEW i \in 1 .. Len(s) + n, NEW j \in 1 .. Len(s) + n, i < j
                   PROVE  Pos((s \o t)[i]) < Pos((s \o t)[j])
        OBVIOUS
      <4>1. CASE j \in 1 .. Len(s) /\ (s \o t)[j] = s[j]
        <5>1. i \in 1 .. Len(s)
          BY <1>2, <4>1
        <5> QED
          BY <1>9, <2>3, <4>1, <5>1
      <4>2. ASSUME NEW k \in 1 .. n, j = Len(s) + k /\ (s \o t)[j] = t[k]
            PROVE  Pos((s \o t)[i]) < Pos((s \o t)[j])
        <5>1. Pos((s \o t)[j]) = r + k
          BY <1>7, <4>2
        <5>2. CASE i \in 1 .. Len(s) /\ (s \o t)[i] = s[i]
          <6>1. Pos(s[i]) \in Nat /\ Pos(s[i]) <= r
            BY <1>9, <5>2, Fields
          <6>2. Pos(s[i]) < r + k
            BY <6>1
          <6> QED
            BY <5>1, <5>2, <6>2
        <5>3. ASSUME NEW l \in 1 .. n, i = Len(s) + l /\ (s \o t)[i] = t[l]
              PROVE  Pos((s \o t)[i]) < Pos((s \o t)[j])
          <6>1. Pos((s \o t)[i]) = r + l
            BY <1>7, <5>3
          <6>2. r + l < r + k
            BY <1>2, <4>2, <5>3
          <6> QED
            BY <5>1, <6>1, <6>2
        <5> QED
          BY <2>7, <5>2, <5>3
      <4> QED
        BY <2>7, <4>1, <4>2
    <3>3. \A i \in 1 .. Len(s) + n : (s \o t)[i] \notin dropped
      <4>1. \A j \in 1 .. n : t[j] \notin dropped
        <5> SUFFICES ASSUME NEW j \in 1 .. n, t[j] \in dropped PROVE FALSE
          OBVIOUS
        <5>1. r + j <= r
          BY <1>6, <1>7 DEF Up, Skipped
        <5> QED
          BY <5>1
      <4> QED
        BY <1>9, <2>7, <4>1
    <3>4. DOMAIN (s \o t) = 1 .. Len(s) + n
      BY <2>3
    <3> QED
      <4>1. \A i \in DOMAIN buffer'["up"] : 4 * c < Pos(buffer'["up"][i]) /\ Pos(buffer'["up"][i]) <= r + n
        BY <2>2, <3>1, <3>4
      <4>2. \A i, j \in DOMAIN buffer'["up"] : i < j => Pos(buffer'["up"][i]) < Pos(buffer'["up"][j])
        BY <2>2, <3>2, <3>4
      <4>3. \A i \in DOMAIN buffer'["up"] : buffer'["up"][i] \notin dropped'
        BY <2>1, <2>2, <3>3, <3>4
      <4> QED
        BY <4>1, <4>2, <4>3 DEF Buffered
  <2>9. Complete(r + n, c)'
    <3>0. \A i \in 1 .. Len(s) : i \in DOMAIN (s \o t)
      BY <1>2, <2>3
    <3>1. \A i \in 1 .. n : Len(s) + i \in DOMAIN (s \o t)
      <4>1. DOMAIN (s \o t) = 1 .. Len(s) + n
        BY <2>3
      <4> QED
        BY <1>2, <4>1
    <3> SUFFICES ASSUME NEW b \in Bytes, 4 * c < Pos(b), Pos(b) <= r + n
                 PROVE  b \in dropped \/ \E i \in DOMAIN (s \o t) : (s \o t)[i] = b
      BY <2>1, <2>2 DEF Complete
    <3>2. CASE Pos(b) <= r
      <4>1. b \in dropped \/ \E i \in 1 .. Len(s) : s[i] = b
        BY <1>2, <1>6, <3>2 DEF Up, Complete, s
      <4> QED
        BY <2>3, <3>0, <4>1
    <3>3. CASE r < Pos(b)
      BY <1>10, <2>3, <3>1, <3>3
    <3> QED
      BY <3>2, <3>3, Fields
  <2>10. Up(r + n, c)'
    BY <1>7, <1>8, <2>5, <2>6, <2>8, <2>9 DEF Up
  <2>11. UpInv'
    BY <1>7, <2>10 DEF UpInv
  <2> QED
    BY <1>5, <2>4, <2>11 DEF IInv
<1> QED
  BY <1>11, <1>12

\* The loop finds the newline of line j, in front of which is what was not
\* skipped of the lines behind c: the first byte of line c + 1 and the last of j.
Ahead(r, c, s, e, j) ==
  /\ TypeOK /\ Up(r, c)
  /\ s = buffer["up"] /\ e = Index(s, "newline", 1) /\ e # 0 /\ j = s[e].line

LEMMA InBuffer ==
  ASSUME NEW r \in Nat, NEW c \in Nat, NEW s, NEW e, NEW j, Ahead(r, c, s, e, j)
  PROVE  /\ s \in Seq(Bytes) /\ Len(s) \in Nat /\ c <= MaxLines
         /\ \A i \in 1 .. Len(s) : /\ s[i] \in Bytes /\ Pos(s[i]) \in Nat
                                  /\ 4 * c < Pos(s[i]) /\ s[i] \notin dropped
         /\ \A i, k \in 1 .. Len(s) : i < k => Pos(s[i]) < Pos(s[k])
         /\ \A b \in Bytes : 4 * c < Pos(b) /\ Pos(b) <= r =>
              b \in dropped \/ \E i \in 1 .. Len(s) : s[i] = b
<1>1. TypeOK /\ Up(r, c) /\ s = buffer["up"]
  BY DEF Ahead
<1>2. s \in Seq(Bytes) /\ Len(s) \in Nat /\ DOMAIN s = 1 .. Len(s)
  BY <1>1, TypesOf DEF Ways
<1>3. \A i \in 1 .. Len(s) : s[i] \in Bytes /\ Pos(s[i]) \in Nat
  BY <1>2, Fields
<1>4. c <= MaxLines
  BY <1>1, Bounds
<1>5. Buffered(r, c) /\ Complete(r, c)
  BY <1>1 DEF Up
<1>6. /\ \A i \in 1 .. Len(s) : 4 * c < Pos(s[i]) /\ s[i] \notin dropped
      /\ \A i, k \in 1 .. Len(s) : i < k => Pos(s[i]) < Pos(s[k])
  BY <1>1, <1>2, <1>5 DEF Buffered
<1>7. \A b \in Bytes : 4 * c < Pos(b) /\ Pos(b) <= r =>
        b \in dropped \/ \E i \in 1 .. Len(s) : s[i] = b
  BY <1>1, <1>2, <1>5 DEF Complete
<1> QED
  BY <1>2, <1>3, <1>4, <1>6, <1>7

LEMMA EndIs ==
  ASSUME NEW r \in Nat, NEW c \in Nat, NEW s, NEW e, NEW j, Ahead(r, c, s, e, j)
  PROVE  /\ e \in 1 .. Len(s) /\ j \in c + 1 .. MaxLines /\ 4 * j <= r
         /\ s[e].char = "newline" /\ Pos(s[e]) = 4 * j
         /\ \A i \in 1 .. e - 1 : s[i].char # "newline"
<1>1. s \in Seq(Bytes) /\ Len(s) \in Nat /\ e = Index(s, "newline", 1) /\ e # 0 /\ j = s[e].line
  BY InBuffer DEF Ahead
<1>2. /\ e \in 1 .. Len(s) /\ s[e].char = "newline"
      /\ \A i \in 1 .. Len(s) : i >= 1 /\ s[i].char = "newline" => e <= i
  BY <1>1, Found
<1>3. \A i \in 1 .. e - 1 : s[i].char # "newline"
  <2> SUFFICES ASSUME NEW i \in 1 .. e - 1, s[i].char = "newline" PROVE FALSE
    OBVIOUS
  <2>1. i \in 1 .. Len(s) /\ i >= 1 /\ ~(e <= i)
    BY <1>1, <1>2
  <2> QED
    BY <1>2, <2>1
<1>4. s[e] \in Bytes /\ 4 * c < Pos(s[e])
  BY <1>2, InBuffer
<1>5. Pos(s[e]) = 4 * j /\ j \in 1 .. MaxLines /\ j \in Nat
  BY <1>1, <1>2, <1>4, NewlineIs, Fields
<1>6. Pos(s[e]) <= r
  BY <1>1, <1>2 DEF Ahead, Up, Buffered
<1>7. c + 1 <= j
  BY <1>4, <1>5
<1> QED
  BY <1>2, <1>3, <1>5, <1>6, <1>7, LinesAssumption

\* What lies in front of the newline, as far as it was not skipped.
LEMMA InFront ==
  ASSUME NEW r \in Nat, NEW c \in Nat, NEW s, NEW e, NEW j, Ahead(r, c, s, e, j),
         NEW b \in Bytes, 4 * c < Pos(b), Pos(b) < 4 * j, b \notin dropped
  PROVE  \E i \in 1 .. e - 1 : s[i] = b
<1>1. Pos(b) \in Nat /\ Pos(b) <= r /\ e \in 1 .. Len(s) /\ Pos(s[e]) = 4 * j /\ Len(s) \in Nat
  <2>1. Pos(b) \in Nat /\ 4 * j <= r /\ j \in c + 1 .. MaxLines /\ Len(s) \in Nat
        /\ e \in 1 .. Len(s) /\ Pos(s[e]) = 4 * j
    BY Fields, EndIs, InBuffer
  <2>2. Pos(b) <= r
    BY <2>1, LinesAssumption
  <2> QED
    BY <2>1, <2>2
<1>2. PICK i \in 1 .. Len(s) : s[i] = b
  BY <1>1, InBuffer
<1>3. ~(e < i)
  <2> SUFFICES ASSUME e < i PROVE FALSE
    OBVIOUS
  <2>1. Pos(s[e]) < Pos(s[i])
    BY <1>1, <1>2, InBuffer
  <2>2. Pos(s[e]) < Pos(b)
    BY <1>2, <2>1
  <2>3. j \in Nat
    BY EndIs, LinesAssumption
  <2> QED
    BY <1>1, <2>2, <2>3
<1>4. i # e
  BY <1>1, <1>2, EndIs, LinesAssumption
<1> QED
  BY <1>1, <1>2, <1>3, <1>4

LEMMA NotSkipped ==
  ASSUME NEW r \in Nat, NEW c \in Nat, Up(r, c), NEW i \in 1 .. MaxLines
  PROVE  Byte(i, "open") \notin dropped /\ Byte(i, "close") \notin dropped
BY ByteIs DEF Up, Skipped

LEMMA EndsOf ==
  ASSUME NEW r \in Nat, NEW c \in Nat, NEW s, NEW e, NEW j, Ahead(r, c, s, e, j)
  PROVE  /\ e >= 3 /\ c + 1 \in 1 .. MaxLines
         /\ s[1] = Byte(c + 1, "open") /\ s[e - 1] = Byte(j, "close")
<1>1. /\ c + 1 \in 1 .. MaxLines /\ j \in 1 .. MaxLines /\ j \in Nat /\ c + 1 <= j
      /\ e \in 1 .. Len(s) /\ Len(s) \in Nat /\ Pos(s[e]) = 4 * j
  BY EndIs, InBuffer, LinesAssumption
<1>2. Up(r, c)
  BY DEF Ahead
<1> DEFINE first == Byte(c + 1, "open")
           last == Byte(j, "close")
<1>3. /\ first \in Bytes /\ Pos(first) = 4 * (c + 1) - 3 /\ first \notin dropped
      /\ last \in Bytes /\ Pos(last) = 4 * j - 1 /\ last \notin dropped
  BY <1>1, <1>2, ByteIs, NotSkipped
<1> HIDE DEF first, last
<1>4. /\ 4 * c < Pos(first) /\ Pos(first) < 4 * j
      /\ 4 * c < Pos(last) /\ Pos(last) < 4 * j
      /\ Pos(first) < Pos(last)
  BY <1>1, <1>3
<1>5. PICK f \in 1 .. e - 1 : s[f] = first
  BY <1>3, <1>4, InFront
<1>6. PICK l \in 1 .. e - 1 : s[l] = last
  BY <1>3, <1>4, InFront
<1>7. f = 1
  <2> SUFFICES ASSUME f > 1 PROVE FALSE
    BY <1>1
  <2>1. 1 \in 1 .. Len(s) /\ f \in 1 .. Len(s)
    BY <1>1
  <2>2. Pos(s[1]) < Pos(first) /\ 4 * c < Pos(s[1]) /\ Pos(s[1]) \in Nat
    BY <1>5, <2>1, InBuffer
  <2> QED
    BY <1>3, <2>2
<1>8. l = e - 1
  <2> SUFFICES ASSUME l < e - 1 PROVE FALSE
    BY <1>1
  <2>1. e - 1 \in 1 .. Len(s) /\ l \in 1 .. Len(s) /\ e - 1 < e
    BY <1>1
  <2>2. Pos(last) < Pos(s[e - 1]) /\ Pos(s[e - 1]) < Pos(s[e]) /\ Pos(s[e - 1]) \in Nat
    BY <1>1, <1>6, <2>1, InBuffer
  <2> QED
    BY <1>1, <1>3, <2>2
<1>9. f < l
  <2> SUFFICES ASSUME l <= f PROVE FALSE
    BY <1>1
  <2>1. l \in 1 .. Len(s) /\ f \in 1 .. Len(s) /\ (l = f \/ l < f)
    BY <1>1
  <2>2. CASE l = f
    BY <1>3, <1>4, <1>5, <1>6, <2>2, Fields
  <2>3. CASE l < f
    <3>1. Pos(last) < Pos(first) /\ Pos(last) \in Nat /\ Pos(first) \in Nat
      BY <1>3, <1>5, <1>6, <2>1, <2>3, InBuffer, Fields
    <3> QED
      BY <1>4, <3>1
  <2> QED
    BY <2>1, <2>2, <2>3
<1>10. e >= 3
  BY <1>1, <1>7, <1>8, <1>9
<1> QED
  BY <1>1, <1>5, <1>6, <1>7, <1>8, <1>10 DEF first, last

\* If j is the next line, it is dispatched, whole but for what was skipped.
LEMMA NextLine ==
  ASSUME NEW r \in Nat, NEW c \in Nat, NEW s, NEW e, NEW j, Ahead(r, c, s, e, j), j = c + 1
  PROVE  LET data == SubSeq(s, 1, e - 1) IN
         /\ data \in Seq(Bytes) /\ IsObject(data)
         /\ data = Left("up", j) /\ data[1].line = j
<1> DEFINE data == SubSeq(s, 1, e - 1)
           blank == Byte(j, "blank")
<1>1. /\ j \in 1 .. MaxLines /\ j \in Nat
      /\ e \in 1 .. Len(s) /\ Len(s) \in Nat /\ e >= 3 /\ s \in Seq(Bytes)
      /\ s[1] = Byte(j, "open") /\ s[e - 1] = Byte(j, "close")
  BY EndIs, EndsOf, InBuffer, LinesAssumption
<1>2. /\ data \in Seq(Bytes) /\ Len(data) = e - 1 /\ Len(data) \in Nat
      /\ \A i \in 1 .. e - 1 : data[i] = s[i]
  BY <1>1
<1>3. blank \in Bytes /\ Pos(blank) = 4 * j - 2 /\ blank.char = "blank"
  BY <1>1, ByteIs
<1> HIDE DEF data, blank
\* There is room for the blank only.
<1>4. \A i \in 2 .. e - 2 : s[i] = blank
  <2> SUFFICES ASSUME NEW i \in 2 .. e - 2 PROVE s[i] = blank
    OBVIOUS
  <2>1. i \in 1 .. Len(s) /\ 1 \in 1 .. Len(s) /\ e - 1 \in 1 .. Len(s) /\ 1 < i /\ i < e - 1
    BY <1>1
  <2>2. Pos(s[1]) < Pos(s[i]) /\ Pos(s[i]) < Pos(s[e - 1]) /\ s[i] \in Bytes /\ Pos(s[i]) \in Nat
    BY <2>1, InBuffer
  <2>3. Pos(s[1]) = 4 * j - 3 /\ Pos(s[e - 1]) = 4 * j - 1
    BY <1>1, ByteIs
  <2>4. Pos(s[i]) = 4 * j - 2
    BY <1>1, <2>2, <2>3
  <2> QED
    BY <1>3, <2>2, <2>4, SameByte
<1>5. e <= 4
  <2> SUFFICES ASSUME e > 4 PROVE FALSE
    BY <1>1
  <2>1. s[2] = blank /\ s[3] = blank /\ 2 \in 1 .. Len(s) /\ 3 \in 1 .. Len(s)
    BY <1>1, <1>4
  <2>2. Pos(blank) < Pos(blank)
    <3>1. Pos(s[2]) < Pos(s[3])
      BY <2>1, InBuffer
    <3> QED
      BY <2>1, <3>1
  <2> QED
    BY <1>1, <1>3, <2>2
<1>6. data[1] = Byte(j, "open") /\ data[e - 1] = Byte(j, "close")
  BY <1>1, <1>2
<1>7. IsObject(data)
  <2>1. data[1].char = "open" /\ data[e - 1].char = "close" /\ Len(data) >= 2
    BY <1>1, <1>2, <1>6, ByteIs
  <2>2. \A i \in 2 .. Len(data) - 1 : data[i].char = "blank"
    <3>1. \A i \in 2 .. Len(data) - 1 : i \in 2 .. e - 2 /\ i \in 1 .. e - 1
      BY <1>1, <1>2
    <3> QED
      BY <1>2, <1>3, <1>4, <3>1
  <2> QED
    BY <1>2, <2>1, <2>2 DEF IsObject, Last
<1>8. data[1].line = j
  BY <1>1, <1>6, ByteIs
<1>9. CASE blank \in dropped
  <2>1. e = 3
    <3> SUFFICES ASSUME e = 4 PROVE FALSE
      BY <1>1, <1>5
    <3>1. s[2] = blank /\ 2 \in 1 .. Len(s)
      BY <1>1, <1>4
    <3> QED
      BY <1>9, <3>1, InBuffer
  <2>2. Left("up", j) = <<Byte(j, "open"), Byte(j, "close")>>
    BY <1>9 DEF Left, blank
  <2>3. data = <<Byte(j, "open"), Byte(j, "close")>>
    <3> DEFINE a == Byte(j, "open")
               b == Byte(j, "close")
    <3>1. Len(data) = 2 /\ data[1] = a /\ data[2] = b
      BY <1>2, <1>6, <2>1
    <3>2. a \in Bytes /\ b \in Bytes
      BY <1>1, ByteIs
    <3> HIDE DEF a, b
    <3>3. /\ <<a, b>> \in Seq(Bytes) /\ Len(<<a, b>>) = 2
          /\ <<a, b>>[1] = a /\ <<a, b>>[2] = b
      BY <3>2
    <3>4. PICK u : u = <<a, b>>
      OBVIOUS
    <3>5. \A i \in 1 .. 2 : i = 1 \/ i = 2
      OBVIOUS
    <3>6. u \in Seq(Bytes) /\ Len(u) = 2 /\ \A i \in 1 .. 2 : data[i] = u[i]
      BY <3>1, <3>3, <3>4, <3>5
    <3>7. data = u
      BY <1>2, <3>1, <3>6
    <3> QED
      BY <3>4, <3>7 DEF a, b
  <2> QED
    BY <1>2, <1>7, <1>8, <2>2, <2>3 DEF data
<1>10. CASE blank \notin dropped
  <2>1. \E i \in 1 .. e - 1 : s[i] = blank
    <3>1. 4 * c < 4 * j - 2 /\ 4 * j - 2 < 4 * j
      BY <1>1
    <3> QED
      BY <1>3, <1>10, <3>1, InFront
  <2>2. PICK i \in 1 .. e - 1 : s[i] = blank
    BY <2>1
  <2>3. i # 1 /\ i # e - 1
    <3>1. blank.char # "open" /\ blank.char # "close"
      BY <1>3
    <3>2. s[1].char = "open" /\ s[e - 1].char = "close"
      BY <1>1, ByteIs
    <3> QED
      BY <2>2, <3>1, <3>2
  <2>4. e = 4 /\ i = 2
    BY <1>1, <1>5, <2>2, <2>3
  <2>5. Len(data) = 3 /\ data[1] = Byte(j, "open") /\ data[2] = Byte(j, "blank") /\ data[3] = Byte(j, "close")
    <3>1. 2 \in 1 .. e - 1 /\ e - 1 = 3
      BY <2>4
    <3> QED
      BY <1>2, <1>6, <2>2, <2>4, <3>1 DEF blank
  <2>6. data = Object(j)
    BY <1>1, <1>2, <2>5, SameObject
  <2>7. Left("up", j) = Object(j)
    BY <1>10 DEF Left, blank
  <2> QED
    BY <1>2, <1>7, <1>8, <2>6, <2>7 DEF data
<1> QED
  BY <1>9, <1>10

\* If lines before j lost their newlines, nothing is dispatched.
LEMMA SpoiltLine ==
  ASSUME NEW r \in Nat, NEW c \in Nat, NEW s, NEW e, NEW j, Ahead(r, c, s, e, j), j # c + 1
  PROVE  /\ ~IsObject(SubSeq(s, 1, e - 1))
         /\ \A i \in c + 1 .. j - 1 : Byte(i, "newline") \in dropped
<1> DEFINE data == SubSeq(s, 1, e - 1)
           inner == Byte(c + 1, "close")
<1>1. /\ j \in c + 2 .. MaxLines /\ j \in Nat /\ c + 1 \in 1 .. MaxLines
      /\ e \in 1 .. Len(s) /\ Len(s) \in Nat /\ e >= 3 /\ s \in Seq(Bytes)
      /\ s[1] = Byte(c + 1, "open") /\ s[e - 1] = Byte(j, "close")
  BY EndIs, EndsOf, InBuffer, LinesAssumption
<1>2. /\ data \in Seq(Bytes) /\ Len(data) = e - 1 /\ Len(data) \in Nat
      /\ \A i \in 1 .. e - 1 : data[i] = s[i]
  BY <1>1
<1>3. Up(r, c)
  BY DEF Ahead
<1>4. /\ inner \in Bytes /\ Pos(inner) = 4 * (c + 1) - 1 /\ inner.char = "close"
      /\ inner.line = c + 1 /\ inner \notin dropped
  BY <1>1, <1>3, ByteIs, NotSkipped
<1> HIDE DEF data, inner
<1>5. PICK i \in 1 .. e - 1 : s[i] = inner
  <2>1. 4 * c < Pos(inner) /\ Pos(inner) < 4 * j
    BY <1>1, <1>4
  <2> QED
    BY <1>4, <2>1, InFront
<1>6. i # 1 /\ i # e - 1
  <2>1. s[1].char = "open" /\ s[e - 1].line = j /\ c + 1 # j
    <3>1. j \in 1 .. MaxLines /\ c + 1 # j
      BY <1>1
    <3> QED
      BY <1>1, <3>1, ByteIs
  <2> QED
    BY <1>4, <1>5, <2>1
<1>7. ~IsObject(data)
  <2>1. i \in 2 .. Len(data) - 1
    BY <1>1, <1>2, <1>6
  <2>2. data[i].char = "close"
    BY <1>2, <1>4, <1>5
  <2> QED
    BY <2>1, <2>2 DEF IsObject
<1>8. \A k \in c + 1 .. j - 1 : Byte(k, "newline") \in dropped
  <2> SUFFICES ASSUME NEW k \in c + 1 .. j - 1, Byte(k, "newline") \notin dropped PROVE FALSE
    OBVIOUS
  <2>1. k \in 1 .. MaxLines /\ k \in Nat
    BY <1>1, LinesAssumption
  <2>2. Byte(k, "newline") \in Bytes /\ Pos(Byte(k, "newline")) = 4 * k /\ Byte(k, "newline").char = "newline"
    BY <2>1, ByteIs
  <2>3. 4 * c < 4 * k /\ 4 * k < 4 * j
    BY <1>1, <2>1
  <2>4. \E l \in 1 .. e - 1 : s[l] = Byte(k, "newline")
    BY <2>2, <2>3, InFront
  <2>5. PICK l \in 1 .. e - 1 : s[l] = Byte(k, "newline")
    BY <2>4
  <2>6. s[l].char # "newline"
    BY EndIs
  <2>7. s[l].char = "newline"
    BY <2>2, <2>5
  <2> QED
    BY <2>6, <2>7
<1> QED
  BY <1>7, <1>8 DEF data

LEMMA ServerTakes == ASSUME IInv, ServerLine PROVE IInv'
<1> DEFINE s == buffer["up"]
           e == Index(s, "newline", 1)
           j == s[e].line
           t == SubSeq(s, e + 1, Len(s))
           data == SubSeq(s, 1, e - 1)
<1>1. /\ TypeOK /\ "down" \in Ways /\ "up" \in Ways /\ e # 0
      /\ s \in Seq(Bytes) /\ Len(s) \in Nat /\ got["up"] \in Seq(Seq(Bytes))
  BY TypesOf DEF IInv, Ways, ServerLine, ServerDone
<1>2. /\ buffer' = [buffer EXCEPT !["up"] = t]
      /\ got' = IF IsObject(data) THEN [got EXCEPT !["up"] = Append(@, data)] ELSE got
      /\ sent' = sent /\ wire' = wire /\ start' = start /\ dropped' = dropped /\ connected' = connected
  BY DEF ServerLine
<1>3. /\ buffer'["up"] = t /\ buffer'["down"] = buffer["down"] /\ got'["down"] = got["down"]
  BY <1>1, <1>2 DEF TypeOK
<1>4. PICK r \in Nat, c \in Nat : Up(r, c)
  BY DEF IInv, UpInv
<1>5. Ahead(r, c, s, e, j)
  BY <1>1, <1>4 DEF Ahead
<1>6. DownInv'
  BY <1>2, <1>3, DownStays DEF IInv
<1>7. PICK z : z = s
  OBVIOUS
<1>8. PICK n : n = e
  OBVIOUS
<1>9. PICK l : l = j
  OBVIOUS
<1>10. Ahead(r, c, z, n, l) /\ t = SubSeq(z, n + 1, Len(z)) /\ data = SubSeq(z, 1, n - 1)
  BY <1>5, <1>7, <1>8, <1>9
<1> HIDE DEF s, e, j, t, data
<1>11. /\ z \in Seq(Bytes) /\ Len(z) \in Nat /\ n \in 1 .. Len(z) /\ Pos(z[n]) = 4 * l
       /\ l \in c + 1 .. MaxLines /\ l \in Nat /\ 4 * l <= r
  BY <1>10, EndIs, InBuffer, LinesAssumption
<1>12. /\ t \in Seq(Bytes) /\ Len(t) = Len(z) - n /\ DOMAIN t = 1 .. Len(z) - n
       /\ \A i \in 1 .. Len(z) - n : t[i] = z[n + i] /\ n + i \in 1 .. Len(z) /\ n < n + i
  <2>1. /\ t \in Seq(Bytes) /\ Len(t) = Len(z) - (n + 1) + 1
        /\ \A i \in 1 .. Len(z) - (n + 1) + 1 : t[i] = z[n + 1 + i - 1]
    <3>1. n + 1 \in Nat /\ 1 <= n + 1 /\ n + 1 <= Len(z) + 1 /\ Len(z) <= Len(z)
      BY <1>11
    <3> QED
      BY <1>10, <1>11, <3>1, Cut
  <2>2. Len(z) - (n + 1) + 1 = Len(z) - n
    BY <1>11
  <2>3. \A i \in 1 .. Len(z) - n : n + 1 + i - 1 = n + i /\ n + i \in 1 .. Len(z) /\ n < n + i
    BY <1>11
  <2>4. DOMAIN t = 1 .. Len(t)
    BY <2>1
  <2> QED
    BY <2>1, <2>2, <2>3, <2>4
<1>13. Stream("up", r)'
  BY <1>2, <1>4 DEF Up, Stream
<1>14. Skipped(r)'
  BY <1>2, <1>4 DEF Up, Skipped
<1>15. Buffered(r, l)'
  <2>1. \A i \in 1 .. Len(z) - n : 4 * l < Pos(t[i]) /\ t[i] \notin dropped
    <3> SUFFICES ASSUME NEW i \in 1 .. Len(z) - n PROVE 4 * l < Pos(t[i]) /\ t[i] \notin dropped
      OBVIOUS
    <3>1. t[i] = z[n + i] /\ n + i \in 1 .. Len(z) /\ n < n + i
      BY <1>12
    <3>2. z[n + i] \notin dropped /\ Pos(z[n]) < Pos(z[n + i])
      BY <1>10, <1>11, <3>1, InBuffer
    <3> QED
      BY <1>11, <3>1, <3>2
  <2>2. \A i \in 1 .. Len(z) - n : Pos(t[i]) <= r
    <3>1. \A i \in 1 .. Len(z) : Pos(z[i]) <= r
      BY <1>4, <1>7, <1>11 DEF Up, Buffered, s
    <3> QED
      BY <1>12, <3>1
  <2>3. \A i, k \in 1 .. Len(z) - n : i < k => Pos(t[i]) < Pos(t[k])
    <3> SUFFICES ASSUME NEW i \in 1 .. Len(z) - n, NEW k \in 1 .. Len(z) - n, i < k
                 PROVE  Pos(t[i]) < Pos(t[k])
      OBVIOUS
    <3>1. n + i < n + k
      BY <1>11
    <3>2. /\ t[i] = z[n + i] /\ t[k] = z[n + k]
          /\ n + i \in 1 .. Len(z) /\ n + k \in 1 .. Len(z)
      BY <1>12
    <3>3. Pos(z[n + i]) < Pos(z[n + k])
      BY <1>10, <3>1, <3>2, InBuffer
    <3> QED
      BY <3>2, <3>3
  <2>4. \A i \in DOMAIN buffer'["up"] : 4 * l < Pos(buffer'["up"][i]) /\ Pos(buffer'["up"][i]) <= r
    BY <1>3, <1>12, <2>1, <2>2
  <2>5. \A i, k \in DOMAIN buffer'["up"] : i < k => Pos(buffer'["up"][i]) < Pos(buffer'["up"][k])
    BY <1>3, <1>12, <2>3
  <2>6. \A i \in DOMAIN buffer'["up"] : buffer'["up"][i] \notin dropped'
    BY <1>2, <1>3, <1>12, <2>1
  <2> QED
    BY <2>4, <2>5, <2>6 DEF Buffered
<1>16. Complete(r, l)'
  <2> SUFFICES ASSUME NEW b \in Bytes, 4 * l < Pos(b), Pos(b) <= r, b \notin dropped
               PROVE  \E i \in DOMAIN t : t[i] = b
    BY <1>2, <1>3 DEF Complete
  <2>1. Pos(b) \in Nat /\ 4 * c < Pos(b)
    <3>1. Pos(b) \in Nat
      BY Fields
    <3> QED
      BY <1>11, <3>1
  <2>2. PICK k \in 1 .. Len(z) : z[k] = b
    BY <1>10, <2>1, InBuffer
  <2>3. n < k
    <3> SUFFICES ASSUME ~(n < k) PROVE FALSE
      OBVIOUS
    <3>1. k = n \/ k < n
      BY <1>11
    <3>2. k # n
      BY <1>11, <2>1, <2>2
    <3>3. Pos(z[k]) < Pos(z[n])
      BY <1>10, <1>11, <3>1, <3>2, InBuffer
    <3>4. Pos(b) < 4 * l
      BY <1>11, <2>2, <3>3
    <3> QED
      BY <1>11, <2>1, <3>4
  <2>4. k - n \in 1 .. Len(z) - n /\ n + (k - n) = k
    BY <1>11, <2>3
  <2> QED
    BY <1>12, <2>2, <2>4
<1>17. \A i \in 1 .. c : i \in 1 .. l
  BY <1>11
<1>18. CASE l = c + 1
  <2>1. IsObject(data) /\ data \in Seq(Bytes) /\ data = Left("up", l) /\ data[1].line = l
    BY <1>10, <1>18, NextLine
  <2>2. got' = [got EXCEPT !["up"] = Append(@, data)] /\ got'["up"] = Append(got["up"], data)
    BY <1>1, <1>2, <2>1 DEF TypeOK
  <2>3. TypeOK'
    BY <1>1, <1>2, <1>12, <2>1, <2>2, LinesAssumption DEF TypeOK
  <2>0. PICK m : m = Len(got["up"])
    OBVIOUS
  <2>4. /\ m \in Nat /\ DOMAIN got'["up"] = 1 .. m + 1 /\ DOMAIN got["up"] = 1 .. m
        /\ \A k \in 1 .. m : got'["up"][k] = got["up"][k]
        /\ got'["up"][m + 1] = data
    BY <1>1, <2>0, <2>1, <2>2, Added
  <2>5. /\ \A k \in 1 .. m : LineOf(k)' = LineOf(k) /\ LineOf(k) \in 1 .. c
        /\ LineOf(m + 1)' = l
    BY <1>4, <2>1, <2>4 DEF LineOf, Up, Dispatched
  <2>6. \A i : Left("up", i)' = Left("up", i)
    BY <1>2 DEF Left
  <2>7. Dispatched(l)'
    <3> SUFFICES ASSUME NEW k \in 1 .. m + 1
                 PROVE  /\ LineOf(k)' \in 1 .. l
                        /\ got'["up"][k] = Left("up", LineOf(k))'
                        /\ k > 1 => LineOf(k - 1)' < LineOf(k)'
      BY <2>4 DEF Dispatched
    <3>1. CASE k \in 1 .. m
      <4>1. /\ LineOf(k) \in 1 .. c
            /\ got["up"][k] = Left("up", LineOf(k))
            /\ k > 1 => LineOf(k - 1) < LineOf(k)
        BY <1>4, <2>4, <3>1 DEF Up, Dispatched
      <4>2. PICK i \in 1 .. c : i = LineOf(k)
        BY <4>1
      <4>3. LineOf(k)' = i /\ Left("up", LineOf(k))' = Left("up", i)'
        BY <2>5, <3>1, <4>2
      <4>4. got'["up"][k] = Left("up", LineOf(k))'
        BY <2>4, <2>6, <3>1, <4>1, <4>2, <4>3
      <4>5. k > 1 => k - 1 \in 1 .. m
        BY <2>4, <3>1
      <4> QED
        BY <1>17, <2>5, <3>1, <4>1, <4>2, <4>3, <4>4, <4>5
    <3>2. CASE k = m + 1
      <4>1. Left("up", LineOf(k))' = Left("up", l)'
        BY <2>5, <3>2
      <4>2. got'["up"][k] = Left("up", LineOf(k))'
        BY <2>1, <2>4, <2>6, <3>2, <4>1
      <4>3. k > 1 => LineOf(k - 1)' < l
        <5> SUFFICES ASSUME k > 1 PROVE LineOf(k - 1)' < l
          OBVIOUS
        <5>1. k - 1 \in 1 .. m
          BY <2>4, <3>2
        <5>2. LineOf(k - 1)' \in 1 .. c
          BY <2>5, <5>1
        <5> QED
          BY <1>11, <5>2
      <4>4. l \in 1 .. l
        BY <1>11
      <4> QED
        BY <2>5, <3>2, <4>2, <4>3, <4>4
    <3> QED
      BY <2>4, <3>1, <3>2
  <2>8. Accounted(l)'
    <3> SUFFICES ASSUME NEW i \in 1 .. l
                 PROVE  \/ \E k \in 1 .. m + 1 : LineOf(k)' = i
                        \/ Byte(i, "newline") \in dropped
                        \/ i > 1 /\ Byte(i - 1, "newline") \in dropped
      BY <1>2, <2>4 DEF Accounted
    <3>1. CASE i = l
      <4>1. m + 1 \in 1 .. m + 1
        BY <2>4
      <4> QED
        BY <2>5, <3>1, <4>1
    <3>2. CASE i \in 1 .. c
      <4>1. \A k \in 1 .. m : k \in 1 .. m + 1
        BY <2>4
      <4>2. \/ \E k \in 1 .. m : LineOf(k) = i
            \/ Byte(i, "newline") \in dropped
            \/ i > 1 /\ Byte(i - 1, "newline") \in dropped
        BY <1>4, <2>4, <3>2 DEF Up, Accounted
      <4> QED
        BY <2>5, <4>1, <4>2
    <3> QED
      BY <1>11, <1>18, <3>1, <3>2
  <2>9. Up(r, l)'
    BY <1>11, <1>13, <1>14, <1>15, <1>16, <2>7, <2>8 DEF Up
  <2>10. UpInv'
    BY <1>11, <2>9 DEF UpInv
  <2> QED
    BY <1>6, <2>3, <2>10 DEF IInv
<1>19. CASE l # c + 1
  <2>1. ~IsObject(data) /\ \A i \in c + 1 .. l - 1 : Byte(i, "newline") \in dropped
    BY <1>10, <1>19, SpoiltLine
  <2>2. got' = got
    BY <1>2, <2>1
  <2>3. TypeOK'
    BY <1>1, <1>2, <1>12, <2>2, LinesAssumption DEF TypeOK
  <2>4. c <= MaxLines
    BY <1>10, InBuffer
  <2>5. Dispatched(l)'
    <3>1. Dispatched(c)
      BY <1>4 DEF Up
    <3>2. Dispatched(l)
      BY <1>17, <3>1 DEF Dispatched
    <3> QED
      BY <1>2, <2>2, <3>2 DEF Dispatched, LineOf, Left
  <2>6. Accounted(l)
    <3> SUFFICES ASSUME NEW i \in 1 .. l
                 PROVE  \/ \E k \in DOMAIN got["up"] : LineOf(k) = i
                        \/ Byte(i, "newline") \in dropped
                        \/ i > 1 /\ Byte(i - 1, "newline") \in dropped
      BY DEF Accounted
    <3>1. CASE i \in 1 .. c
      BY <1>4, <3>1 DEF Up, Accounted
    <3>2. CASE i \in c + 1 .. l - 1
      BY <2>1, <3>2
    <3>3. CASE i = l
      <4>1. i - 1 \in c + 1 .. l - 1 /\ i > 1
        BY <1>11, <1>19, <3>3
      <4> QED
        BY <2>1, <4>1
    <3> QED
      BY <1>11, <3>1, <3>2, <3>3
  <2>7. Accounted(l)'
    BY <1>2, <2>2, <2>6 DEF Accounted, LineOf
  <2>8. Up(r, l)'
    BY <1>11, <1>13, <1>14, <1>15, <1>16, <2>5, <2>7 DEF Up
  <2>9. UpInv'
    BY <1>11, <2>8 DEF UpInv
  <2> QED
    BY <1>6, <2>3, <2>9 DEF IInv
<1> QED
  BY <1>18, <1>19
-----------------------------------------------------------------------------
\* Both ways.

LEMMA Sends == ASSUME IInv, NEW w \in Ways, Send(w) PROVE IInv'
<1>1. /\ TypeOK /\ w \in {"up", "down"} /\ "up" \in Ways /\ "down" \in Ways
      /\ buffer' = buffer /\ start' = start /\ got' = got /\ dropped' = dropped /\ connected' = connected
      /\ sent' = [sent EXCEPT ![w] = @ + 1]
      /\ wire' = [wire EXCEPT ![w] = @ \o Line(sent[w] + 1)]
      /\ sent[w] + 1 \in 1 .. MaxLines
  BY TypesOf, LinesAssumption DEF IInv, Send, Ways
<1>2. wire[w] \o Line(sent[w] + 1) \in Seq(Bytes)
  BY <1>1, LineIs, TypesOf, Joined
<1>3. TypeOK'
  <2>1. sent[w] + 1 \in 0 .. MaxLines
    BY <1>1, LinesAssumption
  <2>2. sent' \in [Ways -> 0 .. MaxLines]
    BY <1>1, <2>1 DEF TypeOK
  <2>3. wire' \in [Ways -> Seq(Bytes)]
    BY <1>1, <1>2 DEF TypeOK
  <2> QED
    BY <1>1, <2>2, <2>3 DEF TypeOK
<1>4. DownInv'
  <2>1. CASE w = "up"
    <3>1. wire'["down"] = wire["down"] /\ sent'["down"] = sent["down"]
      BY <1>1, <2>1 DEF TypeOK
    <3> QED
      BY <1>1, <3>1, DownStays DEF IInv
  <2>2. CASE w = "down"
    <3>1. PICK r \in Nat : r = 4 * Len(got["down"]) + Len(buffer["down"]) /\ Stream("down", r)
      BY DEF IInv, DownInv
    <3>2. Stream("down", r)'
      BY <1>1, <2>2, <3>1, Sending
    <3> QED
      BY <1>1, <3>1, <3>2 DEF IInv, DownInv, Aligned
  <2> QED
    BY <1>1, <2>1, <2>2
<1>5. UpInv'
  <2>1. CASE w = "down"
    <3>1. wire'["up"] = wire["up"] /\ sent'["up"] = sent["up"]
      BY <1>1, <2>1 DEF TypeOK
    <3> QED
      BY <1>1, <3>1, UpStays DEF IInv
  <2>2. CASE w = "up"
    <3>1. PICK r \in Nat, c \in Nat : Up(r, c)
      BY DEF IInv, UpInv
    <3>2. Stream("up", r)'
      BY <1>1, <2>2, <3>1, Sending DEF Up
    <3>3. Buffered(r, c)' /\ Skipped(r)' /\ Complete(r, c)'
      BY <1>1, <3>1 DEF Up, Buffered, Skipped, Complete
    <3>4. Dispatched(c)' /\ Accounted(c)'
      BY <1>1, <3>1 DEF Up, Dispatched, Accounted, LineOf, Left
    <3> QED
      BY <3>1, <3>2, <3>3, <3>4 DEF UpInv, Up
  <2> QED
    BY <1>1, <2>1, <2>2
<1> QED
  BY <1>3, <1>4, <1>5 DEF IInv

LEMMA Breaks == ASSUME IInv, Break PROVE IInv'
<1>1. PICK n \in [Ways -> 0 .. 4 * MaxLines] :
        /\ \A w \in Ways : n[w] <= Len(wire[w])
        /\ wire' = [w \in Ways |-> SubSeq(wire[w], 1, n[w])]
  BY DEF Break
<1>2. /\ TypeOK /\ "up" \in Ways /\ "down" \in Ways /\ connected' = FALSE
      /\ sent' = sent /\ buffer' = buffer /\ start' = start /\ got' = got /\ dropped' = dropped
  BY DEF IInv, Break, Ways
<1>3. \A w \in Ways : n[w] \in Nat /\ wire'[w] = SubSeq(wire[w], 1, n[w])
  BY <1>1
<1>4. \A w \in Ways : SubSeq(wire[w], 1, n[w]) \in Seq(Bytes)
  <2> SUFFICES ASSUME NEW w \in Ways PROVE SubSeq(wire[w], 1, n[w]) \in Seq(Bytes)
    OBVIOUS
  <2>1. wire[w] \in Seq(Bytes) /\ n[w] \in Nat /\ n[w] <= Len(wire[w])
    BY <1>1, <1>2, <1>3, TypesOf
  <2> QED
    BY <2>1
<1>5. TypeOK'
  BY <1>1, <1>2, <1>4 DEF TypeOK
<1>6. ASSUME NEW w \in Ways, NEW r \in Nat, Stream(w, r) PROVE Stream(w, r)'
  BY <1>1, <1>2, <1>3, <1>6, Breaking
<1>7. DownInv'
  <2>1. PICK r \in Nat : r = 4 * Len(got["down"]) + Len(buffer["down"]) /\ Stream("down", r)
    BY DEF IInv, DownInv
  <2>2. Stream("down", r)'
    BY <1>2, <1>6, <2>1
  <2> QED
    BY <1>2, <2>1, <2>2 DEF IInv, DownInv, Aligned
<1>8. UpInv'
  <2>1. PICK r \in Nat, c \in Nat : Up(r, c)
    BY DEF IInv, UpInv
  <2>2. Stream("up", r)'
    BY <1>2, <1>6, <2>1 DEF Up
  <2>3. Buffered(r, c)' /\ Skipped(r)' /\ Complete(r, c)'
    BY <1>2, <2>1 DEF Up, Buffered, Skipped, Complete
  <2>4. Dispatched(c)' /\ Accounted(c)'
    BY <1>2, <2>1 DEF Up, Dispatched, Accounted, LineOf, Left
  <2> QED
    BY <2>1, <2>2, <2>3, <2>4 DEF UpInv, Up
<1> QED
  BY <1>5, <1>7, <1>8 DEF IInv

LEMMA InvKeeps == IInv /\ [Next]_vars => IInv'
<1> SUFFICES ASSUME IInv, [Next]_vars PROVE IInv'
  OBVIOUS
<1>1. CASE UNCHANGED vars
  <2>1. TypeOK'
    BY <1>1 DEF IInv, TypeOK, vars
  <2>2. DownInv' /\ UpInv'
    BY <1>1, DownStays, UpStays DEF IInv, vars
  <2> QED
    BY <2>1, <2>2 DEF IInv
<1> QED
  BY <1>1, Sends, ServerReads, ServerTakes, ClientReads, ClientTakes, Breaks DEF Next

LEMMA InvHolds == Spec => []IInv
BY InitHolds, InvKeeps, PTL DEF Spec

-----------------------------------------------------------------------------
\* The buffers and what was dispatched have their types, and the client's
\* startIndex stays inside the buffer, for any number of lines.
THEOREM TypeCorrect == Spec => []TypeOK
<1>1. IInv => TypeOK
  BY DEF IInv
<1> QED
  BY <1>1, InvHolds, PTL

\* For any number of lines and any chunks, and wherever the connection breaks,
\* both ends dispatch lines that were sent, whole but for white space the
\* server skipped, in the order of sending.
THEOREM LinesStayWhole == Spec => []LinesInOrder
<1>1. IInv => LinesInOrder
  <2> SUFFICES ASSUME IInv, NEW w \in Ways, NEW k \in DOMAIN got[w]
               PROVE  /\ got[w][k] = Left(w, got[w][k][1].line)
                      /\ k > 1 => got[w][k - 1][1].line < got[w][k][1].line
    BY DEF LinesInOrder
  <2>1. CASE w = "up"
    <3>1. PICK r \in Nat, c \in Nat : Up(r, c)
      BY DEF IInv, UpInv
    <3> QED
      BY <2>1, <3>1 DEF Up, Dispatched, LineOf
  <2>2. CASE w = "down"
    <3>1. \A i : Object(i)[1].line = i
      BY DEF Object, Byte
    <3>2. /\ DOMAIN got["down"] = 1 .. Len(got["down"]) /\ Len(got["down"]) \in Nat
          /\ \A i \in DOMAIN got["down"] : got["down"][i] = Object(i)
      BY TypesOf DEF IInv, DownInv, Ways
    <3>3. k > 1 => k - 1 \in DOMAIN got["down"] /\ k - 1 < k
      BY <2>2, <3>2
    <3>4. got["down"][k][1].line = k /\ (k > 1 => got["down"][k - 1][1].line = k - 1)
      BY <2>2, <3>1, <3>2, <3>3
    <3>5. Left("down", k) = got["down"][k]
      BY <2>2, <3>2 DEF Left
    <3> QED
      BY <2>2, <3>3, <3>4, <3>5
  <2> QED
    BY <2>1, <2>2 DEF Ways
<1> QED
  BY <1>1, InvHolds, PTL

\* For any number of lines and any chunks, the client has dispatched every line
\* the server wrote when all its bytes have arrived and its loop is over.
THEOREM ClientMissesNothing == Spec => []ClientGetsAll
<1>1. IInv => ClientGetsAll
  <2> SUFFICES ASSUME IInv, Arrived("down") PROVE Len(got["down"]) = sent["down"]
    BY DEF ClientGetsAll
  <2> DEFINE s == buffer["down"]
  <2>1. /\ TypeOK /\ s \in Seq(Bytes) /\ Len(s) \in Nat /\ Len(got["down"]) \in Nat /\ sent["down"] \in Nat
        /\ connected /\ wire["down"] = <<>> /\ ClientDone /\ start = 1
    BY TypesOf DEF IInv, Ways, Arrived, DownInv
  <2>2. PICK r \in Nat : r = 4 * Len(got["down"]) + Len(s) /\ Stream("down", r)
    BY DEF IInv, DownInv
  <2>3. r = 4 * sent["down"]
    <3>1. r + Len(wire["down"]) = 4 * sent["down"] /\ Len(wire["down"]) = 0
      BY <2>1, <2>2 DEF Stream
    <3>2. r + 0 = 4 * sent["down"] /\ r + 0 = r
      BY <3>1
    <3> QED
      BY <3>2
  <2>4. \A i \in 1 .. Len(s) : s[i] \in Bytes /\ Pos(s[i]) = 4 * Len(got["down"]) + i
    BY <2>1 DEF IInv, DownInv, Aligned
  <2>5. PICK k \in Nat : k = Len(got["down"])
    BY <2>1
  <2>6. PICK l \in Nat : l = Len(s)
    BY <2>1
  <2>7. Len(s) = 0
    <3> SUFFICES ASSUME Len(s) >= 1 PROVE FALSE
      BY <2>1
    <3>1. l >= 4
      <4>1. \A a, b, c \in Nat : 4 * a + b = 4 * c /\ b >= 1 => b >= 4
        OBVIOUS
      <4>2. 4 * k + l = 4 * sent["down"]
        BY <2>2, <2>3, <2>5, <2>6
      <4> QED
        BY <2>1, <2>6, <4>1, <4>2
    <3>2. 1 \in 1 .. Len(s) /\ 4 \in 1 .. Len(s)
      BY <2>6, <3>1
    <3>3. s[1].char = "open" /\ s[4].char = "newline"
      <4>1. /\ Pos(s[1]) = 4 * k + 1 /\ s[1] \in Bytes
            /\ Pos(s[4]) = 4 * k + 4 /\ s[4] \in Bytes
        BY <2>4, <2>5, <3>2
      <4> QED
        BY <4>1, PlaceIs
    <3>4. ClientObject = 1
      <4>1. ClientObject = Index(s, "open", 1)
        BY <2>1 DEF ClientObject
      <4> HIDE DEF s
      <4>2. Index(s, "open", 1) \in 1 .. Len(s) /\ Index(s, "open", 1) <= 1
        BY <2>1, <3>2, <3>3, Found
      <4> QED
        BY <4>1, <4>2
    <3>5. ClientEnd = Index(s, "newline", 1)
      BY <3>4 DEF ClientEnd
    <3> HIDE DEF s
    <3>6. Index(s, "newline", 1) # 0
      BY <2>1, <3>2, <3>3, Found
    <3> QED
      BY <2>1, <3>4, <3>5, <3>6 DEF ClientDone
  <2>8. 4 * k = 4 * sent["down"]
    <3>1. 4 * k + 0 = 4 * sent["down"]
      BY <2>2, <2>3, <2>5, <2>7
    <3> QED
      BY <3>1
  <2> QED
    BY <2>1, <2>5, <2>8
<1> QED
  BY <1>1, InvHolds, PTL

\* For any number of lines and any chunks, a request the server never
\* dispatches stands next to a newline that came as a chunk of its own.
THEOREM ServerFindsItsWay == Spec => []ServerResyncs
<1>1. IInv => ServerResyncs
  <2> SUFFICES ASSUME IInv, Arrived("up"), NEW i \in 1 .. sent["up"]
               PROVE  \/ \E k \in DOMAIN got["up"] : got["up"][k][1].line = i
                      \/ Byte(i, "newline") \in dropped
                      \/ i > 1 /\ Byte(i - 1, "newline") \in dropped
    BY DEF ServerResyncs
  <2> DEFINE s == buffer["up"]
  <2>1. /\ TypeOK /\ s \in Seq(Bytes) /\ sent["up"] \in 0 .. MaxLines
        /\ connected /\ wire["up"] = <<>> /\ Index(s, "newline", 1) = 0
    BY TypesOf DEF IInv, Ways, Arrived, ServerDone
  <2>2. PICK r \in Nat, c \in Nat : Up(r, c)
    BY DEF IInv, UpInv
  <2>3. r = 4 * sent["up"]
    <3>1. r + Len(wire["up"]) = 4 * sent["up"] /\ Len(wire["up"]) = 0
      BY <2>1, <2>2 DEF Up, Stream
    <3> QED
      BY <2>2, <3>1
  <2>4. i \in 1 .. MaxLines /\ i \in Nat /\ i <= sent["up"]
    BY <2>1, LinesAssumption
  <2>5. CASE i \in 1 .. c
    BY <2>2, <2>5 DEF Up, Accounted, LineOf
  <2>6. CASE i > c
    <3>1. /\ Byte(i, "newline") \in Bytes /\ Pos(Byte(i, "newline")) = 4 * i
          /\ Byte(i, "newline").char = "newline"
      BY <2>4, ByteIs
    <3>2. 4 * c < 4 * i /\ 4 * i <= r
      BY <2>1, <2>3, <2>4, <2>6
    <3>3. Byte(i, "newline") \in dropped \/ \E k \in DOMAIN s : s[k] = Byte(i, "newline")
      BY <2>2, <3>1, <3>2 DEF Up, Complete
    <3> HIDE DEF s
    <3>4. \A k \in DOMAIN s : s[k].char # "newline"
      BY <2>1, Found
    <3> QED
      BY <3>1, <3>3, <3>4
  <2> QED
    BY <2>2, <2>4, <2>5, <2>6
<1> QED
  BY <1>1, InvHolds, PTL
=============================================================================
