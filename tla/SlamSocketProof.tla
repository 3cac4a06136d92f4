-------------------------- MODULE SlamSocketProof --------------------------
(***************************************************************************)
(* For all sizes of messages, of queues and of the kernel's buffer, and    *)
(* however send and recv cut the stream: a connection of slam_socket.c is  *)
(* a FIFO of messages, and no byte of them is lost or repeated.            *)
(***************************************************************************)
EXTENDS SlamSocket, SlamSequences

\* a byte is known by its message and its place there
Byte == Nat \X Nat
Rx == [pc : {"idle", "len", "body", "test"}, got : Seq(Byte), message : Seq(Byte), bufsize : Nat]

TypeInv ==
  /\ sent \in Seq(Size) /\ front \in Nat \ {0} /\ bytesize \in Nat
  /\ front <= Len(sent) + 1
  /\ IF front <= Len(sent) THEN bytesize < sent[front] ELSE bytesize = 0
  /\ wire \in Seq(Byte) /\ rx \in Rx /\ received \in Seq(Seq(Byte)) /\ open \in BOOLEAN

\* the message the reader is at, how much of it it has, and the byte it waits for
Reading == Len(received) + 1
Have == Len(rx.message) + Len(rx.got)
Due == IF Reading <= Len(sent) /\ Have = sent[Reading] THEN <<Reading + 1, 1>> ELSE <<Reading, Have + 1>>

\* What the reader has is the beginning of its message, and bufsize its length.
ReaderInv ==
  /\ Reading <= Len(sent) + 1
  /\ Have > 0 => Reading <= Len(sent) /\ Have <= sent[Reading]
  /\ \A k \in 1 .. Len(rx.message) : rx.message[k] = <<Reading, k>>
  /\ \A k \in 1 .. Len(rx.got) : rx.got[k] = <<Reading, Len(rx.message) + k>>
  /\ rx.pc \in {"idle", "test"} => rx.got = << >>
  /\ rx.pc = "len" => rx.message = << >> /\ Len(rx.got) <= LenSize
  /\ rx.pc \in {"body", "test"} => rx.message # << >>
  /\ rx.message # << >> => rx.bufsize = sent[Reading]

\* the bytes in the kernel, and behind them the one that is sent next
Road(p) == IF p <= Len(wire) THEN wire[p] ELSE <<front, bytesize + 1>>

\* The byte at place p of the wire is one of a message, the rest of which follows
\* it, and then the next message.
Follows(p) ==
  LET i == wire[p][1]
      k == wire[p][2]
  IN  /\ i \in 1 .. Len(sent) /\ k \in 1 .. sent[i]
      /\ \A d \in Nat : p + d <= Len(wire) + 1 /\ k + d <= sent[i] => Road(p + d) = <<i, k + d>>
      /\ k = sent[i] => Road(p + 1) = <<i + 1, 1>>

WireInv == Road(1) = Due /\ \A p \in 1 .. Len(wire) : Follows(p)

\* The inductive invariant.
Inv == TypeInv /\ (open => ReaderInv /\ WireInv)

core == <<sent, front, bytesize, wire, rx, received, open>>

-----------------------------------------------------------------------------
\* A message is longer than its length field.
LEMMA SizeFacts ==
  /\ \A n \in Size : n \in Nat /\ n > LenSize
  /\ LenSize \in Nat /\ LenSize > 0 /\ Room \in Nat /\ MaxMessage \in Nat
  BY SizeAssumption

LEMMA SentFacts ==
  ASSUME TypeInv
  PROVE  /\ Len(sent) \in Nat
         /\ \A i \in 1 .. Len(sent) : sent[i] \in Size /\ sent[i] \in Nat /\ sent[i] > LenSize
<1>1. sent \in Seq(Size)
  BY DEF TypeInv
<1>2. Len(sent) \in Nat /\ \A i \in 1 .. Len(sent) : sent[i] \in Size
  BY ONLY <1>1
<1> QED
  BY <1>2, SizeFacts

LEMMA RxFacts ==
  ASSUME TypeInv
  PROVE  /\ rx.pc \in {"idle", "len", "body", "test"} /\ rx.bufsize \in Nat
         /\ rx.got \in Seq(Byte) /\ rx.message \in Seq(Byte)
         /\ Len(rx.got) \in Nat /\ Len(rx.message) \in Nat /\ Len(received) \in Nat
         /\ Len(wire) \in Nat /\ Reading \in Nat /\ Reading > 0 /\ Have \in Nat
<1>1. rx.pc \in {"idle", "len", "body", "test"} /\ rx.bufsize \in Nat
      /\ rx.got \in Seq(Byte) /\ rx.message \in Seq(Byte)
  BY DEF TypeInv, Rx
<1>2. Len(rx.got) \in Nat /\ Len(rx.message) \in Nat
  BY ONLY <1>1
<1>3. Len(received) \in Nat /\ Len(wire) \in Nat
  BY DEF TypeInv
<1>a. \A a, b \in Nat : a + b \in Nat /\ a + 1 \in Nat /\ a + 1 > 0
  OBVIOUS
<1>4. Reading \in Nat /\ Reading > 0 /\ Have \in Nat
  BY <1>2, <1>3, <1>a, Zenon DEF Reading, Have
<1> QED
  BY <1>1, <1>2, <1>3, <1>4, Zenon

\* A step that is not about the stream.
LEMMA CoreSame ==
  ASSUME Inv, UNCHANGED core PROVE Inv'
<1> USE DEF core
<1>1. TypeInv'
  BY DEF Inv, TypeInv
<1>2. UNCHANGED <<Reading, Have, Due>> /\ \A p : Road(p)' = Road(p)
  BY DEF Reading, Have, Due, Road
<1>3. ReaderInv => ReaderInv'
  BY <1>2 DEF ReaderInv
<1>4. WireInv => WireInv'
  BY <1>2 DEF WireInv, Follows
<1> QED
  BY <1>1, <1>3, <1>4 DEF Inv

\* The connection is given up.
LEMMA Loses ==
  ASSUME Inv, Lose, UNCHANGED sender PROVE Inv' /\ ~open'
<1>1. << >> \in Seq(Byte)
  OBVIOUS
<1>2. rx' \in Rx /\ ~open' /\ open' \in BOOLEAN
  BY <1>1, Zenon DEF Lose, Rx
<1>3. TypeInv'
  BY <1>2 DEF Inv, TypeInv, Lose, sender
<1> QED
  BY <1>2, <1>3 DEF Inv

\* A message is put behind the others.
LEMMA WriteMessageKeeps ==
  ASSUME Inv, NEW size \in Size, WriteMessage(size) PROVE Inv'
<1>0. /\ TypeInv /\ ReaderInv /\ WireInv /\ sent' = Append(sent, size)
      /\ UNCHANGED <<front, bytesize, wire, rx, received, open>>
  BY DEF Inv, WriteMessage, receiver
<1>1. /\ Len(sent) \in Nat /\ Len(sent') = Len(sent) + 1 /\ sent' \in Seq(Size)
      /\ \A i \in 1 .. Len(sent) : sent'[i] = sent[i]
      /\ sent'[Len(sent) + 1] = size /\ size \in Nat /\ size > 0
  <2>1. sent \in Seq(Size) /\ size \in Nat /\ size > 0
    BY <1>0, SizeFacts DEF TypeInv
  <2> QED
    BY ONLY <1>0, <2>1, size \in Size
<1>2. TypeInv'
  <2>1. front' \in Nat \ {0} /\ bytesize' \in Nat /\ front' <= Len(sent') + 1
        /\ IF front' <= Len(sent') THEN bytesize' < sent'[front'] ELSE bytesize' = 0
    <3>1. front \in Nat \ {0} /\ bytesize \in Nat /\ front <= Len(sent) + 1
          /\ IF front <= Len(sent) THEN bytesize < sent[front] ELSE bytesize = 0
      BY <1>0 DEF TypeInv
    <3> QED
      BY ONLY <1>0, <1>1, <3>1
  <2> QED
    BY <1>0, <1>1, <2>1 DEF TypeInv
<1>3. Reading' = Reading /\ Have' = Have /\ \A p : Road(p)' = Road(p)
  BY <1>0 DEF Reading, Have, Road
<1>4. Reading \in Nat /\ Reading > 0 /\ Have \in Nat /\ Len(rx.message) \in Nat /\ Len(rx.got) \in Nat
  BY <1>0, RxFacts
<1>5. Due' = Due
  BY <1>0, <1>1, <1>3, <1>4 DEF Due, ReaderInv
<1>6. ReaderInv'
  <2>1. rx.message # << >> => Have > 0
    <3>1. rx.message \in Seq(Byte)
      BY <1>0, RxFacts
    <3>2. rx.message # << >> => Len(rx.message) > 0
      BY ONLY <3>1
    <3>3. \A a, b \in Nat : a > 0 => a + b > 0
      OBVIOUS
    <3> QED
      BY <1>4, <3>2, <3>3, Zenon DEF Have
  <2>2. rx.message # << >> => rx.bufsize = sent'[Reading]
    BY <1>0, <1>1, <1>4, <2>1 DEF ReaderInv
  <2> QED
    BY <1>0, <1>1, <1>3, <1>4, <2>2 DEF ReaderInv
<1>7. ASSUME NEW p \in 1 .. Len(wire') PROVE Follows(p)'
  <2>1. Follows(p) /\ wire' = wire
    BY <1>0 DEF WireInv
  <2>2. wire[p][1] \in 1 .. Len(sent) /\ wire[p][1] \in 1 .. Len(sent') /\ sent'[wire[p][1]] = sent[wire[p][1]]
    BY <1>1, <2>1 DEF Follows
  <2> QED
    BY <1>3, <2>1, <2>2 DEF Follows
<1> QED
  BY <1>2, <1>3, <1>5, <1>6, <1>7, <1>0 DEF Inv, WireInv

\* The bytes of a message.
LEMMA BytesFacts ==
  ASSUME NEW i \in 1 .. Len(sent), sent[i] \in Nat
  PROVE  /\ Bytes(i) \in Seq(Byte) /\ Len(Bytes(i)) = sent[i]
         /\ \A k \in 1 .. sent[i] : Bytes(i)[k] = <<i, k>>
<1> DEFINE b == Bytes(i)
<1>1. b = [k \in 1 .. sent[i] |-> <<i, k>>]
  BY DEF Bytes
<1> HIDE DEF b
<1>2. i \in Nat
  OBVIOUS
<1>3. \A k \in 1 .. sent[i] : b[k] = <<i, k>> /\ <<i, k>> \in Byte
  BY ONLY <1>1, <1>2, sent[i] \in Nat DEF Byte
<1>4. b \in [1 .. sent[i] -> Byte]
  BY ONLY <1>1, <1>3
<1>5. b \in Seq(Byte) /\ Len(b) = sent[i]
  BY ONLY <1>4, sent[i] \in Nat
<1> QED
  BY <1>3, <1>5, Zenon DEF b

\* the bytes that send takes, and the byte behind them
LEMMA SendRoad ==
  ASSUME TypeInv, NEW n \in Piece, Send(n)
  PROVE  /\ front \in 1 .. Len(sent) /\ n \in Nat /\ n > 0 /\ bytesize + n <= sent[front]
         /\ wire' \in Seq(Byte) /\ Len(wire') = Len(wire) + n
         /\ \A p \in 1 .. Len(wire) : wire'[p] = wire[p]
         /\ \A d \in 1 .. n : wire'[Len(wire) + d] = <<front, bytesize + d>>
         /\ IF bytesize + n = sent[front] THEN front' = front + 1 /\ bytesize' = 0
                                          ELSE front' = front /\ bytesize' = bytesize + n
<1>1. /\ front \in Nat /\ front > 0 /\ bytesize \in Nat /\ n \in Nat /\ n > 0 /\ wire \in Seq(Byte)
      /\ Len(wire) \in Nat
  BY SizeFacts DEF Piece, TypeInv
<1>2. front \in 1 .. Len(sent) /\ sent[front] \in Nat /\ n <= sent[front] - bytesize
  BY <1>1, SentFacts DEF Send
<1> DEFINE b == Bytes(front)
           s == SubSeq(b, bytesize + 1, bytesize + n)
<1>4. b \in Seq(Byte) /\ Len(b) = sent[front] /\ \A k \in 1 .. sent[front] : b[k] = <<front, k>>
  BY <1>2, BytesFacts
<1> HIDE DEF b
<1>5. s \in Seq(Byte) /\ Len(s) = n /\ \A d \in 1 .. n : s[d] = <<front, bytesize + d>>
  <2>1. s = [d \in 1 .. n |-> b[bytesize + d]]
    <3>1. s = [d \in 1 .. ((bytesize + n) - (bytesize + 1) + 1) |-> b[d + (bytesize + 1) - 1]]
      BY ONLY <1>1, <1>4, SMTT(30)
    <3>2. (bytesize + n) - (bytesize + 1) + 1 = n /\ \A d \in 1 .. n : d + (bytesize + 1) - 1 = bytesize + d
      BY ONLY <1>1
    <3> QED
      BY ONLY <3>1, <3>2
  <2>2. \A d \in 1 .. n : bytesize + d \in 1 .. sent[front]
    BY ONLY <1>1, <1>2
  <2>3. \A d \in 1 .. n : b[bytesize + d] = <<front, bytesize + d>> /\ b[bytesize + d] \in Byte
    BY ONLY <1>4, <2>2
  <2>4. s \in [1 .. n -> Byte]
    BY ONLY <2>1, <2>3, Zenon
  <2> HIDE DEF s
  <2>5. s \in Seq(Byte) /\ Len(s) = n
    BY ONLY <1>1, <2>4
  <2> QED
    BY ONLY <2>1, <2>3, <2>5, Zenon
<1>6. wire' = wire \o s
  BY DEF Send, b
<1> HIDE DEF s
<1>7. /\ wire' \in Seq(Byte) /\ Len(wire') = Len(wire) + n
      /\ \A p \in 1 .. Len(wire) : wire'[p] = wire[p]
      /\ \A d \in 1 .. n : wire'[Len(wire) + d] = s[d]
  BY ONLY <1>1, <1>5, <1>6
<1>8. IF bytesize + n = sent[front] THEN front' = front + 1 /\ bytesize' = 0
                                    ELSE front' = front /\ bytesize' = bytesize + n
  BY DEF Send, SentWhole
<1>9. \A d \in 1 .. n : wire'[Len(wire) + d] = <<front, bytesize + d>>
  BY ONLY <1>5, <1>7
<1>10. bytesize + n <= sent[front]
  BY ONLY <1>1, <1>2
<1> QED
  BY <1>1, <1>2, <1>7, <1>8, <1>9, <1>10, Zenon

\* send keeps the order of the bytes.
LEMMA SendKeeps ==
  ASSUME Inv, NEW n \in Piece, Send(n) PROVE Inv'
<1>0. /\ TypeInv /\ ReaderInv /\ WireInv /\ UNCHANGED <<sent, rx, received, open>>
  BY DEF Inv, Send, receiver
<1>w. PICK w \in Nat : w = Len(wire)
  BY <1>0, RxFacts
<1>1. /\ front \in 1 .. Len(sent) /\ n \in Nat /\ n > 0 /\ bytesize + n <= sent[front]
      /\ wire' \in Seq(Byte) /\ Len(wire') = w + n
      /\ \A p \in 1 .. w : wire'[p] = wire[p]
      /\ \A d \in 1 .. n : wire'[w + d] = <<front, bytesize + d>>
      /\ IF bytesize + n = sent[front] THEN front' = front + 1 /\ bytesize' = 0
                                       ELSE front' = front /\ bytesize' = bytesize + n
  BY <1>0, <1>w, SendRoad
<1>2. /\ Len(sent) \in Nat /\ w \in Nat /\ front \in Nat /\ bytesize \in Nat
      /\ \A i \in 1 .. Len(sent) : sent[i] \in Nat /\ sent[i] > 0
  BY <1>0, SentFacts, SizeFacts DEF TypeInv
<1>a. /\ n \in Nat /\ n > 0 /\ w \in Nat /\ bytesize \in Nat /\ front \in Nat /\ front > 0
      /\ front <= Len(sent) /\ Len(sent) \in Nat /\ Len(wire') = w + n
      /\ sent[front] \in Nat /\ bytesize + n <= sent[front]
  BY <1>1, <1>2
<1>3. /\ front' \in Nat \ {0} /\ bytesize' \in Nat /\ front' <= Len(sent) + 1
      /\ IF front' <= Len(sent) THEN bytesize' < sent[front'] ELSE bytesize' = 0
  <2>1. CASE bytesize + n = sent[front]
    BY ONLY <1>1, <1>2, <2>1
  <2>2. CASE bytesize + n # sent[front]
    <3>1. front' = front /\ bytesize' = bytesize + n
      BY <1>1, <2>2
    <3> QED
      BY ONLY <1>a, <2>2, <3>1
  <2> QED
    BY ONLY <2>1, <2>2
<1>4. TypeInv'
  BY <1>0, <1>1, <1>3 DEF TypeInv
<1>5. UNCHANGED <<Reading, Have, Due>>
  BY <1>0 DEF Reading, Have, Due
<1>6. ReaderInv'
  BY <1>0, <1>5 DEF ReaderInv
<1>7. \A p \in 1 .. w + 1 : Road(p)' = Road(p)
  <2> SUFFICES ASSUME NEW p \in 1 .. w + 1 PROVE Road(p)' = Road(p)
    OBVIOUS
  <2>1. Road(p)' = wire'[p]
    BY <1>1, <1>2 DEF Road
  <2>2. CASE p <= w
    <3>1. p \in 1 .. w
      BY ONLY <1>2, <2>2, p \in 1 .. w + 1
    <3> QED
      BY <1>w, <1>1, <2>1, <2>2, <3>1 DEF Road
  <2>3. CASE ~(p <= w)
    <3>1. p = w + 1 /\ 1 \in 1 .. n
      BY ONLY <1>1, <1>2, <2>3, p \in 1 .. w + 1
    <3>2. wire'[p] = <<front, bytesize + 1>>
      BY ONLY <1>1, <3>1
    <3> QED
      BY <1>w, <2>1, <2>3, <3>2 DEF Road
  <2> QED
    BY <2>2, <2>3
<1>8. \A d \in 1 .. n + 1 : bytesize + d <= sent[front] => Road(w + d)' = <<front, bytesize + d>>
  <2> SUFFICES ASSUME NEW d \in 1 .. n + 1, bytesize + d <= sent[front]
               PROVE  Road(w + d)' = <<front, bytesize + d>>
    OBVIOUS
  <2>1. CASE d <= n
    <3>1. d \in 1 .. n /\ w + d <= Len(wire')
      BY ONLY <1>1, <1>2, <2>1, d \in 1 .. n + 1
    <3> QED
      BY <1>1, <3>1 DEF Road
  <2>2. CASE ~(d <= n)
    <3>1. d = n + 1 /\ ~(w + d <= Len(wire')) /\ bytesize + n # sent[front] /\ bytesize + n + 1 = bytesize + d
      BY ONLY <1>1, <1>2, <2>2, d \in 1 .. n + 1, bytesize + d <= sent[front]
    <3> QED
      BY <1>1, <3>1 DEF Road
  <2> QED
    BY <2>1, <2>2
<1>9. bytesize + n = sent[front] => Road(w + n + 1)' = <<front + 1, 1>>
  <2>1. ~(w + n + 1 <= Len(wire')) /\ 0 + 1 = 1
    BY ONLY <1>1, <1>2
  <2> QED
    BY <1>1, <2>1 DEF Road
<1>10. ASSUME NEW p \in 1 .. w PROVE Follows(p)'
  <2> DEFINE i == wire[p][1]
             k == wire[p][2]
  <2>1. /\ i \in 1 .. Len(sent) /\ k \in 1 .. sent[i]
        /\ \A d \in Nat : p + d <= w + 1 /\ k + d <= sent[i] => Road(p + d) = <<i, k + d>>
        /\ k = sent[i] => Road(p + 1) = <<i + 1, 1>>
    BY <1>0, <1>w, <1>10 DEF WireInv, Follows
  <2>2. wire'[p] = wire[p]
    BY <1>1
  <2> HIDE DEF i, k
  <2>3. ASSUME NEW d \in Nat, p + d <= Len(wire') + 1, k + d <= sent[i]
        PROVE  Road(p + d)' = <<i, k + d>>
    <3>1. CASE p + d <= w + 1
      <4>1. p + d \in 1 .. w + 1
        BY ONLY <1>2, <3>1, p \in 1 .. w, d \in Nat
      <4> QED
        BY ONLY <1>7, <2>1, <2>3, <3>1, <4>1
    <3>2. CASE ~(p + d <= w + 1)
      <4> DEFINE e == (w + 1) - p
                 f == d - e
      <4>1. /\ e \in Nat /\ f \in Nat /\ f > 0 /\ p + e = w + 1 /\ k + e <= sent[i] /\ d = e + f
            /\ f + 1 \in 1 .. n + 1 /\ p + d = w + (f + 1) /\ k \in Nat
        <5>1. k \in Nat /\ sent[i] \in Nat
          BY <1>2, <2>1
        <5> QED
          BY ONLY <1>a, <2>3, <3>2, <5>1, p \in 1 .. w, d \in Nat
      <4> HIDE DEF e, f
      <4>2. Road(w + 1) = <<i, k + e>>
        <5>1. e \in Nat /\ p + e <= w + 1 /\ k + e <= sent[i]
          BY ONLY <4>1, w \in Nat
        <5>2. Road(p + e) = <<i, k + e>>
          BY <2>1, <5>1, Zenon
        <5> QED
          BY <4>1, <5>2, Zenon
      <4>3. Road(w + 1) = <<front, bytesize + 1>>
        BY <1>w, <1>2 DEF Road
      <4>4. front = i /\ bytesize + 1 = k + e
        BY ONLY <4>2, <4>3
      <4>5. bytesize + (f + 1) <= sent[front] /\ bytesize + (f + 1) = k + d
        BY ONLY <1>2, <2>3, <4>1, <4>4, d \in Nat
      <4>6. Road(w + (f + 1))' = <<front, bytesize + (f + 1)>>
        BY <1>8, <4>1, <4>5
      <4> QED
        BY <4>1, <4>4, <4>5, <4>6
    <3> QED
      BY <3>1, <3>2
  <2>4. ASSUME k = sent[i] PROVE Road(p + 1)' = <<i + 1, 1>>
    <3>1. p + 1 \in 1 .. w + 1
      BY ONLY <1>2, p \in 1 .. w
    <3> QED
      BY ONLY <1>7, <2>1, <2>4, <3>1
  <2> QED
    BY <1>0, <2>1, <2>2, <2>3, <2>4 DEF Follows, i, k
<1>11. ASSUME NEW c \in 1 .. n PROVE Follows(w + c)'
  <2>0. wire'[w + c] = <<front, bytesize + c>>
    BY <1>1, Zenon
  <2>1. front \in 1 .. Len(sent) /\ bytesize + c \in 1 .. sent[front]
    <3>1. PICK b \in Nat, m \in Nat : b = bytesize /\ m = sent[front] /\ b + n <= m
      BY <1>a, Zenon
    <3>2. b + c \in 1 .. m
      BY ONLY <1>a, <3>1, c \in 1 .. n
    <3> QED
      BY <1>1, <3>1, <3>2, Zenon
  <2>2. ASSUME NEW d \in Nat, (w + c) + d <= Len(wire') + 1, (bytesize + c) + d <= sent[front]
        PROVE  Road((w + c) + d)' = <<front, (bytesize + c) + d>>
    <3>1. /\ c + d \in 1 .. n + 1 /\ bytesize + (c + d) = (bytesize + c) + d
          /\ w + (c + d) = (w + c) + d /\ bytesize + (c + d) <= sent[front]
      BY ONLY <1>a, <2>2, c \in 1 .. n, d \in Nat
    <3>2. Road(w + (c + d))' = <<front, bytesize + (c + d)>>
      BY <1>8, <3>1
    <3> QED
      BY <3>1, <3>2
  <2>3. ASSUME bytesize + c = sent[front] PROVE Road((w + c) + 1)' = <<front + 1, 1>>
    <3>1. c = n /\ bytesize + n = sent[front]
      BY ONLY <1>a, <2>3, c \in 1 .. n
    <3> QED
      BY <1>9, <3>1
  <2>4. wire'[w + c][1] = front /\ wire'[w + c][2] = bytesize + c
    BY ONLY <2>0
  <2> QED
    BY <1>0, <2>1, <2>2, <2>3, <2>4 DEF Follows
<1>12. ASSUME NEW p \in 1 .. Len(wire') PROVE Follows(p)'
  <2>1. CASE p <= w
    BY <1>2, <1>10, <2>1
  <2>2. CASE ~(p <= w)
    <3>1. p - w \in 1 .. n /\ w + (p - w) = p
      BY ONLY <1>1, <1>2, <2>2, p \in 1 .. Len(wire')
    <3> QED
      BY <1>11, <3>1
  <2> QED
    BY <2>1, <2>2
<1>13. Road(1)' = Due'
  <2>1. 1 \in 1 .. w + 1
    BY ONLY <1>2
  <2> QED
    BY <1>0, <1>5, <1>7, <2>1 DEF WireInv
<1> QED
  BY <1>4, <1>6, <1>12, <1>13 DEF Inv, WireInv

\* The bytes that recv gives belong to the message the reader is at.
LEMMA RecvRoad ==
  ASSUME TypeInv, ReaderInv, WireInv, NEW n \in Piece, Recv(n), NEW h \in Nat, h = Have,
         NEW r \in Nat, r = Reading
  PROVE  /\ n \in Nat /\ n > 0 /\ n <= Len(wire) /\ r \in 1 .. Len(sent) /\ h + n <= sent[r]
         /\ rx.pc = "len" => Len(rx.got) + n <= LenSize
         /\ \A k \in 1 .. n : wire[k] = <<r, h + k>>
         /\ Road(n + 1) = IF h + n = sent[r] THEN <<r + 1, 1>> ELSE <<r, h + n + 1>>
<1>1. n \in Nat /\ n > 0 /\ n <= Len(wire) /\ n <= Wanted /\ rx.pc \in {"len", "body"}
  BY SizeFacts DEF Recv, Piece
<1>2. /\ Len(wire) \in Nat /\ 1 \in 1 .. Len(wire) /\ r > 0
      /\ Len(rx.got) \in Nat /\ Len(rx.message) \in Nat /\ rx.bufsize \in Nat
      /\ h = Len(rx.message) + Len(rx.got)
  BY <1>1, RxFacts DEF Have
<1>3. /\ Len(sent) \in Nat /\ \A i \in 1 .. Len(sent) : sent[i] \in Nat /\ sent[i] > LenSize
      /\ LenSize \in Nat
  BY SentFacts, SizeFacts
<1>4. wire[1] = Due /\ Follows(1)
  BY <1>2 DEF WireInv, Road
<1>a. PICK m \in Nat, g \in Nat, w \in Nat, b \in Nat :
        m = Len(rx.message) /\ g = Len(rx.got) /\ w = Len(wire) /\ b = rx.bufsize
  BY <1>2
<1>b. h = m + g /\ n <= w /\ n \in Nat /\ n > 0
  BY <1>1, <1>2, <1>a
<1>5. wire[1][1] \in 1 .. Len(sent)
  BY <1>4 DEF Follows
<1>6. r \in 1 .. Len(sent)
  <2>1. CASE h > 0
    BY <1>2, <2>1 DEF ReaderInv
  <2>2. CASE h = 0
    <3>1. wire[1] = <<r, h + 1>> \/ r <= Len(sent)
      BY <1>4 DEF Due
    <3>2. wire[1] = <<r, h + 1>> => wire[1][1] = r
      OBVIOUS
    <3>3. CASE wire[1] = <<r, h + 1>>
      BY <1>5, <3>2, <3>3
    <3>4. CASE r <= Len(sent)
      BY <1>2, <1>3, <3>4
    <3> QED
      BY <3>1, <3>3, <3>4
  <2> QED
    BY <2>1, <2>2
<1>7. h + n <= sent[r] /\ (rx.pc = "len" => Len(rx.got) + n <= LenSize)
  <2>1. CASE rx.pc = "len"
    <3>1. Wanted = LenSize - Len(rx.got) /\ rx.message = << >>
      BY <2>1 DEF Wanted, ReaderInv
    <3>2. Len(rx.message) = 0
      BY ONLY <3>1
    <3> QED
      BY <1>1, <1>2, <1>3, <1>6, <3>1, <3>2
  <2>2. CASE rx.pc = "body"
    <3>1. Wanted = (rx.bufsize - Len(rx.message)) - Len(rx.got) /\ rx.bufsize = sent[r]
      BY <2>2 DEF Wanted, ReaderInv
    <3>a. n <= (b - m) - g /\ b = sent[r]
      BY <1>1, <1>a, <3>1
    <3>2. h + n <= sent[r]
      BY ONLY <1>b, <3>a, m \in Nat, g \in Nat, b \in Nat
    <3> QED
      BY <2>2, <3>2
  <2> QED
    BY <1>1, <2>1, <2>2
<1>c. PICK z \in Nat : z = sent[r]
  BY <1>3, <1>6
<1>d. h + n <= z
  BY <1>7, <1>c
<1>8. sent[r] \in Nat /\ h < sent[r]
  BY <1>b, <1>c, <1>d
<1>9. wire[1] = <<r, h + 1>> /\ wire[1][1] = r /\ wire[1][2] = h + 1
  <2>1. wire[1] = <<r, h + 1>>
    BY <1>4, <1>8 DEF Due
  <2> QED
    BY <2>1
<1>10. ASSUME NEW d \in Nat, 1 + d <= Len(wire) + 1, (h + 1) + d <= sent[r]
       PROVE  Road(1 + d) = <<r, (h + 1) + d>>
  BY <1>4, <1>9, <1>10 DEF Follows
<1>11. ASSUME NEW k \in 1 .. n PROVE wire[k] = <<r, h + k>>
  <2>a. /\ k - 1 \in Nat /\ 1 + (k - 1) <= w + 1 /\ (h + 1) + (k - 1) <= z
        /\ 1 + (k - 1) = k /\ (h + 1) + (k - 1) = h + k /\ k <= w
    BY ONLY <1>b, <1>d, k \in 1 .. n, h \in Nat, w \in Nat, z \in Nat
  <2>1. /\ k - 1 \in Nat /\ 1 + (k - 1) <= Len(wire) + 1 /\ (h + 1) + (k - 1) <= sent[r]
        /\ 1 + (k - 1) = k /\ (h + 1) + (k - 1) = h + k /\ k <= Len(wire)
    BY <1>a, <1>c, <2>a, Zenon
  <2>2. Road(1 + (k - 1)) = <<r, (h + 1) + (k - 1)>>
    BY <1>10, <2>1
  <2> QED
    BY <2>1, <2>2 DEF Road
<1>12. CASE h + n = sent[r]
  <2>1. n \in 1 .. Len(wire) /\ n \in 1 .. n
    BY ONLY <1>1, <1>2
  <2>2. wire[n] = <<r, h + n>>
    BY <1>11, <2>1
  <2>3. wire[n][1] = r /\ wire[n][2] = sent[r]
    BY ONLY <1>12, <2>2
  <2>4. Follows(n)
    BY <2>1 DEF WireInv
  <2>5. Road(n + 1) = <<r + 1, 1>>
    BY <2>3, <2>4 DEF Follows
  <2> QED
    BY <1>1, <1>6, <1>7, <1>11, <1>12, <2>5
<1>13. CASE h + n # sent[r]
  <2>a. 1 + n <= w + 1 /\ (h + 1) + n <= z /\ 1 + n = n + 1 /\ (h + 1) + n = h + n + 1
    BY <1>b, <1>c, <1>d, <1>13
  <2>1. 1 + n <= Len(wire) + 1 /\ (h + 1) + n <= sent[r] /\ 1 + n = n + 1 /\ (h + 1) + n = h + n + 1
    BY <1>a, <1>c, <2>a, Zenon
  <2>2. Road(n + 1) = <<r, h + n + 1>>
    BY <1>1, <1>10, <2>1
  <2> QED
    BY <1>1, <1>6, <1>7, <1>11, <1>13, <2>2
<1> QED
  BY <1>12, <1>13

\* The first n elements of a sequence, and the others.
LEMMA SplitSeq ==
  ASSUME NEW S, NEW s \in Seq(S), NEW n \in Nat, NEW w \in Nat, w = Len(s), n <= w
  PROVE  /\ SubSeq(s, 1, n) \in Seq(S) /\ Len(SubSeq(s, 1, n)) = n
         /\ \A i \in 1 .. n : SubSeq(s, 1, n)[i] = s[i]
         /\ SubSeq(s, n + 1, w) \in Seq(S) /\ Len(SubSeq(s, n + 1, w)) = w - n
         /\ \A i \in 1 .. (w - n) : SubSeq(s, n + 1, w)[i] = s[n + i]
<1>0. \A i \in 1 .. w : s[i] \in S
  OBVIOUS
<1> DEFINE a == SubSeq(s, 1, n)
           b == SubSeq(s, n + 1, w)
<1>1. a = [i \in 1 .. n |-> s[i]]
  <2>1. a = [i \in 1 .. (n - 1 + 1) |-> s[i + 1 - 1]]
    OBVIOUS
  <2>2. n - 1 + 1 = n /\ \A i \in 1 .. n : i + 1 - 1 = i
    OBVIOUS
  <2> QED
    BY ONLY <2>1, <2>2
<1>2. b = [i \in 1 .. (w - n) |-> s[n + i]]
  <2>1. b = [i \in 1 .. (w - (n + 1) + 1) |-> s[i + (n + 1) - 1]]
    OBVIOUS
  <2>2. w - (n + 1) + 1 = w - n /\ \A i \in 1 .. (w - n) : i + (n + 1) - 1 = n + i
    OBVIOUS
  <2> QED
    BY ONLY <2>1, <2>2
<1>3. w - n \in Nat /\ \A i \in 1 .. n : i \in 1 .. w /\ \A j \in 1 .. (w - n) : n + j \in 1 .. w
  OBVIOUS
<1>4. \A j \in 1 .. (w - n) : n + j \in 1 .. w
  OBVIOUS
<1> HIDE DEF a, b
<1>5. a \in [1 .. n -> S]
  BY ONLY <1>0, <1>1, <1>3
<1>6. b \in [1 .. (w - n) -> S]
  BY ONLY <1>0, <1>2, <1>4
<1>7. a \in Seq(S) /\ Len(a) = n
  BY ONLY <1>5, n \in Nat
<1>8. b \in Seq(S) /\ Len(b) = w - n
  BY ONLY <1>3, <1>6
<1>9. \A i \in 1 .. n : a[i] = s[i]
  BY ONLY <1>1
<1>10. \A i \in 1 .. (w - n) : b[i] = s[n + i]
  BY ONLY <1>2
<1> QED
  BY ONLY <1>7, <1>8, <1>9, <1>10 DEF a, b

\* Two sequences, one behind the other.
LEMMA JoinSeq ==
  ASSUME NEW S, NEW s \in Seq(S), NEW t \in Seq(S)
  PROVE  /\ s \o t \in Seq(S) /\ Len(s \o t) = Len(s) + Len(t)
         /\ \A i \in 1 .. Len(s) : (s \o t)[i] = s[i]
         /\ \A i \in 1 .. Len(t) : (s \o t)[Len(s) + i] = t[i]
         /\ \A i \in 1 .. Len(s \o t) : i \in 1 .. Len(s) \/ \E j \in 1 .. Len(t) : i = Len(s) + j
<1>1. /\ s \o t \in Seq(S) /\ Len(s \o t) = Len(s) + Len(t)
      /\ \A i \in 1 .. Len(s) : (s \o t)[i] = s[i]
      /\ \A i \in 1 .. Len(t) : (s \o t)[Len(s) + i] = t[i]
  OBVIOUS
<1>2. ASSUME NEW i \in 1 .. Len(s \o t), i \notin 1 .. Len(s)
      PROVE  i - Len(s) \in 1 .. Len(t) /\ i = Len(s) + (i - Len(s))
  BY <1>1, <1>2
<1> QED
  BY <1>1, <1>2, Zenon

LEMMA JoinBytes ==
  \A a, b \in Seq(Byte) :
     /\ a \o b \in Seq(Byte) /\ Len(a \o b) = Len(a) + Len(b)
     /\ \A i \in 1 .. Len(a) : (a \o b)[i] = a[i]
     /\ \A i \in 1 .. Len(b) : (a \o b)[Len(a) + i] = b[i]
     /\ \A i \in 1 .. Len(a \o b) : i \in 1 .. Len(a) \/ \E j \in 1 .. Len(b) : i = Len(a) + j
  BY JoinSeq, Zenon

\* What the road is to the reader once recv has taken n bytes.
LEMMA RecvEffect ==
  ASSUME TypeInv, ReaderInv, WireInv, NEW n \in Piece, Recv(n),
         NEW h \in Nat, h = Have, NEW r \in Nat, r = Reading, NEW w \in Nat, w = Len(wire),
         n \in Nat, n <= w, \A k \in 1 .. n : wire[k] = <<r, h + k>>
  PROVE  /\ UNCHANGED <<sent, front, bytesize, received, open>> /\ open
         /\ wire' \in Seq(Byte) /\ Len(wire') = w - n
         /\ \A p \in 1 .. (w - n) : wire'[p] = wire[n + p]
         /\ rx' \in Rx /\ rx'.pc = rx.pc /\ rx'.message = rx.message /\ rx'.bufsize = rx.bufsize
         /\ Len(rx'.got) = Len(rx.got) + n /\ Have' = h + n /\ Reading' = r
         /\ \A k \in 1 .. Len(rx'.got) : rx'.got[k] = <<r, Len(rx.message) + k>>
<1>1. /\ UNCHANGED <<sent, front, bytesize, received, open>> /\ open
      /\ rx' = [rx EXCEPT !.got = @ \o SubSeq(wire, 1, n)]
      /\ wire' = SubSeq(wire, n + 1, w)
  BY DEF Recv, ReaderStep, sender
<1>2. wire \in Seq(Byte) /\ rx \in Rx /\ rx.got \in Seq(Byte) /\ rx.message \in Seq(Byte)
  BY RxFacts DEF TypeInv
<1>3. wire' \in Seq(Byte) /\ Len(wire') = w - n /\ \A p \in 1 .. (w - n) : wire'[p] = wire[n + p]
  BY <1>1, <1>2, SplitSeq, SMTT(30)
<1> DEFINE t == SubSeq(wire, 1, n)
           q == rx.got \o t
<1>4. t \in Seq(Byte) /\ Len(t) = n /\ \A i \in 1 .. n : t[i] = wire[i]
  BY <1>2, SplitSeq
<1>5. rx' = [rx EXCEPT !.got = q]
  BY <1>1
<1> HIDE DEF t
<1>6. /\ q \in Seq(Byte) /\ Len(q) = Len(rx.got) + n
      /\ \A i \in 1 .. Len(rx.got) : q[i] = rx.got[i]
      /\ \A i \in 1 .. n : q[Len(rx.got) + i] = t[i]
      /\ \A i \in 1 .. Len(q) : i \in 1 .. Len(rx.got) \/ \E j \in 1 .. n : i = Len(rx.got) + j
  <2>1. /\ q \in Seq(Byte) /\ Len(q) = Len(rx.got) + Len(t)
        /\ \A i \in 1 .. Len(rx.got) : q[i] = rx.got[i]
        /\ \A i \in 1 .. Len(t) : q[Len(rx.got) + i] = t[i]
        /\ \A i \in 1 .. Len(q) : i \in 1 .. Len(rx.got) \/ \E j \in 1 .. Len(t) : i = Len(rx.got) + j
    <3>1. rx.got \in Seq(Byte) /\ t \in Seq(Byte)
      BY <1>2, <1>4
    <3> QED
      BY <3>1, JoinBytes, Zenon
  <2> QED
    BY <1>4, <2>1, Zenon
<1> HIDE DEF q
<1>7. /\ rx' \in Rx /\ rx'.pc = rx.pc /\ rx'.message = rx.message /\ rx'.bufsize = rx.bufsize
      /\ rx'.got = q
  BY ONLY <1>2, <1>5, <1>6 DEF Rx
<1>8. PICK m \in Nat, g \in Nat : m = Len(rx.message) /\ g = Len(rx.got)
  BY RxFacts
<1>a. h = m + g
  BY <1>8, Zenon DEF Have
<1>9. h = m + g /\ h + n = m + (g + n)
  BY ONLY <1>a, m \in Nat, g \in Nat, n \in Nat
<1>10. Have' = h + n /\ Reading' = r
  BY <1>1, <1>6, <1>7, <1>8, <1>9, ZenonT(30) DEF Have, Reading
<1>11. ASSUME NEW k \in 1 .. Len(q) PROVE q[k] = <<r, m + k>>
  <2>1. CASE k \in 1 .. g
    BY <1>6, <1>8, <2>1, Zenon DEF ReaderInv
  <2>2. CASE k \notin 1 .. g
    <3>1. PICK j \in 1 .. n : k = g + j
      BY <1>6, <1>8, <2>2, Zenon
    <3>2. q[k] = <<r, h + j>>
      BY <1>4, <1>6, <1>8, <3>1, Zenon
    <3>3. h + j = m + k
      BY ONLY <1>9, <3>1, m \in Nat, g \in Nat, j \in 1 .. n, n \in Nat
    <3> QED
      BY <3>2, <3>3
  <2> QED
    BY <2>1, <2>2
<1> QED
  BY <1>1, <1>3, <1>6, <1>7, <1>8, <1>10, <1>11, Zenon

\* recv keeps the order of the bytes.
LEMMA RecvKeeps ==
  ASSUME Inv, NEW n \in Piece, Recv(n) PROVE Inv'
<1>0. TypeInv /\ ReaderInv /\ WireInv
  BY DEF Inv, Recv, ReaderStep
<1>a. PICK h \in Nat, r \in Nat, w \in Nat : h = Have /\ r = Reading /\ w = Len(wire)
  BY <1>0, RxFacts
<1>1. /\ n \in Nat /\ n > 0 /\ n <= w /\ r \in 1 .. Len(sent) /\ h + n <= sent[r]
      /\ rx.pc = "len" => Len(rx.got) + n <= LenSize
      /\ \A k \in 1 .. n : wire[k] = <<r, h + k>>
      /\ Road(n + 1) = IF h + n = sent[r] THEN <<r + 1, 1>> ELSE <<r, h + n + 1>>
  BY <1>0, <1>a, RecvRoad
<1>2. /\ UNCHANGED <<sent, front, bytesize, received, open>> /\ open
      /\ wire' \in Seq(Byte) /\ Len(wire') = w - n
      /\ \A p \in 1 .. (w - n) : wire'[p] = wire[n + p]
      /\ rx' \in Rx /\ rx'.pc = rx.pc /\ rx'.message = rx.message /\ rx'.bufsize = rx.bufsize
      /\ Len(rx'.got) = Len(rx.got) + n /\ Have' = h + n /\ Reading' = r
      /\ \A k \in 1 .. Len(rx'.got) : rx'.got[k] = <<r, Len(rx.message) + k>>
  <2>1. n \in Nat /\ n <= w /\ \A k \in 1 .. n : wire[k] = <<r, h + k>>
    BY <1>1, Zenon
  <2> QED
    BY ONLY <1>0, <1>a, <2>1, RecvEffect, n \in Piece, Recv(n), SMTT(30)
<1>3. Len(sent) \in Nat /\ sent[r] \in Nat /\ rx.pc \in {"len", "body"}
  BY <1>0, <1>1, SentFacts DEF Recv
<1>4. TypeInv'
  BY <1>0, <1>2 DEF TypeInv
<1>5. ReaderInv'
  <2>1. Reading' <= Len(sent') + 1 /\ (Have' > 0 => Reading' <= Len(sent') /\ Have' <= sent'[Reading'])
    BY <1>1, <1>2, <1>3
  <2>2. \A k \in 1 .. Len(rx'.message) : rx'.message[k] = <<Reading', k>>
    BY <1>0, <1>a, <1>2 DEF ReaderInv
  <2>3. /\ rx'.pc \notin {"idle", "test"}
        /\ rx'.pc = "len" => rx'.message = << >> /\ Len(rx'.got) <= LenSize
        /\ rx'.pc = "body" => rx'.message # << >>
        /\ rx'.message # << >> => rx'.bufsize = sent'[Reading']
    BY <1>0, <1>a, <1>1, <1>2, <1>3, ZenonT(30) DEF ReaderInv
  <2> QED
    BY <1>2, <2>1, <2>2, <2>3 DEF ReaderInv
<1>6. ASSUME NEW p \in 1 .. (w - n) + 1 PROVE Road(p)' = Road(n + p)
  <2>1. CASE p \in 1 .. (w - n)
    <3>1. n + p <= w /\ p <= w - n
      BY ONLY <1>1, <2>1, w \in Nat
    <3> QED
      BY <1>a, <1>2, <2>1, <3>1 DEF Road
  <2>2. CASE p \notin 1 .. (w - n)
    <3>1. ~(n + p <= w) /\ ~(p <= w - n)
      BY ONLY <1>1, <2>2, w \in Nat, p \in 1 .. (w - n) + 1
    <3> QED
      BY <1>a, <1>2, <3>1 DEF Road
  <2> QED
    BY <2>1, <2>2
<1>7. Road(1)' = Due'
  <2>1. 1 \in 1 .. (w - n) + 1
    BY ONLY <1>1, w \in Nat
  <2>2. Due' = IF h + n = sent[r] THEN <<r + 1, 1>> ELSE <<r, h + n + 1>>
    <3>1. r <= Len(sent)
      BY <1>1, <1>3
    <3> QED
      BY <1>2, <3>1 DEF Due
  <2> QED
    BY <1>1, <1>6, <2>1, <2>2
<1>8. ASSUME NEW p \in 1 .. Len(wire') PROVE Follows(p)'
  <2>0. p \in 1 .. (w - n) /\ n \in Nat
    BY <1>1, <1>2, Zenon
  <2>1. p \in 1 .. (w - n) /\ n + p \in 1 .. w /\ p \in Nat
    BY ONLY <2>0, w \in Nat
  <2>2. Follows(n + p) /\ wire'[p] = wire[n + p]
    BY <1>0, <1>a, <1>2, <2>1 DEF WireInv
  <2> DEFINE i == wire[n + p][1]
             k == wire[n + p][2]
  <2>3. /\ i \in 1 .. Len(sent) /\ k \in 1 .. sent[i]
        /\ \A d \in Nat : (n + p) + d <= w + 1 /\ k + d <= sent[i] => Road((n + p) + d) = <<i, k + d>>
        /\ k = sent[i] => Road((n + p) + 1) = <<i + 1, 1>>
    BY <1>a, <2>2 DEF Follows
  <2> HIDE DEF i, k
  <2>4. ASSUME NEW d \in Nat, p + d <= Len(wire') + 1, k + d <= sent[i]
        PROVE  Road(p + d)' = <<i, k + d>>
    <3>a. p + d <= (w - n) + 1
      BY <1>2, <2>4
    <3>1. p + d \in 1 .. (w - n) + 1 /\ (n + p) + d <= w + 1 /\ (n + p) + d = n + (p + d)
      BY ONLY <1>1, <2>1, <3>a, w \in Nat, d \in Nat
    <3>2. Road((n + p) + d) = <<i, k + d>>
      BY <2>3, <2>4, <3>1, Zenon
    <3>3. Road(p + d)' = Road(n + (p + d))
      BY <1>6, <3>1
    <3> QED
      BY <3>1, <3>2, <3>3
  <2>5. ASSUME k = sent[i] PROVE Road(p + 1)' = <<i + 1, 1>>
    <3>1. p + 1 \in 1 .. (w - n) + 1 /\ (n + p) + 1 = n + (p + 1)
      BY ONLY <1>1, <2>1, w \in Nat
    <3>2. Road(p + 1)' = Road(n + (p + 1))
      BY <1>6, <3>1
    <3> QED
      BY <2>3, <2>5, <3>1, <3>2
  <2> QED
    BY <1>2, <2>2, <2>3, <2>4, <2>5 DEF Follows, i, k
<1> QED
  BY <1>4, <1>5, <1>7, <1>8 DEF Inv, WireInv

\* The road stays the same for a reader that waits for the same byte.
LEMMA WireSame ==
  ASSUME WireInv, UNCHANGED <<sent, front, bytesize, wire>>, Due' = Due PROVE WireInv'
<1>1. \A p : Road(p)' = Road(p)
  BY DEF Road
<1> QED
  BY <1>1 DEF WireInv, Follows

\* poll_read begins, or ends without a byte.
LEMMA PollKeeps ==
  ASSUME Inv, PollRead \/ ReadAgain PROVE Inv'
<1>0. TypeInv /\ ReaderInv /\ WireInv /\ open /\ UNCHANGED <<sent, front, bytesize, wire, received, open>>
  BY DEF Inv, PollRead, ReadAgain, ReaderStep, sender
<1>1. rx \in Rx /\ rx.got = << >>
  BY <1>0 DEF TypeInv, PollRead, ReadAgain, ReaderStep, ReaderInv
<1>2. PICK pc \in {"idle", "len", "body"} :
        /\ rx' = [rx EXCEPT !.pc = pc]
        /\ pc = "len" => rx.message = << >>
        /\ pc = "body" => rx.message # << >>
  BY DEF PollRead, ReadAgain
<1>3. /\ rx' \in Rx /\ rx'.pc = pc /\ rx'.got = rx.got /\ rx'.message = rx.message
      /\ rx'.bufsize = rx.bufsize
  BY ONLY <1>1, <1>2 DEF Rx
<1>4. TypeInv'
  BY <1>0, <1>3 DEF TypeInv
<1>5. UNCHANGED <<Reading, Have, Due>>
  BY <1>0, <1>3 DEF Reading, Have, Due
<1>6. Len(rx.got) = 0 /\ Len(rx.got) <= LenSize
  BY <1>1, SizeFacts
<1>7. ReaderInv'
  BY <1>0, <1>1, <1>2, <1>3, <1>5, <1>6 DEF ReaderInv
<1> QED
  BY <1>0, <1>4, <1>5, <1>7, WireSame DEF Inv

\* The body of a message, or a part of it, is put behind what was there.
LEMMA ReadBodyKeeps ==
  ASSUME Inv, ReadBody PROVE Inv'
<1>0. /\ TypeInv /\ ReaderInv /\ WireInv /\ open /\ UNCHANGED <<sent, front, bytesize, wire, received, open>>
      /\ rx' = [rx EXCEPT !.pc = "test", !.got = << >>, !.message = @ \o rx.got] /\ rx.pc = "body"
  BY DEF Inv, ReadBody, ReaderStep, sender
<1>1. rx \in Rx /\ rx.got \in Seq(Byte) /\ rx.message \in Seq(Byte) /\ << >> \in Seq(Byte)
  BY <1>0, RxFacts DEF TypeInv
<1> DEFINE q == rx.message \o rx.got
<1>2. /\ q \in Seq(Byte) /\ Len(q) = Len(rx.message) + Len(rx.got)
      /\ \A i \in 1 .. Len(rx.message) : q[i] = rx.message[i]
      /\ \A i \in 1 .. Len(rx.got) : q[Len(rx.message) + i] = rx.got[i]
      /\ \A i \in 1 .. Len(q) : i \in 1 .. Len(rx.message) \/ \E j \in 1 .. Len(rx.got) : i = Len(rx.message) + j
  BY <1>1, JoinBytes, Zenon
<1>a. q \in Seq(Byte)
  BY <1>2, Zenon
<1>3. rx' = [rx EXCEPT !.pc = "test", !.got = << >>, !.message = q]
  BY <1>0
<1> HIDE DEF q
<1>4. /\ rx' \in Rx /\ rx'.pc = "test" /\ rx'.got = << >> /\ rx'.message = q /\ rx'.bufsize = rx.bufsize
  BY ONLY <1>1, <1>2, <1>3, Zenon DEF Rx
<1>5. TypeInv'
  BY <1>0, <1>4 DEF TypeInv
<1>6. UNCHANGED <<Reading, Have>>
  <2>2. Len(q) + Len(<< >>) = Len(q)
    BY ONLY <1>a
  <2> QED
    BY <1>0, <1>2, <1>4, <2>2, Zenon DEF Reading, Have
<1>7. Due' = Due
  BY <1>0, <1>6 DEF Due
<1>8. ASSUME NEW k \in 1 .. Len(q) PROVE q[k] = <<Reading, k>>
  <2>1. /\ \A i \in 1 .. Len(rx.message) : rx.message[i] = <<Reading, i>>
        /\ \A i \in 1 .. Len(rx.got) : rx.got[i] = <<Reading, Len(rx.message) + i>>
    BY <1>0 DEF ReaderInv
  <2>2. CASE k \in 1 .. Len(rx.message)
    BY <1>2, <2>1, <2>2, Zenon
  <2>3. ASSUME NEW j \in 1 .. Len(rx.got), k = Len(rx.message) + j PROVE q[k] = <<Reading, k>>
    BY <1>2, <2>1, <2>3, Zenon
  <2> QED
    BY <1>2, <2>2, <2>3, Zenon
<1>9. q # << >> /\ rx.message # << >>
  <2>1. rx.message # << >>
    BY <1>0 DEF ReaderInv
  <2>2. Len(rx.message) + Len(rx.got) > 0
    <3>1. \A a, b \in Seq(Byte) : a # << >> => Len(a) + Len(b) > 0
      OBVIOUS
    <3> QED
      BY <1>1, <2>1, <3>1, Zenon
  <2>3. Len(q) > 0
    BY <1>2, <2>2, Zenon
  <2> QED
    BY ONLY <1>a, <2>1, <2>3
<1>10. ReaderInv'
  <2>1. \A k \in 1 .. Len(rx'.got) : rx'.got[k] = <<Reading', Len(rx'.message) + k>>
    <3>1. 1 .. Len(<< >>) = {}
      OBVIOUS
    <3> QED
      BY <1>4, <3>1
  <2> QED
    BY <1>0, <1>4, <1>6, <1>8, <1>9, <2>1, Zenon DEF ReaderInv
<1> QED
  BY <1>0, <1>5, <1>7, <1>10, WireSame DEF Inv

\* The length that was read is that of the message: it cannot have been taken for
\* something else.
LEMMA LenIsLen ==
  ASSUME TypeInv, ReaderInv, rx.pc = "len", Len(rx.got) = LenSize
  PROVE  Reading \in 1 .. Len(sent) /\ LenOf(rx.got) = sent[Reading]
<1>1. PICK r \in Nat : r = Reading /\ r > 0
  BY RxFacts
<1>2. rx.got \in Seq(Byte) /\ rx.message = << >> /\ LenSize \in Nat /\ LenSize > 0
  BY RxFacts, SizeFacts DEF ReaderInv
<1>3. \A k \in 1 .. LenSize : rx.got[k] = <<r, k>>
  <2>1. ASSUME NEW k \in 1 .. LenSize PROVE rx.got[k] = <<r, Len(<< >>) + k>>
    BY <1>1, <1>2 DEF ReaderInv
  <2>2. \A k \in 1 .. LenSize : Len(<< >>) + k = k
    BY ONLY <1>2
  <2> QED
    BY <2>1, <2>2
<1>4. Have > 0
  <2>1. Len(<< >>) + LenSize > 0
    BY ONLY <1>2
  <2> QED
    BY <1>2, <2>1, Zenon DEF Have
<1>5. r <= Len(sent)
  BY <1>1, <1>4 DEF ReaderInv
<1>6. r \in 1 .. Len(sent) /\ Len(sent) \in Nat
  BY <1>1, <1>5, SentFacts
<1>7. sent[r] \in Nat /\ sent[r] > LenSize
  BY <1>6, SentFacts
<1>8. rx.got[1][1] = r
  <2>1. 1 \in 1 .. LenSize
    BY ONLY <1>2
  <2>2. rx.got[1] = <<r, 1>>
    BY <1>3, <2>1
  <2> QED
    BY ONLY <2>2
<1> DEFINE b == Bytes(r)
           c == SubSeq(b, 1, LenSize)
<1>9. b \in Seq(Byte) /\ Len(b) = sent[r] /\ \A k \in 1 .. sent[r] : b[k] = <<r, k>>
  BY <1>6, <1>7, BytesFacts
<1> HIDE DEF b
<1>10. c \in Seq(Byte) /\ Len(c) = LenSize /\ \A k \in 1 .. LenSize : c[k] = b[k]
  BY <1>2, <1>7, <1>9, SplitSeq
<1>11. \A k \in 1 .. LenSize : c[k] = rx.got[k]
  <2>1. \A k \in 1 .. LenSize : k \in 1 .. sent[r]
    BY ONLY <1>2, <1>7
  <2> QED
    BY <1>3, <1>9, <1>10, <2>1, Zenon
<1> HIDE DEF c
<1>12. rx.got = c
  BY <1>2, <1>10, <1>11, SeqEqual
<1>13. LenOf(rx.got) = sent[r]
  BY <1>8, <1>12 DEF LenOf, b, c
<1> QED
  BY <1>1, <1>6, <1>13

\* The length of a message is there, or the connection is given up.
LEMMA ReadLenKeeps ==
  ASSUME Inv, ReadLen PROVE Inv'
<1>0. /\ TypeInv /\ ReaderInv /\ WireInv /\ open /\ rx.pc = "len" /\ UNCHANGED sender
  BY DEF Inv, ReadLen, ReaderStep
<1>1. CASE ~(Len(rx.got) = LenSize /\ LenValid(LenOf(rx.got)))
  BY <1>0, <1>1, Loses, ZenonT(30) DEF ReadLen
<1>2. CASE Len(rx.got) = LenSize /\ LenValid(LenOf(rx.got))
  <2>1. /\ UNCHANGED <<sent, front, bytesize, wire, received, open>>
        /\ rx' = [pc |-> "test", got |-> << >>, message |-> rx.got, bufsize |-> LenOf(rx.got)]
    BY <1>0, <1>2 DEF ReadLen, sender
  <2>2. Reading \in 1 .. Len(sent) /\ LenOf(rx.got) = sent[Reading]
    BY <1>0, <1>2, LenIsLen
  <2>3. sent[Reading] \in Nat /\ rx.got \in Seq(Byte) /\ << >> \in Seq(Byte) /\ rx.message = << >>
    BY <1>0, <2>2, SentFacts, RxFacts DEF ReaderInv
  <2>4. /\ rx' \in Rx /\ rx'.pc = "test" /\ rx'.got = << >> /\ rx'.message = rx.got
        /\ rx'.bufsize = sent[Reading]
    BY ONLY <2>1, <2>2, <2>3 DEF Rx
  <2>5. TypeInv'
    BY <1>0, <2>1, <2>4 DEF TypeInv
  <2>6. UNCHANGED <<Reading, Have>>
    <3>1. Len(<< >>) + Len(rx.got) = Len(rx.got) + Len(<< >>)
      BY ONLY <2>3
    <3> QED
      BY <2>1, <2>3, <2>4, <3>1, Zenon DEF Reading, Have
  <2>7. Due' = Due
    BY <2>1, <2>6 DEF Due
  <2>8. ReaderInv'
    <3>1. \A k \in 1 .. Len(rx.got) : rx.got[k] = <<Reading, k>>
      <4>1. ASSUME NEW k \in 1 .. Len(rx.got) PROVE rx.got[k] = <<Reading, Len(<< >>) + k>>
        BY <1>0, <2>3 DEF ReaderInv
      <4>2. \A k \in 1 .. Len(rx.got) : Len(<< >>) + k = k
        BY ONLY <2>3
      <4> QED
        BY <4>1, <4>2
    <3>2. 1 .. Len(<< >>) = {}
      OBVIOUS
    <3>3. rx.got # << >>
      BY <1>0, <2>1 DEF ReadLen
    <3> QED
      BY <1>0, <2>1, <2>2, <2>4, <2>6, <3>1, <3>2, <3>3 DEF ReaderInv
  <2> QED
    BY <1>0, <2>1, <2>5, <2>7, <2>8, WireSame DEF Inv
<1> QED
  BY <1>1, <1>2

\* A message that is complete is the next one that was sent.
LEMMA WholeIsNext ==
  ASSUME TypeInv, ReaderInv, rx.pc = "test", Len(rx.message) = rx.bufsize
  PROVE  /\ Reading \in 1 .. Len(sent) /\ Have = sent[Reading] /\ rx.message = Bytes(Reading)
<1>1. rx.message # << >> /\ rx.got = << >> /\ rx.message \in Seq(Byte)
  BY RxFacts DEF ReaderInv
<1>2. Len(rx.message) = sent[Reading]
  BY <1>1 DEF ReaderInv
<1>3. Len(rx.message) + Len(<< >>) = Len(rx.message) /\ Len(rx.message) > 0
  BY ONLY <1>1
<1>4. Have = sent[Reading] /\ Have > 0
  BY <1>1, <1>2, <1>3, Zenon DEF Have
<1>5. Reading \in 1 .. Len(sent)
  <2>1. Reading <= Len(sent) /\ Reading \in Nat /\ Reading > 0 /\ Len(sent) \in Nat
    BY <1>4, RxFacts, SentFacts DEF ReaderInv
  <2> QED
    BY ONLY <2>1
<1>6. sent[Reading] \in Nat
  BY <1>5, SentFacts
<1> DEFINE b == Bytes(Reading)
<1>7. b \in Seq(Byte) /\ Len(b) = sent[Reading] /\ \A k \in 1 .. sent[Reading] : b[k] = <<Reading, k>>
  BY <1>5, <1>6, BytesFacts
<1>8. \A k \in 1 .. sent[Reading] : rx.message[k] = <<Reading, k>>
  BY <1>2 DEF ReaderInv
<1> HIDE DEF b
<1>9. rx.message = b
  <2>1. \A k \in 1 .. Len(b) : rx.message[k] = b[k]
    BY <1>7, <1>8, Zenon
  <2>2. Len(rx.message) = Len(b)
    BY <1>2, <1>7
  <2> QED
    BY <1>1, <1>7, <2>1, <2>2, SeqEqual
<1> QED
  BY <1>4, <1>5, <1>9 DEF b

\* A message that is not complete is read on, one that is complete is passed on.
LEMMA TestKeeps ==
  ASSUME Inv, Test
  PROVE  /\ Inv'
         /\ \/ ~open' /\ open /\ UNCHANGED <<sent, received>>
            \/ UNCHANGED <<sent, received, open>>
            \/ /\ open /\ UNCHANGED <<sent, open>> /\ Reading \in 1 .. Len(sent)
               /\ received' = Append(received, Bytes(Reading))
<1>0. /\ TypeInv /\ ReaderInv /\ WireInv /\ open /\ rx.pc = "test" /\ UNCHANGED sender
      /\ UNCHANGED <<sent, front, bytesize>>
  BY DEF Inv, Test, ReaderStep, sender
<1>1. CASE Len(rx.message) # rx.bufsize
  <2>1. UNCHANGED <<wire, received, open>> /\ rx' = [rx EXCEPT !.pc = "body"]
    BY <1>1 DEF Test
  <2>2. rx \in Rx /\ rx.got = << >>
    BY <1>0 DEF TypeInv, ReaderInv
  <2>3. /\ rx' \in Rx /\ rx'.pc = "body" /\ rx'.got = rx.got /\ rx'.message = rx.message
        /\ rx'.bufsize = rx.bufsize
    BY ONLY <2>1, <2>2 DEF Rx
  <2>4. TypeInv'
    BY <1>0, <2>1, <2>3 DEF TypeInv
  <2>5. UNCHANGED <<Reading, Have, Due>>
    BY <1>0, <2>1, <2>3 DEF Reading, Have, Due
  <2>6. ReaderInv'
    BY <1>0, <2>1, <2>3, <2>5 DEF ReaderInv
  <2> QED
    BY <1>0, <2>1, <2>4, <2>5, <2>6, WireSame DEF Inv
<1>2. CASE Len(rx.message) = rx.bufsize /\ Len(received) - handled = MqSize - 1
  <2>1. Lose
    BY <1>2 DEF Test
  <2> QED
    BY <1>0, <2>1, Loses, Zenon DEF Lose
<1>3. CASE Len(rx.message) = rx.bufsize /\ Len(received) - handled # MqSize - 1
  <2>1. /\ UNCHANGED <<wire, open>> /\ received' = Append(received, rx.message)
        /\ rx' = [pc |-> "len", got |-> << >>, message |-> << >>, bufsize |-> 0]
    BY <1>3 DEF Test
  <2>2. Reading \in 1 .. Len(sent) /\ Have = sent[Reading] /\ rx.message = Bytes(Reading)
    BY <1>0, <1>3, WholeIsNext
  <2>3. /\ received \in Seq(Seq(Byte)) /\ rx.message \in Seq(Byte) /\ << >> \in Seq(Byte)
        /\ Len(sent) \in Nat /\ Reading \in Nat
    BY <1>0, RxFacts, SentFacts DEF TypeInv
  <2>4. received' \in Seq(Seq(Byte)) /\ Len(received') = Len(received) + 1
    BY ONLY <2>1, <2>3
  <2>5. rx' \in Rx /\ rx'.pc = "len" /\ rx'.got = << >> /\ rx'.message = << >>
    BY ONLY <2>1, <2>3 DEF Rx
  <2>6. TypeInv'
    BY <1>0, <2>1, <2>4, <2>5 DEF TypeInv
  <2>7. Reading' = Reading + 1
    BY <2>4, Zenon DEF Reading
  <2>8. Have' = 0 /\ Len(<< >>) = 0
    <3>1. Len(<< >>) + Len(<< >>) = 0 /\ Len(<< >>) = 0
      OBVIOUS
    <3> QED
      BY <2>5, <3>1, Zenon DEF Have
  <2>9. Due' = <<Reading + 1, 1>>
    <3>1. ~(Reading' <= Len(sent) /\ Have' = sent[Reading'])
      <4>1. SUFFICES ASSUME Reading' <= Len(sent), Have' = sent[Reading'] PROVE FALSE
        OBVIOUS
      <4>2. Reading + 1 \in 1 .. Len(sent)
        BY <2>3, <2>7, <4>1
      <4>3. sent[Reading + 1] > LenSize /\ LenSize \in Nat /\ sent[Reading + 1] \in Nat
        BY <1>0, <4>2, SentFacts, SizeFacts
      <4> QED
        BY <2>7, <2>8, <4>1, <4>3
    <3>2. 0 + 1 = 1
      OBVIOUS
    <3>3. Due' = <<Reading', Have' + 1>>
      BY <1>0, <3>1 DEF Due
    <3> QED
      BY <2>7, <2>8, <3>2, <3>3
  <2>10. Due = <<Reading + 1, 1>>
    <3>1. Reading <= Len(sent)
      BY <2>2, <2>3
    <3> QED
      BY <2>2, <3>1 DEF Due
  <2>11. ReaderInv'
    <3>1. Reading' <= Len(sent') + 1 /\ ~(Have' > 0)
      BY <1>0, <2>2, <2>3, <2>7, <2>8
    <3>2. 1 .. Len(<< >>) = {} /\ Len(<< >>) <= LenSize
      BY <2>8, SizeFacts
    <3> QED
      BY <2>5, <3>1, <3>2 DEF ReaderInv
  <2> QED
    BY <1>0, <2>1, <2>2, <2>6, <2>9, <2>10, <2>11, WireSame DEF Inv
<1> QED
  BY <1>1, <1>2, <1>3

-----------------------------------------------------------------------------
(* The connection as a FIFO.                                               *)

\* the message i of the messages with the sizes s, and those after the first c
MessageOf(s, i) == [k \in 1 .. s[i] |-> <<i, k>>]
Way(s, c) == [j \in 1 .. Len(s) - c |-> MessageOf(s, c + j)]

\* The messages after the first c.
LEMMA WayFacts ==
  ASSUME NEW s \in Seq(Size), NEW n \in Nat, n = Len(s), NEW c \in Nat, c <= n
  PROVE  /\ Way(s, c) \in Seq(Seq(Byte)) /\ Len(Way(s, c)) = n - c
         /\ \A j \in 1 .. (n - c) : Way(s, c)[j] = MessageOf(s, c + j)
<1> DEFINE v == Way(s, c)
<1>1. v = [j \in 1 .. (n - c) |-> MessageOf(s, c + j)]
  BY DEF Way
<1>2. ASSUME NEW j \in 1 .. (n - c) PROVE MessageOf(s, c + j) \in Seq(Byte)
  <2>1. c + j \in 1 .. n /\ c + j \in Nat
    OBVIOUS
  <2>2. s[c + j] \in Size
    BY <2>1
  <2>3. s[c + j] \in Nat
    BY <2>2, SizeFacts
  <2> DEFINE m == MessageOf(s, c + j)
  <2>4. m = [k \in 1 .. s[c + j] |-> <<c + j, k>>]
    BY DEF MessageOf
  <2> HIDE DEF m
  <2>5. m \in [1 .. s[c + j] -> Byte]
    BY ONLY <2>1, <2>3, <2>4 DEF Byte
  <2>6. m \in Seq(Byte)
    BY ONLY <2>3, <2>5
  <2> QED
    BY <2>6 DEF m
<1> HIDE DEF v
<1>0. n - c \in Nat
  BY ONLY n \in Nat, c \in Nat, c <= n
<1>3. v \in [1 .. (n - c) -> Seq(Byte)]
  BY ONLY <1>1, <1>2, Zenon
<1> DEFINE d == n - c
<1>a. v \in [1 .. d -> Seq(Byte)] /\ d \in Nat
  BY <1>0, <1>3
<1> HIDE DEF d
<1>b. v \in Seq(Seq(Byte)) /\ Len(v) = d
  BY ONLY <1>a
<1>4. v \in Seq(Seq(Byte)) /\ Len(v) = n - c
  BY <1>b DEF d
<1>5. \A j \in 1 .. (n - c) : v[j] = MessageOf(s, c + j)
  BY <1>1
<1> QED
  BY <1>4, <1>5 DEF v

\* Another message is the last one on the way.
LEMMA WayAppend ==
  ASSUME NEW s \in Seq(Size), NEW n \in Nat, n = Len(s), NEW c \in Nat, c <= n, NEW z \in Size
  PROVE  Way(Append(s, z), c) = Append(Way(s, c), [k \in 1 .. z |-> <<n + 1, k>>])
<1> DEFINE t == Append(s, z)
           v == Way(s, c)
           u == Way(t, c)
           m == [k \in 1 .. z |-> <<n + 1, k>>]
<1>1. t \in Seq(Size) /\ Len(t) = n + 1 /\ t[n + 1] = z /\ \A i \in 1 .. n : t[i] = s[i]
  OBVIOUS
<1>2. v \in Seq(Seq(Byte)) /\ Len(v) = n - c /\ \A j \in 1 .. (n - c) : v[j] = MessageOf(s, c + j)
  BY WayFacts
<1> HIDE DEF t, v
<1>a. n + 1 \in Nat /\ c <= n + 1
  OBVIOUS
<1>3. /\ u \in Seq(Seq(Byte)) /\ Len(u) = (n + 1) - c
      /\ \A j \in 1 .. ((n + 1) - c) : u[j] = MessageOf(t, c + j)
  BY <1>1, <1>a, WayFacts
<1>4. MessageOf(t, n + 1) = m /\ \A i \in 1 .. n : MessageOf(t, i) = MessageOf(s, i)
  BY <1>1 DEF MessageOf
<1> HIDE DEF u, m
<1>5. (n + 1) - c \in 1 .. ((n + 1) - c) /\ c + ((n + 1) - c) = n + 1
  BY ONLY n \in Nat, c \in Nat, c <= n
<1>6. u[(n + 1) - c] = m
  BY <1>3, <1>4, <1>5
<1>7. m \in Seq(Byte)
  BY ONLY <1>3, <1>5, <1>6
<1> DEFINE w == Append(v, m)
<1>8. /\ w \in Seq(Seq(Byte)) /\ Len(w) = (n - c) + 1 /\ w[(n - c) + 1] = m
      /\ \A j \in 1 .. (n - c) : w[j] = v[j]
  BY ONLY <1>2, <1>7
<1> HIDE DEF w
<1>9. ASSUME NEW j \in 1 .. ((n + 1) - c) PROVE u[j] = w[j]
  <2>1. CASE j \in 1 .. (n - c)
    <3>1. c + j \in 1 .. n
      BY ONLY <2>1, n \in Nat, c \in Nat, c <= n
    <3> QED
      BY <1>2, <1>3, <1>4, <1>8, <2>1, <3>1
  <2>2. CASE j \notin 1 .. (n - c)
    <3>1. j = (n + 1) - c /\ j = (n - c) + 1
      BY ONLY <1>9, <2>2, n \in Nat, c \in Nat, c <= n
    <3> QED
      BY <1>6, <1>8, <3>1
  <2> QED
    BY <2>1, <2>2
<1>10. Len(w) = (n + 1) - c
  BY ONLY <1>8, n \in Nat, c \in Nat
<1>11. u = w
  BY <1>3, <1>8, <1>9, <1>10, SeqEqual, Zenon
<1> QED
  BY <1>11 DEF u, w, v, t, m

\* The first message on the way, and those behind it.
LEMMA WayTail ==
  ASSUME NEW s \in Seq(Size), NEW n \in Nat, n = Len(s), NEW c \in Nat, c < n
  PROVE  /\ Way(s, c) # << >> /\ Head(Way(s, c)) = MessageOf(s, c + 1)
         /\ Way(s, c + 1) = Tail(Way(s, c))
<1> DEFINE v == Way(s, c)
           u == Way(s, c + 1)
<1>0. c <= n /\ c + 1 <= n /\ c + 1 \in Nat
  OBVIOUS
<1>1. v \in Seq(Seq(Byte)) /\ Len(v) = n - c /\ \A j \in 1 .. (n - c) : v[j] = MessageOf(s, c + j)
  BY <1>0, WayFacts
<1>2. /\ u \in Seq(Seq(Byte)) /\ Len(u) = n - (c + 1)
      /\ \A j \in 1 .. (n - (c + 1)) : u[j] = MessageOf(s, (c + 1) + j)
  BY <1>0, WayFacts
<1> HIDE DEF v, u
<1>3. n - c > 0 /\ 1 \in 1 .. (n - c)
  BY ONLY n \in Nat, c \in Nat, c < n
<1>4. v # << >> /\ Head(v) = v[1]
  BY ONLY <1>1, <1>3
<1> DEFINE w == Tail(v)
<1>5. w \in Seq(Seq(Byte)) /\ Len(w) = (n - c) - 1 /\ \A j \in 1 .. ((n - c) - 1) : w[j] = v[j + 1]
  BY ONLY <1>1, <1>4
<1> HIDE DEF w
<1>6. ASSUME NEW j \in 1 .. (n - (c + 1)) PROVE u[j] = w[j]
  <2>1. j \in 1 .. ((n - c) - 1) /\ j + 1 \in 1 .. (n - c) /\ c + (j + 1) = (c + 1) + j
    BY ONLY <1>6, n \in Nat, c \in Nat, c < n
  <2> QED
    BY <1>1, <1>2, <1>5, <2>1
<1>7. Len(w) = n - (c + 1)
  BY ONLY <1>5, n \in Nat, c \in Nat
<1>8. u = w
  BY <1>2, <1>5, <1>6, <1>7, SeqEqual, Zenon
<1> QED
  BY <1>1, <1>3, <1>4, <1>8 DEF u, v, w

LEMMA OnTheWayIs ==
  /\ OnTheWay = IF open THEN Way(sent, Len(received)) ELSE << >>
  /\ OnTheWay' = IF open' THEN Way(sent', Len(received')) ELSE << >>
  BY DEF OnTheWay, Bytes, Way, MessageOf

\* A step that leaves the messages and the connection alone is no step of the FIFO.
LEMMA LinkSame ==
  ASSUME UNCHANGED <<sent, received, open>> PROVE UNCHANGED Link!vars
<1>1. UNCHANGED OnTheWay
  BY OnTheWayIs
<1>2. UNCHANGED LinkStatus
  BY DEF LinkStatus
<1> QED
  BY <1>1, <1>2 DEF Link!vars

\* Giving the connection up discards what is on the way.
LEMMA LinkDiscards ==
  ASSUME open, ~open', UNCHANGED received PROVE Link!Next
<1>1. LinkStatus = "running" /\ LinkStatus' = "deleted"
  BY DEF LinkStatus
<1>2. OnTheWay' = << >>
  BY OnTheWayIs
<1> QED
  BY <1>1, <1>2 DEF Link!Next, Link!Discard

\* The facts about what is on the way that Put and Take need.
LEMMA WayState ==
  ASSUME TypeInv, ReaderInv
  PROVE  /\ sent \in Seq(Size) /\ Len(sent) \in Nat /\ Len(received) \in Nat
         /\ Len(received) <= Len(sent)
<1>1. sent \in Seq(Size) /\ received \in Seq(Seq(Byte)) /\ Len(received) + 1 <= Len(sent) + 1
  BY DEF TypeInv, ReaderInv, Reading
<1> QED
  BY ONLY <1>1

\* A message that is written is put into the FIFO.
LEMMA LinkPuts ==
  ASSUME Inv, NEW size \in Size, WriteMessage(size) PROVE Link!Next
<1>0. /\ TypeInv /\ ReaderInv /\ open /\ open' /\ sent' = Append(sent, size) /\ received' = received
      /\ Len(sent) < MaxMessage
  BY DEF Inv, WriteMessage, receiver
<1>1. PICK n \in Nat, c \in Nat : n = Len(sent) /\ c = Len(received)
  BY <1>0, WayState
<1>2. sent \in Seq(Size) /\ c <= n
  BY <1>0, <1>1, WayState
<1> DEFINE m == [k \in 1 .. size |-> <<n + 1, k>>]
<1>3. OnTheWay = Way(sent, c) /\ OnTheWay' = Way(Append(sent, size), c)
  BY <1>0, <1>1, OnTheWayIs
<1>4. OnTheWay' = Append(OnTheWay, m)
  BY <1>1, <1>2, <1>3, WayAppend
<1>5. Len(OnTheWay) = n - c
  BY <1>1, <1>2, <1>3, WayFacts, Zenon
<1>6. n < MaxMessage /\ n - c < MaxMessage /\ n + 1 \in 1 .. MaxMessage
  BY <1>0, <1>1, <1>2, SizeFacts
<1> DEFINE M == {[k \in 1 .. z |-> <<i, k>>] : z \in Size, i \in 1 .. MaxMessage}
<1>7. m \in M
  BY ONLY <1>6, size \in Size
<1>8. LinkStatus = "running" /\ LinkStatus' = "running"
  BY <1>0 DEF LinkStatus
<1> HIDE DEF m
<1>9. Link!Put(m)
  BY ONLY <1>0, <1>4, <1>5, <1>6, <1>8 DEF Link!Put
<1>10. (\E x \in M : Link!Put(x)) => Link!Next
  BY ONLY DEF Link!Next
<1> HIDE DEF M
<1> QED
  BY ONLY <1>7, <1>9, <1>10, Zenon

\* A message that is read whole is taken from the FIFO.
LEMMA LinkTakes ==
  ASSUME TypeInv, ReaderInv, open, UNCHANGED <<sent, open>>, Reading \in 1 .. Len(sent),
         received' = Append(received, Bytes(Reading))
  PROVE  Link!Next
<1>1. PICK n \in Nat, c \in Nat : n = Len(sent) /\ c = Len(received)
  BY WayState
<1>2. sent \in Seq(Size) /\ received \in Seq(Seq(Byte))
  BY DEF TypeInv
<1>3. Reading = c + 1 /\ c < n
  BY <1>1 DEF Reading
<1>4. Len(received') = c + 1
  BY <1>1, <1>2
<1>5. OnTheWay = Way(sent, c) /\ OnTheWay' = Way(sent, c + 1)
  BY <1>1, <1>4, OnTheWayIs
<1>6. OnTheWay # << >> /\ Head(OnTheWay) = MessageOf(sent, c + 1) /\ OnTheWay' = Tail(OnTheWay)
  BY <1>1, <1>2, <1>3, <1>5, WayTail
<1>7. Bytes(Reading) = MessageOf(sent, c + 1)
  BY <1>3 DEF Bytes, MessageOf
<1>8. LinkStatus = "running" /\ LinkStatus' = "running"
  BY DEF LinkStatus
<1>9. received' = Append(received, Head(OnTheWay))
  BY <1>6, <1>7
<1> QED
  BY ONLY <1>6, <1>8, <1>9 DEF Link!Next, Link!Take

LEMMA InvStarts ==
  ASSUME Init PROVE Inv /\ Link!Init
<1>0. /\ sent = << >> /\ front = 1 /\ bytesize = 0 /\ wire = << >> /\ received = << >> /\ open = TRUE
      /\ rx = [pc |-> "idle", got |-> << >>, message |-> << >>, bufsize |-> 0]
  BY DEF Init
<1>1. Len(sent) = 0 /\ Len(received) = 0 /\ Len(wire) = 0 /\ Len(rx.message) = 0 /\ Len(rx.got) = 0
  BY <1>0
<1>2. TypeInv
  <2>1. << >> \in Seq(Byte)
    OBVIOUS
  <2>2. rx \in Rx
    BY <1>0, <2>1 DEF Rx
  <2> QED
    BY <1>0, <1>1, <2>2 DEF TypeInv
<1>3. Reading = 1 /\ Have = 0 /\ Due = <<1, 1>>
  BY <1>1 DEF Reading, Have, Due
<1>4. ReaderInv
  BY <1>0, <1>1, <1>3 DEF ReaderInv
<1>5. WireInv
  BY <1>0, <1>1, <1>3 DEF WireInv, Road
<1>6. OnTheWay = << >>
  BY <1>0, <1>1 DEF OnTheWay
<1>7. LinkStatus = "running"
  BY <1>0 DEF LinkStatus
<1> QED
  BY <1>0, <1>2, <1>4, <1>5, <1>6, <1>7 DEF Inv, Link!Init

\* Every step keeps the invariant, and is a step of the FIFO or none.
LEMMA StepIsLinkStep ==
  ASSUME Inv, [Next]_vars PROVE Inv' /\ [Link!Next]_(Link!vars)
<1>1. CASE PollWrite \/ WriteEnds \/ CloseSender \/ Handle \/ UNCHANGED vars
  <2>1. UNCHANGED core
    BY <1>1 DEF PollWrite, WriteEnds, CloseSender, Handle, vars, core, sender, receiver
  <2> QED
    BY <2>1, CoreSame, LinkSame DEF core
<1>2. ASSUME NEW size \in Size, WriteMessage(size) PROVE Inv' /\ Link!Next
  BY <1>2, WriteMessageKeeps, LinkPuts
<1>3. ASSUME NEW n \in Piece, Send(n) PROVE Inv' /\ UNCHANGED Link!vars
  <2>1. UNCHANGED <<sent, received, open>>
    BY <1>3 DEF Send, receiver
  <2> QED
    BY <1>3, <2>1, SendKeeps, LinkSame
<1>4. ASSUME NEW n \in Piece, Recv(n) PROVE Inv' /\ UNCHANGED Link!vars
  <2>1. UNCHANGED <<sent, received, open>>
    BY <1>4 DEF Recv, ReaderStep, sender
  <2> QED
    BY <1>4, <2>1, RecvKeeps, LinkSame
<1>5. ASSUME PollRead \/ ReadAgain PROVE Inv' /\ UNCHANGED Link!vars
  <2>1. UNCHANGED <<sent, received, open>>
    BY <1>5 DEF PollRead, ReadAgain, ReaderStep, sender
  <2> QED
    BY <1>5, <2>1, PollKeeps, LinkSame
<1>6. ASSUME ReadBody PROVE Inv' /\ UNCHANGED Link!vars
  <2>1. UNCHANGED <<sent, received, open>>
    BY <1>6 DEF ReadBody, ReaderStep, sender
  <2> QED
    BY <1>6, <2>1, ReadBodyKeeps, LinkSame
<1>7. ASSUME RecvEnd PROVE Inv' /\ Link!Next
  <2>1. Lose /\ open /\ UNCHANGED sender /\ UNCHANGED received /\ ~open'
    BY <1>7 DEF RecvEnd, ReaderStep, Lose
  <2> QED
    BY <2>1, Loses, LinkDiscards
<1>8. ASSUME ReadLen PROVE Inv' /\ [Link!Next]_(Link!vars)
  <2>1. open /\ UNCHANGED <<sent, received>> /\ (~open' \/ UNCHANGED open)
    BY <1>8, Zenon DEF ReadLen, ReaderStep, Lose, sender
  <2> QED
    BY <1>8, <2>1, ReadLenKeeps, LinkSame, LinkDiscards, Zenon
<1>9. ASSUME Test PROVE Inv' /\ [Link!Next]_(Link!vars)
  <2>0. open /\ TypeInv /\ ReaderInv
    BY <1>9 DEF Test, ReaderStep, Inv
  <2> QED
    BY <1>9, <2>0, TestKeeps, LinkSame, LinkDiscards, LinkTakes, Zenon
<1> QED
  BY <1>1, <1>2, <1>3, <1>4, <1>5, <1>6, <1>7, <1>8, <1>9 DEF Next, Writer, Reader

\* A connection is a FIFO of messages until one side gives it up: whatever the
\* sizes and however send and recv cut the stream, slam_socket_poll_read hands
\* over the messages slam_socket_write_message took, whole, once and in order.
THEOREM SocketImplementsFifo == Spec => ImplementsFifo
<1>1. Init => Inv /\ Link!Init
  BY InvStarts
<1>2. Inv /\ [Next]_vars => Inv' /\ [Link!Next]_(Link!vars)
  BY StepIsLinkStep
<1> QED
  BY <1>1, <1>2, PTL DEF Spec, ImplementsFifo, Link!Spec

-----------------------------------------------------------------------------
(* No byte is lost or repeated.                                            *)

\* the first n messages, and the bytes of them that were sent when b bytes of the
\* message f are gone
Messages(s, n) == [i \in 1 .. n |-> MessageOf(s, i)]
Out(s, f, b) ==
  Joined(Messages(s, f - 1)) \o (IF b = 0 THEN << >> ELSE SubSeq(MessageOf(s, f), 1, b))

\* what has arrived or is on the way
Arrived == Joined(received) \o rx.message \o rx.got \o wire

LEMMA StreamIs ==
  /\ StreamConserved <=> (open => Arrived = Out(sent, front, bytesize))
  /\ StreamConserved' <=> (open' => Arrived' = Out(sent', front', bytesize'))
  BY Zenon DEF StreamConserved, Arrived, Out, Messages, MessageOf, Bytes

LEMMA MessageIs ==
  ASSUME NEW s \in Seq(Size), NEW i \in 1 .. Len(s)
  PROVE  /\ s[i] \in Nat /\ MessageOf(s, i) \in Seq(Byte) /\ Len(MessageOf(s, i)) = s[i]
<1>1. s[i] \in Nat /\ i \in Nat
  BY SizeFacts
<1> DEFINE b == MessageOf(s, i)
<1>2. b = [k \in 1 .. s[i] |-> <<i, k>>]
  BY DEF MessageOf
<1> HIDE DEF b
<1>3. b \in [1 .. s[i] -> Byte]
  BY ONLY <1>1, <1>2 DEF Byte
<1>4. b \in Seq(Byte) /\ Len(b) = s[i]
  BY ONLY <1>1, <1>3
<1> QED
  BY <1>1, <1>4 DEF b

LEMMA MessagesAre ==
  ASSUME NEW s \in Seq(Size), NEW n \in Nat, n <= Len(s)
  PROVE  /\ Messages(s, n) \in Seq(Seq(Byte))
         /\ n + 1 <= Len(s) => Messages(s, n + 1) = Append(Messages(s, n), MessageOf(s, n + 1))
<1> DEFINE m == Messages(s, n)
<1>1. m = [i \in 1 .. n |-> MessageOf(s, i)]
  BY DEF Messages
<1>2. ASSUME NEW i \in 1 .. n PROVE MessageOf(s, i) \in Seq(Byte)
  <2>1. i \in 1 .. Len(s)
    OBVIOUS
  <2> QED
    BY <2>1, MessageIs
<1> HIDE DEF m
<1>3. PICK U : U = Seq(Byte)
  OBVIOUS
<1>4. m \in [1 .. n -> U]
  BY ONLY <1>1, <1>2, <1>3
<1>5. m \in Seq(U) /\ Len(m) = n
  BY ONLY <1>4, n \in Nat
<1>6. ASSUME n + 1 <= Len(s) PROVE Messages(s, n + 1) = Append(m, MessageOf(s, n + 1))
  <2>1. PICK e \in U : e = MessageOf(s, n + 1)
    <3>1. n + 1 \in 1 .. Len(s)
      BY <1>6
    <3> QED
      BY <1>3, <3>1, MessageIs
  <2> DEFINE u == Messages(s, n + 1)
             w == Append(m, e)
  <2>2. w \in Seq(U) /\ Len(w) = n + 1 /\ w[n + 1] = e /\ \A i \in 1 .. n : w[i] = m[i]
    <3>1. /\ w \in Seq(U) /\ Len(w) = Len(m) + 1 /\ \A i \in 1 .. Len(m) : w[i] = m[i]
          /\ w[Len(m) + 1] = e
      BY <1>5, AppendProperties
    <3> QED
      BY <1>5, <3>1
  <2>3. u = [i \in 1 .. n + 1 |-> MessageOf(s, i)]
    BY DEF Messages
  <2> HIDE DEF u, w
  <2>4. w = [i \in 1 .. n + 1 |-> w[i]]
    BY ONLY <2>2, n \in Nat
  <2>5. ASSUME NEW i \in 1 .. n + 1 PROVE w[i] = MessageOf(s, i)
    <3>1. i \in 1 .. n \/ i = n + 1
      OBVIOUS
    <3> QED
      BY <1>1, <2>1, <2>2, <3>1
  <2>6. w = u
    BY ONLY <2>3, <2>4, <2>5
  <2> QED
    BY ONLY <2>1, <2>6 DEF u, w
<1> QED
  BY <1>3, <1>5, <1>6 DEF m

\* What was sent does not depend on the messages behind.
LEMMA OutSame ==
  ASSUME NEW s, NEW t, NEW f \in Nat \ {0}, NEW b,
         \A i \in 1 .. f - 1 : s[i] = t[i], b # 0 => s[f] = t[f]
  PROVE  Out(s, f, b) = Out(t, f, b)
<1>1. Messages(s, f - 1) = Messages(t, f - 1)
  <2>1. \A i \in 1 .. f - 1 : MessageOf(s, i) = MessageOf(t, i)
    BY DEF MessageOf
  <2> QED
    BY ONLY <2>1 DEF Messages
<1>2. b # 0 => MessageOf(s, f) = MessageOf(t, f)
  BY DEF MessageOf
<1> QED
  BY ONLY <1>1, <1>2, Zenon DEF Out

\* What was sent once send has taken n bytes more.
LEMMA OutSends ==
  ASSUME NEW s \in Seq(Size), NEW f \in 1 .. Len(s), NEW b \in Nat, NEW n \in Nat, n > 0,
         b + n <= s[f]
  PROVE  /\ Out(s, f, b) \in Seq(Byte) /\ SubSeq(MessageOf(s, f), b + 1, b + n) \in Seq(Byte)
         /\ Out(s, f, b) \o SubSeq(MessageOf(s, f), b + 1, b + n)
              = IF b + n = s[f] THEN Out(s, f + 1, 0) ELSE Out(s, f, b + n)
<1>1. PICK m \in Seq(Byte), z \in Nat : m = MessageOf(s, f) /\ z = s[f] /\ Len(m) = z
  BY MessageIs
<1>2. f - 1 \in Nat /\ f - 1 <= Len(s) /\ (f - 1) + 1 = f /\ f <= Len(s)
  OBVIOUS
<1>3. PICK ms \in Seq(Seq(Byte)) : ms = Messages(s, f - 1) /\ Messages(s, f) = Append(ms, m)
  BY <1>1, <1>2, MessagesAre
<1>4. PICK o \in Seq(Byte) : o = Joined(ms) /\ Joined(Append(ms, m)) = o \o m
  BY JoinedAppend
<1> DEFINE a == IF b = 0 THEN << >> ELSE SubSeq(m, 1, b)
           c == SubSeq(m, b + 1, b + n)
<1>5. a = SubSeq(m, 1, b)
  BY <1>1
<1>6. b \in 0 .. z /\ b + n \in b .. z /\ 1 \in 1 .. z + 1
  BY <1>1
<1>7. a \in Seq(Byte) /\ c \in Seq(Byte)
  <2>1. Len(m) = z
    BY <1>1
  <2>2. SubSeq(m, 1, b) \in Seq(Byte)
    BY ONLY <1>6, <2>1, m \in Seq(Byte), z \in Nat, b \in Nat
  <2>3. SubSeq(m, b + 1, b + n) \in Seq(Byte)
    BY ONLY <1>6, <2>1, m \in Seq(Byte), z \in Nat, b \in Nat, n \in Nat
  <2> QED
    BY ONLY <1>5, <2>2, <2>3
<1>8. SubSeq(m, 1, b) \o SubSeq(m, b + 1, b + n) = SubSeq(m, 1, b + n)
  BY <1>1, <1>6, ConcatAdjacentSubSeq
<1>9. Out(s, f, b) = o \o a
  BY ONLY <1>1, <1>3, <1>4, Zenon DEF Out
<1>10. a \o c = SubSeq(m, 1, b + n)
  BY ONLY <1>5, <1>8, Zenon
<1> HIDE DEF a, c
<1>11. (o \o a) \o c = o \o (a \o c) /\ o \o a \in Seq(Byte)
  <2>1. (o \o a) \o c = o \o (a \o c)
    <3>1. Cat(Cat(o, a), c) = Cat(o, Cat(a, c))
      BY ONLY <1>7, o \in Seq(Byte), CatLaws
    <3> QED
      BY ONLY <3>1, Zenon DEF Cat
  <2>2. o \o a \in Seq(Byte)
    BY ONLY <1>7, o \in Seq(Byte)
  <2> QED
    BY ONLY <2>1, <2>2
<1>12. CASE b + n = z
  <2>1. SubSeq(m, 1, b + n) = m
    BY ONLY <1>1, <1>12, m \in Seq(Byte)
  <2>2. Out(s, f + 1, 0) = Joined(Messages(s, f)) \o << >>
    <3>1. (f + 1) - 1 = f
      OBVIOUS
    <3> QED
      BY <3>1, Zenon DEF Out
  <2>3. Joined(Messages(s, f)) = o \o m
    BY ONLY <1>3, <1>4, Zenon
  <2>4. (o \o m) \o << >> = o \o m
    BY ONLY o \in Seq(Byte), m \in Seq(Byte)
  <2>5. Out(s, f, b) \o c = Out(s, f + 1, 0)
    BY ONLY <1>9, <1>10, <1>11, <2>1, <2>2, <2>3, <2>4, Zenon
  <2> QED
    BY ONLY <1>1, <1>7, <1>9, <1>11, <1>12, <2>5, Zenon DEF c
<1>13. CASE b + n # z
  <2>1. b + n # 0
    OBVIOUS
  <2>2. Out(s, f, b + n) = o \o SubSeq(m, 1, b + n)
    BY ONLY <1>1, <1>3, <1>4, <2>1, Zenon DEF Out
  <2>3. Out(s, f, b) \o c = Out(s, f, b + n)
    BY ONLY <1>9, <1>10, <1>11, <2>2
  <2> QED
    BY ONLY <1>1, <1>7, <1>9, <1>11, <1>13, <2>3, Zenon DEF c
<1> QED
  BY <1>12, <1>13, Zenon

LEMMA BytesJoin ==
  /\ \A a, b \in Seq(Byte) : a \o b \in Seq(Byte) /\ a \o << >> = a /\ << >> \o a = a
  /\ \A a, b, c \in Seq(Byte) : (a \o b) \o c = a \o (b \o c)
  /\ << >> \in Seq(Byte)
<1>1. ASSUME NEW a \in Seq(Byte), NEW b \in Seq(Byte)
      PROVE  a \o b \in Seq(Byte) /\ a \o << >> = a /\ << >> \o a = a
  OBVIOUS
<1>2. ASSUME NEW a \in Seq(Byte), NEW b \in Seq(Byte), NEW c \in Seq(Byte)
      PROVE  (a \o b) \o c = a \o (b \o c)
  BY ConcatAssociative
<1> QED
  BY <1>1, <1>2

LEMMA Regroup ==
  ASSUME NEW x \in Seq(Byte), NEW g \in Seq(Byte), NEW a \in Seq(Byte), NEW c \in Seq(Byte)
  PROVE  Cat(Cat(x, g), Cat(a, c)) = Cat(Cat(x, Cat(g, a)), c)
<1>1. Cat(x, g) \in Seq(Byte)
  BY CatLaws
<1>2. Cat(Cat(Cat(x, g), a), c) = Cat(Cat(x, g), Cat(a, c))
  BY <1>1, CatLaws
<1>3. Cat(Cat(x, g), a) = Cat(x, Cat(g, a))
  BY CatLaws
<1> QED
  BY ONLY <1>2, <1>3

\* What Arrived is made of.
LEMMA ArrivedIs ==
  ASSUME TypeInv
  PROVE  /\ received \in Seq(Seq(Byte)) /\ Joined(received) \in Seq(Byte)
         /\ \A e \in Seq(Byte) : Joined(Append(received, e)) = Joined(received) \o e
         /\ rx \in Rx /\ rx.message \in Seq(Byte) /\ rx.got \in Seq(Byte) /\ wire \in Seq(Byte)
<1>1. received \in Seq(Seq(Byte)) /\ rx \in Rx /\ wire \in Seq(Byte)
  BY DEF TypeInv
<1>2. rx.message \in Seq(Byte) /\ rx.got \in Seq(Byte)
  BY RxFacts
<1>3. << >> \in Seq(Byte)
  OBVIOUS
<1>4. Joined(received) \in Seq(Byte)
  BY <1>1, <1>3, JoinedAppend
<1>5. \A e \in Seq(Byte) : Joined(Append(received, e)) = Joined(received) \o e
  BY <1>1, JoinedAppend
<1> QED
  BY <1>1, <1>2, <1>4, <1>5

LEMMA StreamWrite ==
  ASSUME Inv, StreamConserved, NEW size \in Size, WriteMessage(size)
  PROVE  StreamConserved'
<1>0. /\ TypeInv /\ open /\ open' /\ sent' = Append(sent, size)
      /\ UNCHANGED <<front, bytesize, wire, rx, received>>
  BY DEF Inv, WriteMessage, receiver
<1>1. PICK n \in Nat : n = Len(sent)
  BY <1>0, SentFacts
<1>2. sent \in Seq(Size) /\ front \in Nat \ {0} /\ front <= n + 1 /\ (bytesize # 0 => front <= n)
  BY <1>0, <1>1 DEF TypeInv
<1>3. \A i \in 1 .. n : sent'[i] = sent[i]
  BY ONLY <1>0, <1>1, <1>2, size \in Size
<1>4. \A i \in 1 .. front - 1 : sent[i] = sent'[i]
  BY ONLY <1>2, <1>3, n \in Nat
<1>5. bytesize # 0 => sent[front] = sent'[front]
  BY ONLY <1>2, <1>3, n \in Nat
<1>6. PICK t : t = sent'
  OBVIOUS
<1>7. Out(sent, front, bytesize) = Out(t, front, bytesize)
  BY <1>2, <1>4, <1>5, <1>6, OutSame
<1>8. Arrived' = Arrived
  BY <1>0 DEF Arrived
<1>9. Out(sent', front', bytesize') = Out(sent, front, bytesize)
  BY <1>0, <1>6, <1>7
<1> QED
  BY <1>0, <1>8, <1>9, StreamIs

LEMMA StreamSend ==
  ASSUME Inv, StreamConserved, NEW n \in Piece, Send(n)
  PROVE  StreamConserved'
<1>0. TypeInv /\ open /\ UNCHANGED <<sent, rx, received, open>>
  BY DEF Inv, Send, receiver
<1>1. /\ front \in 1 .. Len(sent) /\ n \in Nat /\ n > 0 /\ bytesize + n <= sent[front]
      /\ IF bytesize + n = sent[front] THEN front' = front + 1 /\ bytesize' = 0
                                       ELSE front' = front /\ bytesize' = bytesize + n
  BY <1>0, SendRoad
<1>2. PICK c : c = SubSeq(MessageOf(sent, front), bytesize + 1, bytesize + n)
  BY Zenon
<1>3. wire' = wire \o c
  BY <1>2 DEF Send, Bytes, MessageOf
<1>4. sent \in Seq(Size) /\ bytesize \in Nat
  BY <1>0 DEF TypeInv
<1>5. /\ c \in Seq(Byte)
      /\ Out(sent, front, bytesize) \o c
           = IF bytesize + n = sent[front] THEN Out(sent, front + 1, 0) ELSE Out(sent, front, bytesize + n)
  BY <1>1, <1>2, <1>4, OutSends, Zenon
<1>6. Out(sent', front', bytesize') = Out(sent, front, bytesize) \o c
  BY ONLY <1>0, <1>1, <1>5
<1>7. PICK x \in Seq(Byte) : x = Joined(received) \o rx.message \o rx.got
  BY <1>0, ArrivedIs, BytesJoin, Zenon
<1>8. wire \in Seq(Byte)
  BY <1>0, ArrivedIs
<1>9. Arrived = x \o wire /\ Arrived' = x \o wire'
  BY <1>0, <1>7 DEF Arrived
<1>10. Arrived' = Arrived \o c
  <2>1. (x \o wire) \o c = x \o (wire \o c)
    BY <1>5, <1>8, BytesJoin
  <2> QED
    BY ONLY <1>3, <1>9, <2>1
<1> QED
  BY <1>0, <1>6, <1>10, StreamIs

LEMMA StreamRecv ==
  ASSUME Inv, StreamConserved, NEW n \in Piece, Recv(n)
  PROVE  StreamConserved'
<1>0. /\ TypeInv /\ open /\ UNCHANGED <<sent, front, bytesize, received, open>>
      /\ rx' = [rx EXCEPT !.got = @ \o SubSeq(wire, 1, n)]
      /\ wire' = SubSeq(wire, n + 1, Len(wire)) /\ n <= Len(wire)
  BY DEF Inv, Recv, ReaderStep, sender
<1>1. /\ Joined(received) \in Seq(Byte) /\ rx \in Rx
      /\ rx.message \in Seq(Byte) /\ rx.got \in Seq(Byte) /\ wire \in Seq(Byte)
  BY <1>0, ArrivedIs
<1>2. PICK w \in Nat : w = Len(wire)
  BY <1>1
<1>3. n \in Nat /\ n <= w /\ n \in 0 .. w /\ w \in n .. w /\ 1 \in 1 .. w + 1
  BY <1>0, <1>2, SizeFacts DEF Piece
<1>4. PICK a \in Seq(Byte), c \in Seq(Byte) : a = SubSeq(wire, 1, n) /\ c = wire'
  BY <1>0, <1>1, <1>2, <1>3, SplitSeq, Zenon
<1>5. a \o c = wire
  <2>1. SubSeq(wire, 1, n) \o SubSeq(wire, n + 1, w) = SubSeq(wire, 1, w)
    <3>1. w = Len(wire) /\ n \in 1 - 1 .. Len(wire) /\ w \in n .. Len(wire) /\ 1 \in 1 .. Len(wire) + 1
      BY ONLY <1>2, <1>3, w \in Nat
    <3> QED
      BY <1>1, <3>1, ConcatAdjacentSubSeq, Zenon
  <2>2. SubSeq(wire, 1, w) = wire
    BY ONLY <1>1, <1>2
  <2> QED
    BY ONLY <1>0, <1>2, <1>4, <2>1, <2>2, Zenon
<1>6. PICK q \in Seq(Byte) : q = rx.got \o a
  BY <1>1, BytesJoin, Zenon
<1>7. rx'.message = rx.message /\ rx'.got = q
  <2>1. rx' = [rx EXCEPT !.got = q]
    BY ONLY <1>0, <1>4, <1>6
  <2> QED
    BY ONLY <1>1, <2>1 DEF Rx
<1>8. PICK x \in Seq(Byte) : x = Joined(received) \o rx.message
  BY <1>1, BytesJoin, Zenon
<1>9. Arrived = (x \o rx.got) \o wire /\ Arrived' = (x \o q) \o c
  BY <1>0, <1>4, <1>7, <1>8, ZenonT(30) DEF Arrived
<1>10. PICK g \in Seq(Byte) : g = rx.got
  BY <1>1
<1>11. Arrived' = Arrived
  <2>1. wire = Cat(a, c) /\ q = Cat(g, a) /\ Arrived = Cat(Cat(x, g), wire) /\ Arrived' = Cat(Cat(x, q), c)
    BY ONLY <1>5, <1>6, <1>9, <1>10 DEF Cat
  <2>2. Cat(Cat(x, g), Cat(a, c)) = Cat(Cat(x, Cat(g, a)), c)
    BY Regroup
  <2> QED
    BY ONLY <2>1, <2>2
<1> QED
  BY <1>0, <1>11, StreamIs

\* The reader moves what it has.
LEMMA StreamMoves ==
  ASSUME Inv, StreamConserved, PollRead \/ ReadAgain \/ ReadLen \/ ReadBody \/ Test, open'
  PROVE  StreamConserved'
<1>0. /\ TypeInv /\ ReaderInv /\ open /\ UNCHANGED <<sent, front, bytesize>>
  BY Zenon DEF Inv, PollRead, ReadAgain, ReadLen, ReadBody, Test, ReaderStep, sender
<1>1. /\ Joined(received) \in Seq(Byte) /\ rx \in Rx
      /\ rx.message \in Seq(Byte) /\ rx.got \in Seq(Byte) /\ wire \in Seq(Byte)
      /\ \A e \in Seq(Byte) : Joined(Append(received, e)) = Joined(received) \o e
  BY <1>0, ArrivedIs
<1>2. SUFFICES Arrived' = Arrived
  BY <1>0, StreamIs
<1>3. PICK r \in Seq(Byte), m \in Seq(Byte), g \in Seq(Byte) :
        r = Joined(received) /\ m = rx.message /\ g = rx.got
  BY <1>1
<1>4. Arrived = ((r \o m) \o g) \o wire
  BY <1>3 DEF Arrived
<1>5. CASE PollRead \/ ReadAgain \/ (Test /\ Len(rx.message) # rx.bufsize)
  <2>1. wire' = wire /\ received' = received /\ \E p : rx' = [rx EXCEPT !.pc = p]
    BY <1>5, Zenon DEF PollRead, ReadAgain, Test
  <2>2. rx'.message = rx.message /\ rx'.got = rx.got
    BY ONLY <1>1, <2>1 DEF Rx
  <2> QED
    BY ONLY <2>1, <2>2, Zenon DEF Arrived
<1>6. CASE ReadLen
  <2>1. /\ rx' = [pc |-> "test", got |-> << >>, message |-> rx.got, bufsize |-> LenOf(rx.got)]
        /\ wire' = wire /\ received' = received /\ rx.pc = "len"
    BY <1>6, Zenon DEF ReadLen, Lose, ReaderStep
  <2>2. m = << >>
    BY <1>0, <1>3, <2>1 DEF ReaderInv
  <2>3. Arrived' = ((r \o g) \o << >>) \o wire
    BY ONLY <1>3, <2>1 DEF Arrived
  <2>4. (r \o g) \o << >> = r \o g /\ r \o << >> = r
    BY BytesJoin
  <2> QED
    BY ONLY <1>4, <2>2, <2>3, <2>4
<1>7. CASE ReadBody
  <2>1. PICK q : q = rx.message \o rx.got
    BY Zenon
  <2>2. wire' = wire /\ received' = received /\ rx' = [rx EXCEPT !.pc = "test", !.got = << >>, !.message = q]
    BY <1>7, <2>1 DEF ReadBody
  <2>3. rx'.message = q /\ rx'.got = << >>
    BY ONLY <1>1, <2>2 DEF Rx
  <2>4. Arrived' = ((r \o (m \o g)) \o << >>) \o wire
    BY ONLY <1>3, <2>1, <2>2, <2>3, Zenon DEF Arrived
  <2>5. (r \o m) \o g = r \o (m \o g) /\ r \o (m \o g) \in Seq(Byte)
    BY BytesJoin
  <2>6. (r \o (m \o g)) \o << >> = r \o (m \o g)
    BY <2>5, BytesJoin
  <2> QED
    BY ONLY <1>4, <2>4, <2>5, <2>6
<1>8. CASE Test /\ Len(rx.message) = rx.bufsize
  <2>1. /\ received' = Append(received, rx.message) /\ wire' = wire /\ rx.pc = "test"
        /\ rx' = [pc |-> "len", got |-> << >>, message |-> << >>, bufsize |-> 0]
    BY <1>8, Zenon DEF Test, Lose, ReaderStep
  <2>2. g = << >>
    BY <1>0, <1>3, <2>1 DEF ReaderInv
  <2>3. Joined(received') = r \o m
    BY <1>1, <1>3, <2>1, Zenon
  <2>4. Arrived' = (((r \o m) \o << >>) \o << >>) \o wire
    BY ONLY <2>1, <2>3 DEF Arrived
  <2>5. PICK x \in Seq(Byte) : x = r \o m
    BY BytesJoin, ZenonT(30)
  <2>6. x \o << >> = x
    BY BytesJoin
  <2> QED
    BY ONLY <1>4, <2>2, <2>4, <2>5, <2>6
<1> QED
  BY <1>5, <1>6, <1>7, <1>8

LEMMA StreamStarts == ASSUME Init PROVE StreamConserved
<1>1. /\ sent = << >> /\ front = 1 /\ bytesize = 0 /\ wire = << >> /\ received = << >>
      /\ rx.message = << >> /\ rx.got = << >>
  BY DEF Init
<1>2. Messages(sent, front - 1) = << >>
  <2>1. 1 - 1 = 0 /\ 1 .. 0 = {}
    OBVIOUS
  <2>2. Messages(sent, 0) = [i \in 1 .. 0 |-> MessageOf(sent, i)]
    BY DEF Messages
  <2> QED
    BY <1>1, <2>1, <2>2
<1>3. Joined(<< >>) = << >>
  BY JoinedNone
<1>4. << >> \o << >> = << >>
  OBVIOUS
<1>5. Out(sent, front, bytesize) = << >> \o << >>
  BY ONLY <1>1, <1>2, <1>3, Zenon DEF Out
<1>6. Arrived = ((<< >> \o << >>) \o << >>) \o << >>
  BY ONLY <1>1, <1>3 DEF Arrived
<1> QED
  BY <1>4, <1>5, <1>6, StreamIs

LEMMA StreamKept ==
  ASSUME Inv, StreamConserved, [Next]_vars PROVE StreamConserved'
<1>1. CASE PollWrite \/ WriteEnds \/ CloseSender \/ Handle \/ UNCHANGED vars
  <2>1. UNCHANGED core
    BY <1>1 DEF PollWrite, WriteEnds, CloseSender, Handle, vars, core, sender, receiver
  <2>2. Arrived' = Arrived
    BY <2>1 DEF Arrived, core
  <2> QED
    BY <2>1, <2>2, StreamIs DEF core
<1>2. CASE ~open'
  BY <1>2 DEF StreamConserved
<1>3. CASE RecvEnd
  BY <1>2, <1>3 DEF RecvEnd, Lose
<1>4. CASE open' /\ (PollRead \/ ReadAgain \/ ReadLen \/ ReadBody \/ Test)
  BY <1>4, StreamMoves
<1> QED
  BY <1>1, <1>2, <1>3, <1>4, StreamWrite, StreamSend, StreamRecv DEF Next, Writer, Reader

\* While the connection is in use no byte is lost, repeated or out of place: what
\* slam_socket_poll_read has put together and what the kernel holds is what
\* slam_socket_poll_write has sent, for all sizes and all cuts.
THEOREM StreamConservedHolds == Spec => []StreamConserved
<1>1. Init => Inv /\ StreamConserved
  BY InvStarts, StreamStarts
<1>2. Inv /\ StreamConserved /\ [Next]_vars => Inv' /\ StreamConserved'
  BY StepIsLinkStep, StreamKept
<1> QED
  BY <1>1, <1>2, PTL DEF Spec

=============================================================================
