---------------------------- MODULE SlamDbProof ----------------------------
(***************************************************************************)
(* The byte buffer, and slam_lua_db.c, which puts statements together in   *)
(* it.  For every chunk size, every set of texts and every sequence of     *)
(* calls, the lengths of a byte buffer stay consistent, no copy leaves the *)
(* array, and the buffer implements the stream of SlamByteStream.          *)
(*                                                                         *)
(* For all records, results and sizes of slam_lua_db.c: the byte buffer it *)
(* fills keeps the promise of SlamByteStream, it is freed, an answer true  *)
(* means that the statement was run, the connection stays usable, and a    *)
(* statement assigns every field of its record.                            *)
(***************************************************************************)
EXTENDS SlamDb, SlamSequences, FiniteSetTheorems

-----------------------------------------------------------------------------
(* The byte buffer.                                                        *)

\* what a place of the array holds
Cell == Byte \cup {Junk}

\* A function on 1 .. n with values in S is a sequence of length n.
LEMMA FunctionIsSeq ==
  ASSUME NEW S, NEW n \in Nat, NEW f \in [1 .. n -> S]
  PROVE  f \in Seq(S) /\ Len(f) = n
  OBVIOUS

\* Sequences of the same length with the same elements are equal.
LEMMA SameSeq ==
  ASSUME NEW S, NEW T, NEW s \in Seq(S), NEW t \in Seq(T), Len(s) = Len(t),
         \A i \in 1 .. Len(s) : s[i] = t[i]
  PROVE  s = t
  BY SeqEqual

\* SubSeq between two indices of a sequence.
LEMMA Piece ==
  ASSUME NEW S, NEW s \in Seq(S), NEW r \in Nat, NEW w \in Nat, r <= w, w <= Len(s)
  PROVE  /\ SubSeq(s, r + 1, w) \in Seq(S)
         /\ Len(SubSeq(s, r + 1, w)) = w - r
         /\ \A i \in 1 .. (w - r) : SubSeq(s, r + 1, w)[i] = s[r + i]
<1>1. \A i \in (r + 1) .. w : s[i] \in S
  <2>1. \A i \in 1 .. Len(s) : s[i] \in S
    OBVIOUS
  <2>2. \A i \in (r + 1) .. w : i \in 1 .. Len(s)
    OBVIOUS
  <2> QED BY <2>1, <2>2
<1> DEFINE p == SubSeq(s, r + 1, w)
<1>2. p = [i \in 1 .. (w - (r + 1) + 1) |-> s[i + (r + 1) - 1]]
  OBVIOUS
<1>3. w - (r + 1) + 1 = w - r /\ w - r \in Nat
  OBVIOUS
<1>4. \A i \in 1 .. (w - r) : i + (r + 1) - 1 = r + i /\ r + i \in (r + 1) .. w
  OBVIOUS
<1> HIDE DEF p
<1>5. \A i \in 1 .. (w - r) : p[i] = s[r + i]
  BY <1>2, <1>3, <1>4
<1>6. p \in [1 .. (w - r) -> S]
  BY <1>1, <1>2, <1>3, <1>4
<1>7. p \in Seq(S) /\ Len(p) = w - r
  BY <1>3, <1>6, FunctionIsSeq
<1> QED BY <1>5, <1>7 DEF p

\* A piece of a sequence depends on the elements of the piece only.
LEMMA PieceIn ==
  ASSUME NEW S, NEW T, NEW s \in Seq(S), NEW r \in Nat, NEW w \in Nat,
         r <= w, w <= Len(s), \A i \in 1 .. w : s[i] \in T
  PROVE  SubSeq(s, r + 1, w) \in Seq(T)
<1>1. \A i \in (r + 1) .. w : s[i] \in T
  OBVIOUS
<1> QED BY <1>1, SubSeqProperties

\* Nothing lies between an index and itself.
LEMMA NoPiece ==
  ASSUME NEW S, NEW s \in Seq(S), NEW r \in Nat, r <= Len(s)
  PROVE  SubSeq(s, r + 1, r) = << >>
<1>1. SubSeq(s, r + 1, r) \in Seq(S) /\ Len(SubSeq(s, r + 1, r)) = r - r
  BY Piece
<1> QED BY <1>1, EmptySeq

\* The first n elements of a piece, and the elements after them.
LEMMA PieceOfPiece ==
  ASSUME NEW S, NEW s \in Seq(S), NEW r \in Nat, NEW w \in Nat, NEW n \in Nat,
         r + n <= w, w <= Len(s)
  PROVE  /\ SubSeq(SubSeq(s, r + 1, w), 1, n) = SubSeq(s, r + 1, r + n)
         /\ SubSeq(SubSeq(s, r + 1, w), n + 1, w - r) = SubSeq(s, (r + n) + 1, w)
<1> DEFINE p == SubSeq(s, r + 1, w)
           a == SubSeq(p, 0 + 1, n)
           b == SubSeq(p, n + 1, w - r)
           c == SubSeq(s, r + 1, r + n)
           d == SubSeq(s, (r + n) + 1, w)
<1>0. r <= w /\ w - r \in Nat /\ n <= w - r /\ r + n \in Nat /\ r + n <= Len(s)
  OBVIOUS
<1>1. p \in Seq(S) /\ Len(p) = w - r /\ \A i \in 1 .. (w - r) : p[i] = s[r + i]
  BY <1>0, Piece
<1>2. c \in Seq(S) /\ Len(c) = (r + n) - r /\ \A i \in 1 .. ((r + n) - r) : c[i] = s[r + i]
  BY <1>0, Piece
<1>3. d \in Seq(S) /\ Len(d) = w - (r + n) /\ \A i \in 1 .. (w - (r + n)) : d[i] = s[(r + n) + i]
  BY <1>0, Piece
<1> HIDE DEF p
<1>4. a \in Seq(S) /\ Len(a) = n - 0 /\ \A i \in 1 .. (n - 0) : a[i] = p[0 + i]
  BY <1>0, <1>1, Piece
<1>5. b \in Seq(S) /\ Len(b) = (w - r) - n /\ \A i \in 1 .. ((w - r) - n) : b[i] = p[n + i]
  BY <1>0, <1>1, Piece
<1>6. /\ (r + n) - r = n /\ n - 0 = n /\ (w - r) - n = w - (r + n) /\ 0 + 1 = 1
      /\ \A i \in 1 .. n : i \in 1 .. (w - r) /\ 0 + i = i
      /\ \A i \in 1 .. (w - (r + n)) : n + i \in 1 .. (w - r) /\ r + (n + i) = (r + n) + i
  BY <1>0
<1> HIDE DEF a, b, c, d
<1>7. a = c
  <2>1. \A i \in 1 .. n : a[i] = p[i] /\ p[i] = s[r + i] /\ c[i] = s[r + i]
    BY <1>1, <1>2, <1>4, <1>6
  <2>2. Len(a) = n /\ Len(c) = n
    BY <1>2, <1>4, <1>6
  <2> QED BY <1>2, <1>4, <2>1, <2>2, SameSeq, Zenon
<1>8. b = d
  <2>1. \A i \in 1 .. (w - (r + n)) : b[i] = p[n + i] /\ p[n + i] = s[r + (n + i)]
    BY <1>1, <1>5, <1>6
  <2>2. Len(b) = w - (r + n) /\ \A i \in 1 .. (w - (r + n)) : b[i] = d[i]
    BY <1>3, <1>5, <1>6, <2>1
  <2> QED BY <1>3, <1>5, <2>2, SameSeq, Zenon
<1>9. SubSeq(p, 1, n) = SubSeq(s, r + 1, r + n)
  BY <1>6, <1>7 DEF a, c
<1>10. SubSeq(p, n + 1, w - r) = SubSeq(s, (r + n) + 1, w)
  BY <1>8 DEF b, d
<1> QED BY <1>9, <1>10 DEF p

\* A sequence that begins with p and goes on with s.
LEMMA IsConcat ==
  ASSUME NEW S, NEW p \in Seq(S), NEW s \in Seq(S), NEW q \in Seq(S),
         Len(q) = Len(p) + Len(s),
         \A i \in 1 .. Len(p) : q[i] = p[i],
         \A i \in 1 .. Len(s) : q[Len(p) + i] = s[i]
  PROVE  q = p \o s
<1>1. p \o s \in Seq(S) /\ Len(p \o s) = Len(q)
  OBVIOUS
<1>2. ASSUME NEW i \in 1 .. Len(q)
      PROVE  q[i] = (p \o s)[i]
  <2>1. CASE i <= Len(p)
    BY <2>1
  <2>2. CASE ~(i <= Len(p))
    <3>1. i - Len(p) \in 1 .. Len(s) /\ Len(p) + (i - Len(p)) = i
      BY <2>2
    <3>2. q[i] = s[i - Len(p)]
      BY <3>1
    <3> QED BY <2>2, <3>2
  <2> QED BY <2>1, <2>2
<1> QED BY <1>1, <1>2, SameSeq

\* c is b up to position w and goes on with s
PutBehind(c, b, w, s) ==
  /\ \A i \in 1 .. w : c[i] = b[i]
  /\ \A i \in 1 .. Len(s) : c[w + i] = s[i]

\* p is what lies between the positions r and w of s
IsPiece(p, s, r, w) ==
  /\ p \in Seq(Cell) /\ Len(p) = w - r
  /\ \A i \in 1 .. (w - r) : p[i] = s[r + i]

\* SubSeq takes a piece.
LEMMA SubSeqIsPiece ==
  ASSUME NEW s \in Seq(Cell), NEW r \in Nat, NEW w \in Nat, r <= w, w <= Len(s)
  PROVE  IsPiece(SubSeq(s, r + 1, w), s, r, w)
  BY Piece DEF IsPiece

\* A piece that grows by what was put behind it.
LEMMA PieceAppend ==
  ASSUME NEW b \in Seq(Cell), NEW c \in Seq(Cell), NEW s \in Seq(Cell), NEW r \in Nat,
         NEW w \in Nat, NEW p, NEW q, IsPiece(p, b, r, w), IsPiece(q, c, r, w + Len(s)),
         r <= w, w <= Len(b), w + Len(s) <= Len(c), PutBehind(c, b, w, s)
  PROVE  q = p \o s
<1>0. Len(s) \in Nat /\ w + Len(s) \in Nat /\ r <= w + Len(s) /\ w - r \in Nat
  OBVIOUS
<1>1. p \in Seq(Cell) /\ Len(p) = w - r /\ \A i \in 1 .. (w - r) : p[i] = b[r + i]
  BY DEF IsPiece
<1>2. /\ q \in Seq(Cell) /\ Len(q) = (w + Len(s)) - r
      /\ \A i \in 1 .. ((w + Len(s)) - r) : q[i] = c[r + i]
  BY DEF IsPiece
<1>3. Len(q) = Len(p) + Len(s)
  BY <1>0, <1>1, <1>2
<1>4. ASSUME NEW i \in 1 .. Len(p)
      PROVE  q[i] = p[i]
  <2>1. i \in 1 .. (w - r) /\ i \in 1 .. ((w + Len(s)) - r) /\ r + i \in 1 .. w
    BY <1>0, <1>1
  <2> QED BY <1>1, <1>2, <2>1 DEF PutBehind
<1>5. ASSUME NEW i \in 1 .. Len(s)
      PROVE  q[Len(p) + i] = s[i]
  <2>1. Len(p) + i \in 1 .. ((w + Len(s)) - r) /\ r + (Len(p) + i) = w + i
    BY <1>0, <1>1
  <2>2. q[Len(p) + i] = c[w + i]
    BY <1>2, <2>1
  <2>3. c[w + i] = s[i]
    BY DEF PutBehind
  <2> QED BY <2>2, <2>3
<1> QED BY <1>1, <1>2, <1>3, <1>4, <1>5, IsConcat, Zenon

\* slam_byte_buffer_reserve makes room for what is asked and never shrinks.
LEMMA ReservedFits ==
  ASSUME NEW cap \in Nat, NEW used \in Nat, NEW n \in Nat, used <= cap
  PROVE  /\ Reserved(cap, used, n) \in Nat
         /\ cap <= Reserved(cap, used, n)
         /\ used + n <= Reserved(cap, used, n)
  BY BufferAssumption DEF Reserved

\* realloc keeps what the array holds.
LEMMA GrownKeeps ==
  ASSUME NEW S, Junk \in S, NEW b \in Seq(S), NEW cap \in Nat, Len(b) <= cap
  PROVE  /\ Grown(b, cap) \in Seq(S)
         /\ Len(Grown(b, cap)) = cap
         /\ \A i \in 1 .. Len(b) : Grown(b, cap)[i] = b[i]
<1>1. Grown(b, cap) \in [1 .. cap -> S]
  BY DEF Grown
<1>2. \A i \in 1 .. Len(b) : i \in 1 .. cap /\ Grown(b, cap)[i] = b[i]
  BY DEF Grown
<1> QED BY <1>1, <1>2, FunctionIsSeq

\* memcpy changes the bytes after position w only.
LEMMA CopiedKeeps ==
  ASSUME NEW S, NEW b \in Seq(S), NEW s \in Seq(S), NEW w \in Nat, w + Len(s) <= Len(b)
  PROVE  /\ Copied(b, w, s) \in Seq(S)
         /\ Len(Copied(b, w, s)) = Len(b)
         /\ \A i \in 1 .. w : Copied(b, w, s)[i] = b[i]
         /\ \A i \in 1 .. Len(s) : Copied(b, w, s)[w + i] = s[i]
<1> DEFINE f == Copied(b, w, s)
<1>0. Len(b) \in Nat /\ Len(s) \in Nat
  OBVIOUS
<1>1. f \in [1 .. Len(b) -> S]
  <2> SUFFICES ASSUME NEW i \in 1 .. Len(b)
               PROVE  (IF i > w /\ i <= w + Len(s) THEN s[i - w] ELSE b[i]) \in S
    BY DEF Copied
  <2>1. CASE i > w /\ i <= w + Len(s)
    <3>1. i - w \in 1 .. Len(s)
      BY <1>0, <2>1
    <3> QED BY <2>1, <3>1
  <2>2. CASE ~(i > w /\ i <= w + Len(s))
    BY <2>2
  <2> QED BY <2>1, <2>2
<1>2. ASSUME NEW i \in 1 .. w
      PROVE  f[i] = b[i]
  <2>1. i \in 1 .. Len(b) /\ ~(i > w)
    BY <1>0
  <2> QED BY <2>1 DEF Copied
<1>3. ASSUME NEW i \in 1 .. Len(s)
      PROVE  f[w + i] = s[i]
  <2>1. w + i \in 1 .. Len(b) /\ w + i > w /\ w + i <= w + Len(s) /\ (w + i) - w = i
    BY <1>0
  <2> QED BY <2>1 DEF Copied
<1> QED BY <1>0, <1>1, <1>2, <1>3, FunctionIsSeq

-----------------------------------------------------------------------------
\* A write fits, keeps what was to be read and puts the text behind it.
LEMMA WriteEffect ==
  ASSUME LengthsHold, NEW s \in Text, Write(s)
  PROVE  /\ capacity' \in Nat /\ bytes' \in Seq(Cell) /\ Len(bytes') = capacity'
         /\ wlength' = wlength + Len(s) /\ wlength' <= capacity'
         /\ rlength' = rlength /\ out' = out /\ status' = status
         /\ \A i \in 1 .. wlength : bytes'[i] = bytes[i]
         /\ \A i \in 1 .. Len(s) : bytes'[wlength + i] = s[i]
<1> DEFINE cap == Reserved(capacity, wlength, Len(s))
           grown == Grown(bytes, cap)
<1>1. /\ capacity \in Nat /\ wlength \in Nat /\ wlength <= capacity
      /\ bytes \in Seq(Cell) /\ Len(bytes) = capacity
  BY DEF LengthsHold, Cell
<1>2. s \in Seq(Byte) /\ s \in Seq(Cell) /\ Len(s) \in Nat
  BY BufferAssumption DEF Cell
<1>3. cap \in Nat /\ capacity <= cap /\ wlength + Len(s) <= cap
  BY <1>1, <1>2, ReservedFits, Zenon
<1>4. /\ grown \in Seq(Cell) /\ Len(grown) = cap
      /\ \A i \in 1 .. capacity : grown[i] = bytes[i]
  <2>1. Junk \in Cell
    BY DEF Cell
  <2> QED BY <1>1, <1>3, <2>1, GrownKeeps
<1>5. /\ Copied(grown, wlength, s) \in Seq(Cell)
      /\ Len(Copied(grown, wlength, s)) = cap
      /\ \A i \in 1 .. wlength : Copied(grown, wlength, s)[i] = grown[i]
      /\ \A i \in 1 .. Len(s) : Copied(grown, wlength, s)[wlength + i] = s[i]
  <2> HIDE DEF grown
  <2> QED BY <1>1, <1>2, <1>3, <1>4, CopiedKeeps
<1>6. /\ capacity' = cap /\ bytes' = Copied(grown, wlength, s)
      /\ wlength' = wlength + Len(s) /\ rlength' = rlength
      /\ status' = status /\ out' = out
  BY <1>3 DEF Write
<1>7. \A i \in 1 .. wlength : i \in 1 .. capacity
  BY <1>1
<1> HIDE DEF cap, grown
<1> QED BY <1>3, <1>4, <1>5, <1>6, <1>7

\* What a read takes is there.
LEMMA TakenEffect ==
  ASSUME LengthsHold, NEW n \in Nat, n <= wlength - rlength, Taken(n)
  PROVE  /\ LengthsHold'
         /\ out' = SubSeq(Content, 1, n)
         /\ Content' = SubSeq(Content, n + 1, Len(Content))
         /\ n \in 0 .. Len(Content)
         /\ status' = status
<1> DEFINE r == rlength + n
<1>1. /\ rlength \in Nat /\ wlength \in Nat /\ capacity \in Nat /\ r \in Nat
      /\ rlength <= wlength /\ wlength <= capacity /\ r <= wlength /\ rlength <= r
      /\ bytes \in Seq(Cell) /\ Len(bytes) = capacity
      /\ \A i \in 1 .. wlength : bytes[i] \in Byte
  BY DEF LengthsHold, Cell
<1>2. /\ bytes' = bytes /\ capacity' = capacity /\ status' = status
      /\ out' = SubSeq(bytes, rlength + 1, r)
      /\ rlength' = (IF r = wlength THEN 0 ELSE r)
      /\ wlength' = (IF r = wlength THEN 0 ELSE wlength)
  BY DEF Taken, Shrunk
<1>3. Len(Content) = wlength - rlength
  BY <1>1, Piece DEF Content
<1>4. /\ SubSeq(Content, 1, n) = SubSeq(bytes, rlength + 1, r)
      /\ SubSeq(Content, n + 1, Len(Content)) = SubSeq(bytes, r + 1, wlength)
  BY <1>1, <1>3, PieceOfPiece DEF Content
<1>5. out' \in Seq(Byte)
  <2>1. \A i \in 1 .. r : bytes[i] \in Byte
    BY <1>1
  <2>2. r <= Len(bytes)
    BY <1>1
  <2>3. SubSeq(bytes, rlength + 1, r) \in Seq(Byte)
    BY <1>1, <2>1, <2>2, PieceIn
  <2> QED BY <1>2, <2>3
<1>6. Content' = SubSeq(bytes, r + 1, wlength)
  <2>1. CASE r = wlength
    <3>1. SubSeq(bytes, r + 1, wlength) = << >> /\ SubSeq(bytes, 0 + 1, 0) = << >>
      BY <1>1, <2>1, NoPiece
    <3> QED BY <1>2, <2>1, <3>1, Zenon DEF Content
  <2>2. CASE r # wlength
    BY <1>2, <2>2 DEF Content
  <2> QED BY <2>1, <2>2
<1>7. LengthsHold'
  <2>1. /\ rlength' \in Nat /\ wlength' \in Nat /\ rlength' <= wlength' /\ wlength' <= capacity'
        /\ capacity' \in Nat /\ \A i \in 1 .. wlength' : i \in 1 .. wlength
    BY <1>1, <1>2
  <2>2. \A i \in 1 .. wlength' : bytes'[i] \in Byte
    BY <1>1, <1>2, <2>1
  <2>3. status' \in {"none", "live", "aborted"}
    BY <1>2 DEF LengthsHold
  <2> QED BY <1>1, <1>2, <1>5, <2>1, <2>2, <2>3 DEF LengthsHold, Cell
<1>8. n \in 0 .. Len(Content)
  BY <1>1, <1>3
<1> QED BY <1>2, <1>4, <1>6, <1>7, <1>8, Zenon

-----------------------------------------------------------------------------
\* Deleting or clearing the buffer leaves nothing to read.
LEMMA FreedEffect ==
  ASSUME LengthsHold, Freed, status' \in {"none", "live"}, out' \in {out, << >>}
  PROVE  LengthsHold' /\ Content' = << >>
<1>1. bytes' = << >> /\ capacity' = 0 /\ rlength' = 0 /\ wlength' = 0
  BY DEF Freed
<1>2. << >> \in Seq(Cell) /\ Len(<< >>) = 0
  OBVIOUS
<1>3. Content' = << >>
  <2>1. SubSeq(<< >>, 0 + 1, 0) = << >>
    BY <1>2, NoPiece
  <2> QED BY <1>1, <2>1 DEF Content
<1>4. out' \in Seq(Byte)
  <2>1. out \in Seq(Byte) /\ << >> \in Seq(Byte)
    BY DEF LengthsHold
  <2> QED BY <2>1, Zenon
<1> QED BY <1>1, <1>2, <1>3, <1>4 DEF LengthsHold, Cell

\* A new buffer is empty.
LEMMA NewEffect ==
  ASSUME NEW n \in Nat, LengthsHold, New(n)
  PROVE  LengthsHold' /\ Content' = << >> /\ out' = out
<1> DEFINE cap == Reserved(0, 0, n)
<1>1. /\ bytes' = Grown(<< >>, cap) /\ capacity' = cap /\ rlength' = 0 /\ wlength' = 0
      /\ status' = "live" /\ out' = out
  BY DEF New
<1>2. cap \in Nat
  BY ReservedFits
<1>3. << >> \in Seq(Cell) /\ Len(<< >>) = 0 /\ Junk \in Cell
  BY DEF Cell
<1>4. Grown(<< >>, cap) \in Seq(Cell) /\ Len(Grown(<< >>, cap)) = cap
  <2> HIDE DEF cap
  <2>1. Len(<< >>) <= cap
    BY <1>2, <1>3
  <2> QED BY <1>2, <1>3, <2>1, GrownKeeps, Zenon
<1> HIDE DEF cap
<1>5. Content' = << >>
  <2>1. SubSeq(Grown(<< >>, cap), 0 + 1, 0) = << >>
    <3>1. 0 <= Len(Grown(<< >>, cap))
      BY <1>2, <1>4
    <3> QED BY <1>4, <3>1, NoPiece
  <2> QED BY <1>1, <2>1 DEF Content
<1>6. out' \in Seq(Byte)
  BY <1>1 DEF LengthsHold
<1> QED BY <1>1, <1>2, <1>4, <1>5, <1>6 DEF LengthsHold, Cell

\* Resetting the indices leaves nothing to read.
LEMMA ResetEffect ==
  ASSUME LengthsHold, Reset
  PROVE  LengthsHold' /\ Content' = << >> /\ out' = out /\ status' = status
<1>1. /\ bytes' = bytes /\ capacity' = capacity /\ rlength' = 0 /\ wlength' = 0
      /\ status' = status /\ out' = out
  BY DEF Reset
<1>2. bytes \in Seq(Cell) /\ Len(bytes) = capacity /\ capacity \in Nat
  BY DEF LengthsHold, Cell
<1>3. SubSeq(bytes, 0 + 1, 0) = << >>
  BY <1>2, NoPiece
<1>4. Content' = << >>
  BY <1>1, <1>3 DEF Content
<1>5. LengthsHold'
  BY <1>1 DEF LengthsHold
<1> QED BY <1>1, <1>4, <1>5

\* A write appends its text to the stream.
LEMMA WriteAppends ==
  ASSUME LengthsHold, NEW s \in Text, Write(s)
  PROVE  LengthsHold' /\ Content' = Content \o s /\ out' = out /\ status' = status
<1>1. /\ capacity' \in Nat /\ bytes' \in Seq(Cell) /\ Len(bytes') = capacity'
      /\ wlength' = wlength + Len(s) /\ wlength' <= capacity'
      /\ rlength' = rlength /\ out' = out /\ status' = status
      /\ \A i \in 1 .. wlength : bytes'[i] = bytes[i]
      /\ \A i \in 1 .. Len(s) : bytes'[wlength + i] = s[i]
  BY WriteEffect
<1>2. /\ rlength \in Nat /\ wlength \in Nat /\ rlength <= wlength /\ wlength <= capacity
      /\ bytes \in Seq(Cell) /\ Len(bytes) = capacity /\ out \in Seq(Byte)
      /\ \A i \in 1 .. wlength : bytes[i] \in Byte
  BY DEF LengthsHold, Cell
<1>3. s \in Seq(Byte) /\ s \in Seq(Cell) /\ Len(s) \in Nat
  BY BufferAssumption DEF Cell
<1>4. \A i \in 1 .. wlength' : bytes'[i] \in Byte
  <2> SUFFICES ASSUME NEW i \in 1 .. wlength' PROVE bytes'[i] \in Byte
    OBVIOUS
  <2>1. CASE i <= wlength
    BY <1>1, <1>2, <2>1
  <2>2. CASE i > wlength
    <3>1. i - wlength \in 1 .. Len(s) /\ wlength + (i - wlength) = i
      BY <1>1, <1>2, <1>3, <2>2
    <3>2. bytes'[wlength + (i - wlength)] = s[i - wlength] /\ s[i - wlength] \in Byte
      BY <1>1, <1>3, <3>1
    <3> QED BY <3>1, <3>2
  <2> QED BY <1>1, <1>2, <2>1, <2>2
<1>5. LengthsHold'
  <2>1. /\ rlength' \in Nat /\ wlength' \in Nat /\ rlength' <= wlength'
    BY <1>1, <1>2, <1>3
  <2>2. out' \in Seq(Byte) /\ status' \in {"none", "live", "aborted"}
    BY <1>1 DEF LengthsHold
  <2> QED BY <1>1, <1>4, <2>1, <2>2 DEF LengthsHold, Cell
<1>6. Content' = Content \o s
  <2>1. wlength <= Len(bytes) /\ wlength + Len(s) <= Len(bytes')
    BY <1>1, <1>2, <1>3
  <2>2. PutBehind(bytes', bytes, wlength, s)
    BY <1>1 DEF PutBehind
  <2>3. IsPiece(Content, bytes, rlength, wlength)
    BY <1>2, <2>1, SubSeqIsPiece DEF Content
  <2>4. IsPiece(Content', bytes', rlength, wlength + Len(s))
    <3>1. /\ wlength + Len(s) \in Nat /\ rlength <= wlength + Len(s)
          /\ Content' = SubSeq(bytes', rlength + 1, wlength + Len(s))
      BY <1>1, <1>2, <1>3 DEF Content
    <3> QED BY <1>1, <1>2, <2>1, <3>1, SubSeqIsPiece
  <2> QED BY <1>1, <1>2, <1>3, <2>1, <2>2, <2>3, <2>4, PieceAppend, Zenon
<1> QED BY <1>1, <1>5, <1>6

-----------------------------------------------------------------------------
\* The inductive invariant: a buffer that does not exist has no bytes either.
BufferInv == LengthsHold /\ (status = "none" => rlength = 0 /\ wlength = 0)

\* Every call keeps the lengths consistent and is a step of the stream.
LEMMA StepIsStreamStep ==
  ASSUME BufferInv, [BufferNext]_buffer
  PROVE  BufferInv' /\ [Stream!Next]_(Stream!vars)
<1>0. LengthsHold
  BY DEF BufferInv
<1>1. ASSUME NEW n \in Size, New(n) PROVE BufferInv' /\ Stream!Next
  <2>1. n \in Nat
    BY BufferAssumption
  <2>2. LengthsHold' /\ Content' = << >> /\ out' = out
    BY <1>0, <1>1, <2>1, NewEffect
  <2>3. status = "none" /\ status' = "live"
    BY <1>1 DEF New
  <2>4. Content = << >>
    <3>1. bytes \in Seq(Cell) /\ Len(bytes) \in Nat /\ rlength = 0 /\ wlength = 0
      BY <1>0, <2>3 DEF BufferInv, LengthsHold, Cell
    <3>2. SubSeq(bytes, 0 + 1, 0) = << >>
      BY <3>1, NoPiece
    <3> QED BY <3>1, <3>2 DEF Content
  <2> QED BY <2>2, <2>3, <2>4 DEF BufferInv, Stream!Next, Stream!Open
<1>2. ASSUME Delete PROVE BufferInv' /\ Stream!Next
  <2>1. LengthsHold' /\ Content' = << >>
    BY <1>0, <1>2, FreedEffect DEF Delete
  <2> QED BY <1>2, <2>1 DEF BufferInv, Delete, Freed, Stream!Next, Stream!Close
<1>3. ASSUME Clear PROVE BufferInv' /\ Stream!Next
  <2>1. LengthsHold' /\ Content' = << >>
    BY <1>0, <1>3, FreedEffect DEF Clear
  <2> QED BY <1>3, <2>1 DEF BufferInv, Clear, Stream!Next, Stream!Empty
<1>4. ASSUME Reset PROVE BufferInv' /\ Stream!Next
  BY <1>0, <1>4, ResetEffect DEF BufferInv, Reset, Stream!Next, Stream!Empty
<1>5. ASSUME NEW s \in Text, Write(s) PROVE BufferInv' /\ Stream!Next
  <2>1. LengthsHold' /\ Content' = Content \o s /\ out' = out /\ status' = status
    BY <1>0, <1>5, WriteAppends
  <2>2. status = "live"
    BY <1>5 DEF Write
  <2>3. Stream!Put(s)
    BY <2>1, <2>2 DEF Stream!Put
  <2> QED BY <2>1, <2>2, <2>3 DEF BufferInv, Stream!Next
<1>6. ASSUME NEW n \in Nat, n <= wlength - rlength, status = "live", Taken(n)
      PROVE  BufferInv' /\ Stream!Next
  <2>1. /\ LengthsHold' /\ out' = SubSeq(Content, 1, n)
        /\ Content' = SubSeq(Content, n + 1, Len(Content))
        /\ n \in 0 .. Len(Content) /\ status' = status
    BY <1>0, <1>6, TakenEffect
  <2>2. Stream!Take(n)
    BY <1>6, <2>1 DEF Stream!Take
  <2> QED BY <1>6, <2>1, <2>2 DEF BufferInv, Stream!Next
<1>7. ASSUME NEW n \in Size, Read(n) PROVE BufferInv' /\ Stream!Next
  <2> DEFINE k == IF wlength - rlength > n THEN n ELSE wlength - rlength
  <2>1. k \in Nat /\ k <= wlength - rlength
    BY <1>0, BufferAssumption DEF LengthsHold
  <2>2. status = "live" /\ Taken(k)
    BY <1>7 DEF Read
  <2> HIDE DEF k
  <2> QED BY <1>6, <2>1, <2>2
<1>8. ASSUME NEW n \in Size, ReadLength(n) PROVE BufferInv' /\ Stream!Next
  <2>1. CASE wlength >= rlength + n
    <3>1. n \in Nat /\ n <= wlength - rlength
      BY <1>0, <2>1, BufferAssumption DEF LengthsHold
    <3> QED BY <1>6, <1>8, <2>1, <3>1 DEF ReadLength
  <2>2. CASE ~(wlength >= rlength + n)
    <3>1. /\ status = "live" /\ status' = "aborted"
          /\ UNCHANGED <<bytes, capacity, rlength, wlength, out>>
      BY <1>8, <2>2 DEF ReadLength
    <3>2. LengthsHold'
      BY <1>0, <3>1 DEF LengthsHold
    <3>3. Content' = Content
      BY <3>1 DEF Content
    <3> QED BY <3>1, <3>2, <3>3 DEF BufferInv, Stream!Next, Stream!Abort
  <2> QED BY <2>1, <2>2
<1>9. ASSUME UNCHANGED buffer PROVE BufferInv' /\ UNCHANGED <<Content, out, status>>
  BY <1>9 DEF buffer, BufferInv, LengthsHold, Content
<1> QED BY <1>1, <1>2, <1>3, <1>4, <1>5, <1>7, <1>8, <1>9 DEF BufferNext, Stream!vars

\* A buffer starts without bytes.
LEMMA InitIsStreamInit ==
  ASSUME BufferInit PROVE BufferInv /\ Stream!Init
<1>1. << >> \in Seq(Cell) /\ Len(<< >>) = 0 /\ << >> \in Seq(Byte)
  OBVIOUS
<1>2. SubSeq(<< >>, 0 + 1, 0) = << >>
  BY <1>1, NoPiece
<1>3. BufferInv
  BY <1>1 DEF BufferInit, BufferInv, LengthsHold, Cell
<1> QED BY <1>2, <1>3 DEF BufferInit, Content, Stream!Init

\* For every chunk size and every sequence of calls: the lengths and the array
\* of slam_byte_buffer.c stay consistent and no copy leaves the array.
THEOREM LengthsCorrect == BufferSpec => []LengthsHold
<1>1. BufferInit => BufferInv
  BY InitIsStreamInit
<1>2. BufferInv /\ [BufferNext]_buffer => BufferInv'
  BY StepIsStreamStep
<1>3. BufferInv => LengthsHold
  BY DEF BufferInv
<1> QED BY <1>1, <1>2, <1>3, PTL DEF BufferSpec

\* The byte buffer implements the unbounded stream of bytes.
THEOREM BufferImplementsStream == BufferSpec => ImplementsStream
<1>1. BufferInit => BufferInv /\ Stream!Init
  BY InitIsStreamInit
<1>2. BufferInv /\ [BufferNext]_buffer => BufferInv' /\ [Stream!Next]_(Stream!vars)
  BY StepIsStreamStep
<1> QED BY <1>1, <1>2, PTL DEF BufferSpec, ImplementsStream, Stream!Spec

-----------------------------------------------------------------------------
(* The statements of slam_lua_db.c.                                        *)

\* the names of the fields
Name == UNION {DOMAIN record : record \in Record}

\* the places of a call
CallPc == {"idle", "client", "crashed", "table", "run", "delete"}

Call ==
  [pc : CallPc, op : {"none", "insert", "update"}, record : Record \cup {<< >>}, left : SUBSET Name,
   where : BOOLEAN, todo : Seq(Text), key : Name \cup {"none"}, rc : BOOLEAN]

\* The call of Lua: what is still to be written are texts, and the fields lua_next
\* has yet to visit and the one it has visited last are fields of the record.
CallInv ==
  /\ call \in Call
  /\ call.left \subseteq DOMAIN call.record
  /\ call.key # "none" => call.key \in DOMAIN call.record
  /\ call.pc = "table" => call.record \in Record

\* A step that leaves the call where it is.
LEMMA CallSame ==
  ASSUME CallInv, call' = call PROVE CallInv'
  BY DEF CallInv

\* The call ends.
LEMMA CallEnds ==
  ASSUME NEW pc \in {"idle", "client", "crashed"}, call' = [Idle EXCEPT !.pc = pc] PROVE CallInv'
<1>1. call' = [pc |-> pc, op |-> "none", record |-> << >>, left |-> {}, where |-> FALSE,
               todo |-> << >>, key |-> "none", rc |-> TRUE]
  BY Zenon DEF Idle
<1>2. << >> \in Seq(Text)
  OBVIOUS
<1>3. call' \in Call
  BY ONLY <1>1, <1>2 DEF Call, CallPc
<1> QED
  BY <1>1, <1>3 DEF CallInv

\* The texts of a field can be written.
LEMMA FieldTextIsText ==
  ASSUME NEW record \in Record, NEW k \in DOMAIN record
  PROVE  FieldText(k, record[k]) \in Seq(Text)
<1>1. /\ <<k>> \in Text /\ << >> \in Text /\ <<",">> \in Text /\ <<"=">> \in Text /\ <<"'">> \in Text
      /\ <<"num">> \in Text /\ <<"numstr">> \in Text /\ <<"str">> \in Text
      /\ record[k] \in Value
  BY DbAssumption, Zenon DEF Sql
<1>a. ASSUME NEW x \in Text, NEW y \in Text PROVE <<x>> \in Seq(Text) /\ <<x, y>> \in Seq(Text)
  OBVIOUS
<1>b. ASSUME NEW x \in Text, NEW y \in Text, NEW z \in Text PROVE <<x, y, z>> \in Seq(Text)
  OBVIOUS
<1>2. ValueText(record[k]) \in Seq(Text)
  <2>1. CASE record[k] \in {"num", "numstr"}
    <3>1. ValueText(record[k]) = <<<<record[k]>>>> /\ <<record[k]>> \in Text
      BY <1>1, <2>1, Zenon DEF ValueText
    <3> QED
      BY ONLY <1>a, <3>1
  <2>2. CASE record[k] = "str"
    <3>1. ValueText(record[k]) = <<<<"'">>, <<"str">>, <<"'">>>>
      BY <2>2 DEF ValueText
    <3> QED
      BY ONLY <1>1, <1>b, <3>1, Zenon
  <2>3. CASE record[k] = "bool"
    <3>1. ValueText(record[k]) = <<<< >>>>
      BY <2>3 DEF ValueText
    <3> QED
      BY ONLY <1>1, <1>a, <3>1, Zenon
  <2>4. CASE record[k] = "table"
    <3>1. ValueText(record[k]) = << >>
      BY <2>4 DEF ValueText
    <3> QED
      BY ONLY <3>1
  <2> QED
    BY <1>1, <2>1, <2>2, <2>3, <2>4, Zenon DEF Value
<1> DEFINE comma == IF call.key = "none" THEN << >> ELSE <<<<",">>>>
           v == ValueText(record[k])
<1>3. comma \in Seq(Text) /\ <<<<k>>, <<"=">>>> \in Seq(Text)
  <2>1. <<<<",">>>> \in Seq(Text)
    BY ONLY <1>1, <1>a, Zenon
  <2>2. <<<<k>>, <<"=">>>> \in Seq(Text)
    BY ONLY <1>1, <1>a, Zenon
  <2>3. << >> \in Seq(Text)
    OBVIOUS
  <2>4. CASE call.key = "none"
    BY ONLY <2>2, <2>3, <2>4
  <2>5. CASE call.key # "none"
    BY ONLY <2>1, <2>2, <2>5, Zenon
  <2> QED
    BY ONLY <2>4, <2>5, Zenon
<1>4. FieldText(k, record[k]) = comma \o <<<<k>>, <<"=">>>> \o v
  BY DEF FieldText
<1> HIDE DEF comma, v
<1> QED
  BY ONLY <1>2, <1>3, <1>4 DEF v

\* The texts behind the fields can be written.
LEMMA LastTextIsText ==
  ASSUME NEW where PROVE LastText(where) \in Seq(Text)
<1>1. <<"where">> \in Text /\ <<"cond">> \in Text /\ <<"NUL">> \in Text
  BY DbAssumption, Zenon DEF Sql
<1> QED
  BY ONLY <1>1 DEF LastText

\* A call of insert or update starts well.
LEMMA CallBegins ==
  ASSUME NEW op \in {"insert", "update"}, NEW record \in Record, NEW where \in BOOLEAN,
         Begin(op, record, where)
  PROVE  CallInv'
<1> DEFINE first == <<<<op>>, <<"t">>, <<"set">>>>
<1>1. <<op>> \in Text /\ <<"t">> \in Text /\ <<"set">> \in Text
  BY DbAssumption, Zenon DEF Sql
<1>2. first \in Seq(Text)
  BY ONLY <1>1
<1>3. call' = [pc |-> "table", op |-> op, record |-> record, left |-> DOMAIN record, where |-> where,
               todo |-> first, key |-> "none", rc |-> TRUE]
  BY Zenon DEF Begin, Idle
<1>4. DOMAIN record \in SUBSET Name
  BY DEF Name
<1> HIDE DEF first
<1>5. call' \in Call
  BY ONLY <1>2, <1>3, <1>4, op \in {"insert", "update"}, record \in Record, where \in BOOLEAN
     DEF Call, CallPc
<1> QED
  BY <1>3, <1>5 DEF CallInv

\* lua_next visits a field.
LEMMA CallVisits ==
  ASSUME CallInv, NextField PROVE CallInv'
<1>1. PICK k \in call.left :
        call' = [call EXCEPT !.left = @ \ {k}, !.key = k,
                             !.todo = FieldText(k, call.record[k]),
                             !.rc = call.record[k] # "table"]
  BY Zenon DEF NextField
<1> DEFINE text == FieldText(k, call.record[k])
           good == call.record[k] # "table"
<1>2. call.record \in Record /\ k \in DOMAIN call.record /\ call \in Call
  BY DEF CallInv, NextField, AtTable
<1>3. text \in Seq(Text) /\ good \in BOOLEAN
  BY <1>2, FieldTextIsText
<1>4. k \in Name
  BY <1>2 DEF Name
<1> HIDE DEF text, good
<1>5. call' = [call EXCEPT !.left = @ \ {k}, !.key = k, !.todo = text, !.rc = good]
  BY <1>1 DEF text, good
<1>6. call' \in Call
  BY ONLY <1>2, <1>3, <1>4, <1>5, Zenon DEF Call
<1>7. call'.record = call.record /\ call'.key = k /\ call'.left = call.left \ {k} /\ call'.pc = call.pc
  BY ONLY <1>2, <1>5 DEF Call
<1> QED
  BY <1>2, <1>6, <1>7 DEF CallInv

\* A text is written.
LEMMA CallWrites ==
  ASSUME CallInv, WritePiece PROVE CallInv' /\ Head(call.todo) \in Text
<1>1. call \in Call /\ call.todo \in Seq(Text) /\ call.todo # << >>
  BY DEF CallInv, Call, WritePiece
<1>2. Head(call.todo) \in Text /\ Tail(call.todo) \in Seq(Text)
  BY ONLY <1>1
<1> DEFINE rest == Tail(call.todo)
<1>3. call' = [call EXCEPT !.todo = rest]
  BY DEF WritePiece
<1> HIDE DEF rest
<1>4. call' \in Call /\ call'.pc = call.pc /\ call'.record = call.record
      /\ call'.left = call.left /\ call'.key = call.key
  BY ONLY <1>1, <1>2, <1>3, Zenon DEF Call, rest
<1> QED
  BY <1>2, <1>4 DEF CallInv

\* The call goes on behind the table, or to its end.
LEMMA CallGoesOn ==
  ASSUME CallInv, NEW pc \in {"run", "delete"}, NEW todo \in Seq(Text), NEW rc \in BOOLEAN,
         call' = [call EXCEPT !.pc = pc, !.todo = todo, !.rc = rc]
  PROVE  CallInv'
<1>1. call \in Call
  BY DEF CallInv
<1>2. call' \in Call /\ call'.pc = pc /\ call'.record = call.record
      /\ call'.left = call.left /\ call'.key = call.key
  BY ONLY <1>1, pc \in {"run", "delete"}, todo \in Seq(Text), rc \in BOOLEAN,
     call' = [call EXCEPT !.pc = pc, !.todo = todo, !.rc = rc], Zenon DEF Call, CallPc
<1> QED
  BY <1>2 DEF CallInv

\* Every step keeps the call well.
LEMMA CallKept ==
  ASSUME CallInv, [Next]_vars PROVE CallInv'
<1>0. call \in Call /\ call.todo \in Seq(Text) /\ call.rc \in BOOLEAN
  BY DEF CallInv, Call
<1>1. ASSUME call' = call PROVE CallInv'
  BY <1>1, CallSame
<1>2. ASSUME call' = Idle PROVE CallInv'
  <2>1. call' = [Idle EXCEPT !.pc = "idle"]
    BY <1>2 DEF Idle
  <2> QED
    BY <2>1, CallEnds
<1>3. ASSUME NEW sends \in BOOLEAN, NEW rc \in BOOLEAN, CcQuery(sends, rc) PROVE CallInv'
  <2>1. call' = call \/ call' = [Idle EXCEPT !.pc = "crashed"]
    BY <1>3 DEF CcQuery
  <2> QED
    BY <1>1, <2>1, CallEnds
<1>4. ASSUME NEW rc \in BOOLEAN, Execute(rc) PROVE CallInv'
  <2>1. call' = [call EXCEPT !.pc = "delete", !.todo = call.todo, !.rc = rc]
    <3>1. call' = [call EXCEPT !.pc = "delete", !.rc = rc]
      BY <1>4 DEF Execute
    <3> QED
      BY ONLY <1>0, <3>1, Zenon DEF Call
  <2> QED
    BY <1>0, <2>1, CallGoesOn, Zenon
<1>5. ASSUME EndTable PROVE CallInv'
  <2>1. call' = [call EXCEPT !.pc = "run", !.todo = LastText(call.where)]
    BY <1>5 DEF EndTable
  <2>2. call' = [call EXCEPT !.pc = "run", !.todo = LastText(call.where), !.rc = call.rc]
    BY ONLY <1>0, <2>1, Zenon DEF Call
  <2> QED
    BY <1>0, <2>2, LastTextIsText, CallGoesOn, Zenon
<1>6. ASSUME BadValue PROVE CallInv'
  <2>1. call' = [call EXCEPT !.pc = "delete"]
    BY <1>6 DEF BadValue
  <2>2. call' = [call EXCEPT !.pc = "delete", !.todo = call.todo, !.rc = call.rc]
    BY ONLY <1>0, <2>1, Zenon DEF Call
  <2> QED
    BY <1>0, <2>2, CallGoesOn, Zenon
<1>7. ASSUME NEW record \in Record, CcInsert(record) PROVE CallInv'
  BY <1>7, CallBegins, Zenon DEF CcInsert
<1>8. ASSUME NEW record \in Record, NEW where \in BOOLEAN, CcUpdate(record, where) PROVE CallInv'
  BY <1>8, CallBegins DEF CcUpdate
<1>9. CASE WritePiece \/ NextField
  BY <1>9, CallWrites, CallVisits
<1>10. CASE NextThrows \/ Finish \/ ClientEnds
  BY <1>2, <1>10 DEF NextThrows, Finish, ClientEnds
<1>11. CASE ClientStarts
  <2>1. call' = [Idle EXCEPT !.pc = "client"]
    BY <1>11 DEF ClientStarts
  <2> QED
    BY <2>1, CallEnds
<1>12. CASE \/ Gc \/ LinkLost \/ WrongArguments \/ ClientUses \/ UNCHANGED vars
            \/ \E rc, sends \in BOOLEAN : CcNewDb(rc) \/ CcExecute(sends, rc)
  BY <1>1, <1>12, Zenon DEF Gc, LinkLost, WrongArguments, ClientUses, vars, CcNewDb, CcExecute
<1> QED
  BY <1>3, <1>4, <1>5, <1>6, <1>7, <1>8, <1>9, <1>10, <1>11, <1>12 DEF Next

-----------------------------------------------------------------------------
\* Whatever Lua calls, and whatever fails, the buffer is used by its calls only,
\* with sizes and texts they are made for.
LEMMA StepIsBufferStep ==
  ASSUME CallInv, [Next]_vars PROVE [BufferNext]_buffer
<1>1. ASSUME New(InitSize) PROVE BufferNext
  BY <1>1, DbAssumption DEF BufferNext
<1>2. CASE \E record \in Record : CcInsert(record) \/ \E where \in BOOLEAN : CcUpdate(record, where)
  BY <1>1, <1>2, Zenon DEF CcInsert, CcUpdate, Begin
<1>3. CASE WritePiece
  BY <1>3, CallWrites DEF WritePiece, BufferNext
<1>4. CASE NextThrows \/ Finish \/ ClientEnds
  BY <1>4 DEF NextThrows, Finish, Finished, ClientEnds, BufferNext
<1>5. CASE ClientStarts
  BY <1>5 DEF ClientStarts, BufferNext
<1>6. CASE ClientUses
  BY <1>6, DbAssumption DEF ClientUses, BufferNext
<1>7. CASE \/ NextField \/ EndTable \/ BadValue \/ Gc \/ LinkLost \/ WrongArguments \/ UNCHANGED vars
           \/ \E rc, sends \in BOOLEAN :
                CcNewDb(rc) \/ Execute(rc) \/ CcExecute(sends, rc) \/ CcQuery(sends, rc)
  BY <1>7, Zenon DEF NextField, EndTable, BadValue, Gc, LinkLost, WrongArguments, vars,
              CcNewDb, Execute, CcExecute, CcQuery
<1> QED
  BY <1>2, <1>3, <1>4, <1>5, <1>6, <1>7 DEF Next

\* The call starts well.
LEMMA CallStarts ==
  ASSUME Init PROVE CallInv
<1>1. call = [pc |-> "idle", op |-> "none", record |-> << >>, left |-> {}, where |-> FALSE,
              todo |-> << >>, key |-> "none", rc |-> TRUE]
  BY DEF Init, Idle
<1>2. << >> \in Seq(Text)
  OBVIOUS
<1>3. call \in Call
  BY ONLY <1>1, <1>2 DEF Call, CallPc
<1> QED
  BY <1>1, <1>3 DEF CallInv

\* For all records and sizes: inserts, updates and any other user of a byte buffer
\* keep its lengths consistent, and slam_byte_buffer_write never copies beyond the
\* array.
THEOREM LengthsHoldInDb == Spec => []LengthsHold
<1>1. Init => CallInv /\ BufferInv
  BY CallStarts, InitIsStreamInit, Zenon DEF Init
<1>2. CallInv /\ BufferInv /\ [Next]_vars => CallInv' /\ BufferInv'
  BY CallKept, StepIsBufferStep, StepIsStreamStep
<1>3. BufferInv => LengthsHold
  BY DEF BufferInv
<1> QED
  BY <1>1, <1>2, <1>3, PTL DEF Spec

\* The buffer, as slam_lua_db.c uses it, implements the stream of SlamByteStream: no
\* byte of a statement is lost, repeated or reordered, however the array grows.
THEOREM DbImplementsStream == Spec => ImplementsStream
<1>1. Init => CallInv /\ BufferInv /\ Stream!Init
  BY CallStarts, InitIsStreamInit, Zenon DEF Init
<1>2. CallInv /\ BufferInv /\ [Next]_vars => CallInv' /\ BufferInv' /\ [Stream!Next]_(Stream!vars)
  BY CallKept, StepIsBufferStep, StepIsStreamStep
<1> QED
  BY <1>1, <1>2, PTL DEF Spec, ImplementsStream, Stream!Spec

\* Whatever fails, the buffer of a call is freed when the call ends, unless the
\* record has a number for a key.
THEOREM BufferReleasedHolds == Spec => BufferReleased
<1> DEFINE P == call.pc # "idle" /\ call'.pc = "idle" =>
                  status' = "none" /\ (leaked' # leaked => "1" \in DOMAIN call.record)
<1>1. ASSUME CallInv, [Next]_vars PROVE P
  <2>0. call \in Call
    BY <1>1 DEF CallInv
  <2>1. CASE NextThrows
    BY <1>1, <2>1, Zenon DEF NextThrows, Delete, CallInv
  <2>2. CASE Finish \/ ClientEnds
    BY <2>2 DEF Finish, Finished, ClientEnds, Delete
  <2>3. CASE \/ ClientStarts \/ Gc \/ WrongArguments
             \/ \E rc, sends \in BOOLEAN : CcNewDb(rc) \/ CcExecute(sends, rc) \/ CcQuery(sends, rc)
             \/ \E record \in Record : CcInsert(record) \/ \E where \in BOOLEAN : CcUpdate(record, where)
    BY <2>3, Zenon DEF ClientStarts, Gc, WrongArguments, Ready, CcNewDb, CcExecute, CcQuery,
                CcInsert, CcUpdate, Begin
  <2>4. CASE WritePiece \/ NextField
    <3>1. call'.pc = call.pc
      BY <2>0, <2>4, Zenon DEF WritePiece, NextField, Call
    <3> QED
      BY <3>1
  <2>5. CASE EndTable \/ BadValue \/ \E rc \in BOOLEAN : Execute(rc)
    <3>1. call'.pc \in {"run", "delete"}
      BY <2>0, <2>5, Zenon DEF EndTable, BadValue, Execute, Call
    <3> QED
      BY <3>1
  <2>6. CASE LinkLost \/ ClientUses \/ UNCHANGED vars
    BY <2>6 DEF LinkLost, ClientUses, vars
  <2> QED
    BY <1>1, <2>1, <2>2, <2>3, <2>4, <2>5, <2>6 DEF Next
<1>2. Init => CallInv
  BY CallStarts
<1>3. CallInv /\ [Next]_vars => CallInv' /\ [P]_vars
  BY <1>1, CallKept
<1> QED
  BY <1>2, <1>3, PTL DEF Spec, BufferReleased

-----------------------------------------------------------------------------
\* An insert or update whose statement was run, and the handle of the connection.
My == [open : BOOLEAN, link : BOOLEAN, names : BOOLEAN, pending : BOOLEAN, again : BOOLEAN]

\* The result that cc_db_insert and cc_db_update have in their hands is true only
\* when the server has run the statement, and so is the one they have given away.
RunInv == TrueMeansExecuted /\ (call.pc = "delete" /\ call.rc => ran = 1)

\* mysql_real_query answers true only when the server has run the statement, and it
\* leaves a handle behind that has its names or was opened again.
LEMMA QueryEffect ==
  ASSUME my \in My, NEW unread \in BOOLEAN, NEW rc \in BOOLEAN, RealQuery(unread, rc)
  PROVE  /\ my' \in My /\ my'.open = my.open
         /\ rc => ran' = 1
         /\ my.names \/ my.again => my'.names \/ my'.again
         /\ my'.pending /\ ~my.pending => rc /\ unread
<1>1. CASE rc = FALSE /\ ran' = 0 /\ my' = my
  BY <1>1
<1>2. ASSUME NEW runs \in BOOLEAN, NEW lost \in BOOLEAN, rc = (runs /\ ~lost),
             ran' = (IF runs THEN 1 ELSE 0),
             my' = [Session EXCEPT !.link = ~lost, !.pending = rc /\ unread]
      PROVE  /\ my' \in My /\ my'.open = my.open
             /\ rc => ran' = 1
             /\ my.names \/ my.again => my'.names \/ my'.again
             /\ my'.pending /\ ~my.pending => rc /\ unread
  <2>1. /\ Session \in My /\ Session.open = my.open
        /\ my.names \/ my.again => Session.names \/ Session.again
    BY Zenon DEF Session, My
  <2>2. /\ my' \in My /\ my'.open = Session.open /\ my'.names = Session.names
        /\ my'.again = Session.again /\ my'.pending = (rc /\ unread)
    <3> DEFINE link == ~lost
               pending == rc /\ unread
    <3>1. link \in BOOLEAN /\ pending \in BOOLEAN /\ my' = [Session EXCEPT !.link = link, !.pending = pending]
      BY <1>2
    <3> HIDE DEF link, pending
    <3>2. /\ my' \in My /\ my'.open = Session.open /\ my'.names = Session.names
          /\ my'.again = Session.again /\ my'.pending = pending
      BY ONLY <2>1, <3>1, Zenon DEF My
    <3> QED
      BY <3>2 DEF pending
  <2> QED
    BY <1>2, <2>1, <2>2
<1> QED
  BY <1>1, <1>2, Zenon DEF RealQuery

\* What a step does to the handle: it goes on, it is closed or opened, or a
\* statement is sent through it.
LEMMA HandleKept ==
  ASSUME my \in My, NamesKept, [Next]_vars
  PROVE  my' \in My /\ NamesKept'
<1>1. ASSUME my' = my PROVE my' \in My /\ NamesKept'
  BY <1>1 DEF NamesKept
<1>2. ASSUME my' = Closed PROVE my' \in My /\ NamesKept'
  BY <1>2 DEF Closed, My, NamesKept
<1>3. ASSUME NEW unread \in BOOLEAN, NEW rc \in BOOLEAN, RealQuery(unread, rc)
      PROVE  my' \in My /\ NamesKept'
  BY <1>3, QueryEffect DEF NamesKept
<1>4. CASE LinkLost
  <2>1. my' = [my EXCEPT !.link = FALSE]
    BY <1>4 DEF LinkLost
  <2>2. my' \in My /\ my'.open = my.open /\ my'.names = my.names /\ my'.again = my.again
    BY <2>1, Zenon DEF My
  <2> QED
    BY <2>2 DEF NamesKept
<1>5. ASSUME NEW rc \in BOOLEAN, CcNewDb(rc) PROVE my' \in My /\ NamesKept'
  <2>1. my' = Closed \/ my' = [Closed EXCEPT !.open = TRUE, !.link = TRUE, !.names = TRUE]
    BY <1>5 DEF CcNewDb, Connected
  <2>2. ASSUME my' = [Closed EXCEPT !.open = TRUE, !.link = TRUE, !.names = TRUE]
        PROVE  my' \in My /\ NamesKept'
    BY <2>2, Zenon DEF Closed, My, NamesKept
  <2> QED
    BY <1>2, <2>1, <2>2
<1>6. CASE \E rc, sends \in BOOLEAN : CcExecute(sends, rc) \/ CcQuery(sends, rc) \/ Execute(rc)
  BY <1>3, <1>6, Zenon DEF CcExecute, CcQuery, Execute, Unread
<1>7. CASE Gc
  BY <1>2, <1>7 DEF Gc
<1>8. CASE \/ WritePiece \/ NextField \/ NextThrows \/ EndTable \/ BadValue \/ Finish \/ WrongArguments
           \/ ClientStarts \/ ClientUses \/ ClientEnds \/ UNCHANGED vars
           \/ \E record \in Record : CcInsert(record) \/ \E where \in BOOLEAN : CcUpdate(record, where)
  BY <1>1, <1>8, Zenon DEF WritePiece, NextField, NextThrows, EndTable, BadValue, Finish, WrongArguments,
                    ClientStarts, ClientUses, ClientEnds, vars, CcInsert, CcUpdate, Begin
<1> QED
  BY <1>4, <1>5, <1>6, <1>7, <1>8 DEF Next

\* A connection starts closed.
LEMMA HandleStarts == Init => my \in My /\ NamesKept
  BY DEF Init, Closed, My, NamesKept

\* The session that Lua uses has the names of slam_db_connect until the library has
\* opened another one by itself, whatever is lost and whatever fails.
THEOREM NamesKeptHolds == Spec => []NamesKept
<1>1. my \in My /\ NamesKept /\ [Next]_vars => (my \in My)' /\ NamesKept'
  BY HandleKept
<1> QED
  BY <1>1, HandleStarts, PTL DEF Spec

\* Only db:execute of a statement that sends a result puts the connection out of
\* sync, however db:query ends.
THEOREM OutOfSyncOnlyByExecuteHolds == Spec => OutOfSyncOnlyByExecute
<1> DEFINE P == my'.pending /\ ~my.pending => answer' = <<"bool", TRUE>> /\ call.pc = "idle"
<1>1. ASSUME my \in My, [Next]_vars PROVE P
  <2>1. ASSUME NEW rc \in BOOLEAN, NEW sends \in BOOLEAN, CcExecute(sends, rc) PROVE P
    <3>1. my'.pending /\ ~my.pending => rc
      BY <1>1, <2>1, QueryEffect DEF CcExecute
    <3>2. answer' = <<"bool", rc>> /\ call.pc = "idle"
      BY <2>1 DEF CcExecute, Ready
    <3>3. rc => rc = TRUE
      OBVIOUS
    <3> QED
      BY <3>1, <3>2, <3>3, Zenon
  <2>2. CASE \E rc, sends \in BOOLEAN : CcQuery(sends, rc) \/ Execute(rc)
    <3>1. PICK rc \in BOOLEAN : RealQuery(FALSE, rc)
      BY <2>2, Zenon DEF CcQuery, Execute, Unread
    <3> QED
      BY <1>1, <3>1, QueryEffect, Zenon
  <2>3. CASE Gc \/ \E rc \in BOOLEAN : CcNewDb(rc)
    <3>1. \/ my' = Closed
          \/ my' = [Closed EXCEPT !.open = TRUE, !.link = TRUE, !.names = TRUE]
      BY <2>3 DEF Gc, CcNewDb, Connected
    <3>2. ASSUME my' = Closed PROVE ~my'.pending
      BY ONLY <3>2 DEF Closed
    <3>3. ASSUME my' = [Closed EXCEPT !.open = TRUE, !.link = TRUE, !.names = TRUE] PROVE ~my'.pending
      BY ONLY <3>3 DEF Closed
    <3> QED
      BY <3>1, <3>2, <3>3
  <2>4. CASE LinkLost
    <3>1. my'.pending = my.pending
      BY <1>1, <2>4 DEF LinkLost, My
    <3> QED
      BY <3>1
  <2>5. CASE \/ WritePiece \/ NextField \/ NextThrows \/ EndTable \/ BadValue \/ Finish \/ WrongArguments
             \/ ClientStarts \/ ClientUses \/ ClientEnds \/ UNCHANGED vars
             \/ \E record \in Record : CcInsert(record) \/ \E where \in BOOLEAN : CcUpdate(record, where)
    <3>1. my' = my
      BY <2>5, Zenon DEF WritePiece, NextField, NextThrows, EndTable, BadValue, Finish, WrongArguments,
                  ClientStarts, ClientUses, ClientEnds, vars, CcInsert, CcUpdate, Begin
    <3> QED
      BY <3>1
  <2> QED
    BY <1>1, <2>1, <2>2, <2>3, <2>4, <2>5, Zenon DEF Next
<1>2. my \in My /\ NamesKept /\ [Next]_vars => (my \in My)' /\ NamesKept' /\ [P]_vars
  BY <1>1, HandleKept, Zenon
<1> QED
  BY <1>2, HandleStarts, PTL DEF Spec, OutOfSyncOnlyByExecute

\* What the answer and the result in hand say of the statement stays true.
LEMMA RunKept ==
  ASSUME CallInv, my \in My, RunInv, [Next]_vars PROVE RunInv'
<1>0. call \in Call
  BY DEF CallInv
<1>a. \A a : a = <<"bool", TRUE>> => a[1] = "bool"
  OBVIOUS
<1>1. ASSUME UNCHANGED <<call, ran, answer>> PROVE RunInv'
  BY <1>1, Zenon DEF RunInv, TrueMeansExecuted
<1>2. ASSUME NEW rc \in BOOLEAN, NEW sends \in BOOLEAN, CcExecute(sends, rc) PROVE RunInv'
  <2>1. rc => ran' = 1
    BY <1>2, QueryEffect, Zenon DEF CcExecute
  <2>2. call' = call /\ call.pc = "idle" /\ answer' = <<"bool", rc>>
    BY <1>2 DEF CcExecute, Ready
  <2>3. answer' = <<"bool", TRUE>> => rc
    BY ONLY <2>2, Zenon
  <2> QED
    BY <2>1, <2>2, <2>3, Zenon DEF RunInv, TrueMeansExecuted
<1>3. ASSUME NEW rc \in BOOLEAN, NEW sends \in BOOLEAN, CcQuery(sends, rc) PROVE RunInv'
  <2>1. CASE call' = [Idle EXCEPT !.pc = "crashed"]
    <3>1. call'.pc = "crashed"
      BY <2>1 DEF Idle
    <3> QED
      BY <3>1 DEF RunInv, TrueMeansExecuted
  <2>2. CASE call' # [Idle EXCEPT !.pc = "crashed"]
    <3>1. /\ call' = call /\ call.pc = "idle"
          /\ answer' = <<"nil">> \/ \E rows \in Result : answer' = <<"rows", DecodeResult(rows)>>
      BY <1>3, <2>2 DEF CcQuery, Ready
    <3>2. answer'[1] \in {"nil", "rows"}
      BY ONLY <3>1
    <3> QED
      BY <1>a, <3>1, <3>2, Zenon DEF RunInv, TrueMeansExecuted
  <2> QED
    BY <2>1, <2>2
<1>4. ASSUME NEW rc \in BOOLEAN, Execute(rc) PROVE RunInv'
  <2>1. rc => ran' = 1
    BY <1>4, QueryEffect, Zenon DEF Execute
  <2>2. call'.pc = "delete" /\ call'.rc = rc
    BY <1>0, <1>4 DEF Execute, Call
  <2> QED
    BY <2>1, <2>2 DEF RunInv, TrueMeansExecuted
<1>5. ASSUME call'.pc \in {"table", "run"} PROVE RunInv'
  BY <1>5, Zenon DEF RunInv, TrueMeansExecuted
<1>6. CASE WritePiece
  <2>1. call'.pc = call.pc /\ call'.rc = call.rc /\ UNCHANGED <<ran, answer>>
    BY <1>0, <1>6 DEF WritePiece, Call
  <2> QED
    BY <2>1, Zenon DEF RunInv, TrueMeansExecuted
<1>7. CASE \/ NextField \/ EndTable
           \/ \E record \in Record : CcInsert(record) \/ \E where \in BOOLEAN : CcUpdate(record, where)
  <2>1. call'.pc \in {"table", "run"}
    BY <1>0, <1>7, Zenon DEF NextField, AtTable, EndTable, Call, CcInsert, CcUpdate, Begin, Idle
  <2> QED
    BY <1>5, <2>1
<1>8. CASE BadValue
  <2>1. call'.pc = "delete" /\ call'.rc = call.rc /\ ~call.rc
    BY <1>0, <1>8 DEF BadValue, Call
  <2> QED
    BY <2>1 DEF RunInv, TrueMeansExecuted
<1>9. CASE Finish
  <2>1. call' = Idle /\ answer' = <<"bool", call.rc>> /\ ran' = ran /\ call.pc = "delete"
    BY <1>9 DEF Finish
  <2>2. call'.pc = "idle"
    BY <2>1 DEF Idle
  <2>3. answer' = <<"bool", TRUE>> => call.rc
    BY ONLY <2>1, Zenon
  <2> QED
    BY <2>1, <2>2, <2>3, Zenon DEF RunInv, TrueMeansExecuted
<1>10. ASSUME call'.pc # "delete", answer' # <<"bool", TRUE>> PROVE RunInv'
  BY <1>10, Zenon DEF RunInv, TrueMeansExecuted
<1>b. CASE NextThrows \/ ClientStarts
  <2>1. call'.pc \in {"idle", "client"} /\ (answer' = <<"error">> \/ answer' = <<"none">>)
    BY <1>b DEF NextThrows, ClientStarts, Idle
  <2>2. answer'[1] # "bool"
    BY ONLY <2>1
  <2> QED
    BY <1>a, <1>10, <2>1, <2>2, Zenon
<1>c. CASE WrongArguments
  <2>1. /\ call' = call /\ call.pc = "idle"
        /\ answer' = <<"bool", FALSE>> \/ answer' = <<"nil">> \/ answer' = <<"error">>
    BY <1>c, Zenon DEF WrongArguments, Ready
  <2>2. ASSUME answer' = <<"bool", FALSE>> PROVE answer' # <<"bool", TRUE>>
    BY ONLY <2>2
  <2>3. ASSUME answer' = <<"nil">> \/ answer' = <<"error">> PROVE answer'[1] # "bool"
    BY ONLY <2>3
  <2>4. answer' # <<"bool", TRUE>>
    BY ONLY <1>a, <2>1, <2>2, <2>3, Zenon
  <2> QED
    BY <1>10, <2>1, <2>4
<1>11. ASSUME NEW rc \in BOOLEAN, CcNewDb(rc) PROVE RunInv'
  <2>1. call' = call /\ call.pc = "idle" /\ (answer' = <<"db">> \/ answer' = <<"nil">>)
    BY <1>11 DEF CcNewDb
  <2>2. answer'[1] # "bool"
    BY ONLY <2>1
  <2> QED
    BY <1>a, <1>10, <2>1, <2>2, Zenon
<1>12. CASE ClientEnds
  <2>1. call.pc = "client" /\ call'.pc = "idle" /\ UNCHANGED <<ran, answer>>
    BY <1>12 DEF ClientEnds, Idle
  <2> QED
    BY <2>1, Zenon DEF RunInv, TrueMeansExecuted
<1>13. CASE Gc \/ LinkLost \/ ClientUses \/ UNCHANGED vars
  BY <1>1, <1>13 DEF Gc, LinkLost, ClientUses, vars
<1> QED
  BY <1>2, <1>3, <1>4, <1>6, <1>7, <1>8, <1>9, <1>b, <1>c, <1>11, <1>12, <1>13 DEF Next

\* insert, update and execute answer true only when the server has run the
\* statement, for all records, although the link may break at any time.
THEOREM TrueMeansExecutedHolds == Spec => []TrueMeansExecuted
<1>1. Init => RunInv
  <2>1. ASSUME Init PROVE answer = <<"none">> /\ call.pc = "idle"
    BY <2>1 DEF Init, Idle
  <2>2. <<"none">> # <<"bool", TRUE>>
    OBVIOUS
  <2> QED
    BY <2>1, <2>2, Zenon DEF RunInv, TrueMeansExecuted
<1>2. CallInv /\ my \in My /\ NamesKept /\ RunInv /\ [Next]_vars
        => CallInv' /\ (my \in My)' /\ NamesKept' /\ RunInv'
  BY CallKept, HandleKept, RunKept
<1>3. RunInv => TrueMeansExecuted
  BY DEF RunInv
<1> QED
  BY <1>1, <1>2, <1>3, CallStarts, HandleStarts, PTL DEF Spec

-----------------------------------------------------------------------------
(* The text of a statement.                                                *)

\* what a statement is made of
Token == Name \cup Sql \cup Value
Word == Token \ {"NUL"}

\* the writes of one token each
Singles(w) == [i \in 1 .. Len(w) |-> <<w[i]>>]

LEMMA SinglesJoin ==
  ASSUME NEW T, NEW a \in Seq(T), NEW b \in Seq(T)
  PROVE  Singles(a \o b) = Singles(a) \o Singles(b)
<1> DEFINE U == {<<x>> : x \in T}
           c == a \o b
<1>1. \A w \in Seq(T) : Singles(w) \in Seq(U) /\ Len(Singles(w)) = Len(w)
  <2> TAKE w \in Seq(T)
  <2>1. Len(w) \in Nat /\ Singles(w) \in [1 .. Len(w) -> U]
    BY DEF Singles
  <2> QED
    BY <2>1, FunctionIsSeq
<1>2. /\ c \in Seq(T) /\ Len(c) = Len(a) + Len(b) /\ Len(a) \in Nat /\ Len(b) \in Nat
      /\ \A i \in 1 .. Len(c) : c[i] = IF i <= Len(a) THEN a[i] ELSE b[i - Len(a)]
  OBVIOUS
<1> DEFINE s == Singles(a) \o Singles(b)
<1> HIDE DEF U, c
<1>3. /\ s \in Seq(U) /\ Len(s) = Len(a) + Len(b)
      /\ \A i \in 1 .. Len(s) : s[i] = IF i <= Len(a) THEN Singles(a)[i] ELSE Singles(b)[i - Len(a)]
  <2>1. PICK p \in Seq(U), q \in Seq(U) : p = Singles(a) /\ q = Singles(b)
    BY <1>1
  <2>2. Len(p) = Len(a) /\ Len(q) = Len(b)
    BY <1>1, <2>1
  <2>3. /\ p \o q \in Seq(U) /\ Len(p \o q) = Len(p) + Len(q)
        /\ \A i \in 1 .. Len(p \o q) : (p \o q)[i] = IF i <= Len(p) THEN p[i] ELSE q[i - Len(p)]
    OBVIOUS
  <2> QED
    BY ONLY <2>1, <2>2, <2>3
<1> HIDE DEF s
<1>4. ASSUME NEW i \in 1 .. Len(c) PROVE Singles(c)[i] = s[i]
  <2>1. Singles(c)[i] = <<c[i]>>
    BY DEF Singles
  <2>2. CASE i <= Len(a)
    <3>1. i \in 1 .. Len(a)
      BY <1>2, <2>2
    <3>2. Singles(a)[i] = <<a[i]>>
      BY <3>1 DEF Singles
    <3> QED
      BY <1>2, <1>3, <2>1, <2>2, <3>2
  <2>3. CASE ~(i <= Len(a))
    <3>1. i - Len(a) \in 1 .. Len(b)
      BY <1>2, <2>3
    <3>2. Singles(b)[i - Len(a)] = <<b[i - Len(a)]>>
      BY <3>1 DEF Singles
    <3> QED
      BY <1>2, <1>3, <2>1, <2>3, <3>2
  <2> QED
    BY <2>2, <2>3
<1>5. Singles(c) = s
  <2>1. Singles(c) \in Seq(U) /\ Len(Singles(c)) = Len(c)
    BY <1>1, <1>2
  <2>2. Len(Singles(c)) = Len(s)
    BY <1>2, <1>3, <2>1
  <2> QED
    BY <1>3, <1>4, <2>1, <2>2, SameSeq
<1> QED
  BY <1>5 DEF c, s

LEMMA SinglesFew ==
  ASSUME NEW x, NEW y, NEW z
  PROVE  /\ Singles(<< >>) = << >> /\ Singles(<<x>>) = <<<<x>>>>
         /\ Singles(<<x, y>>) = <<<<x>>, <<y>>>> /\ Singles(<<x, y, z>>) = <<<<x>>, <<y>>, <<z>>>>
<1>1. Singles(<< >>) = << >>
  BY DEF Singles
<1>2. Singles(<<x>>) = <<<<x>>>>
  BY DEF Singles
<1>3. Singles(<<x, y>>) = <<<<x>>, <<y>>>>
  BY DEF Singles
<1>4. Singles(<<x, y, z>>) = <<<<x>>, <<y>>, <<z>>>>
  BY DEF Singles
<1> QED
  BY ONLY <1>1, <1>2, <1>3, <1>4

\* The next write, and those behind it.
LEMMA SinglesNext ==
  ASSUME NEW T, NEW w \in Seq(T), Singles(w) # << >>
  PROVE  /\ w # << >> /\ Head(w) \in T /\ Tail(w) \in Seq(T)
         /\ Head(Singles(w)) = <<Head(w)>> /\ Tail(Singles(w)) = Singles(Tail(w))
         /\ w = <<Head(w)>> \o Tail(w)
<1>1. w # << >>
  BY SinglesFew, Zenon
<1>2. PICK h \in T, t \in Seq(T) : h = Head(w) /\ t = Tail(w)
  <2>1. Head(w) \in T /\ Tail(w) \in Seq(T)
    BY <1>1
  <2> QED
    BY <2>1, Zenon
<1>3. w = <<h>> \o t
  <2>1. Len(w) \in Nat /\ Len(t) = Len(w) - 1 /\ \A i \in 1 .. Len(t) : t[i] = w[i + 1]
    BY <1>1, <1>2
  <2>2. h = w[1] /\ Len(w) # 0
    BY <1>1, <1>2
  <2>3. PICK u : u = <<h>> \o t
    BY Zenon
  <2>a. u \in Seq(T)
    BY <2>3
  <2>4. Len(u) = 1 + Len(t) /\ \A i \in 1 .. Len(u) : u[i] = IF i = 1 THEN h ELSE t[i - 1]
    BY <2>3
  <2>5. \A i \in 1 .. Len(u) : u[i] = w[i]
    BY ONLY <2>1, <2>2, <2>4
  <2>6. Len(u) = Len(w)
    BY ONLY <2>1, <2>4
  <2>7. u = w
    BY <2>5, <2>6, <2>a, SameSeq
  <2> QED
    BY <2>3, <2>7
<1>4. Singles(w) = <<<<h>>>> \o Singles(t)
  BY <1>3, SinglesJoin, SinglesFew, <<h>> \in Seq(T), Zenon
<1>5. PICK n \in Nat : n = Len(t)
  OBVIOUS
<1>6. Singles(t) \in Seq({<<x>> : x \in T})
  <2>1. Singles(t) \in [1 .. n -> {<<x>> : x \in T}]
    BY <1>5 DEF Singles
  <2> QED
    BY <2>1, FunctionIsSeq
<1>7. PICK U : U = {<<x>> : x \in T}
  BY Zenon
<1>8. PICK e \in U, s \in Seq(U) : e = <<h>> /\ s = Singles(t)
  BY <1>6, <1>7, Zenon
<1>9. Head(<<e>> \o s) = e /\ Tail(<<e>> \o s) = s
  OBVIOUS
<1>10. Head(Singles(w)) = <<h>> /\ Tail(Singles(w)) = Singles(t)
  BY ONLY <1>4, <1>8, <1>9
<1> QED
  BY ONLY <1>1, <1>2, <1>3, <1>10, Zenon

\* the value and the assignment of a field
ValueWords(v) == IF v = "str" THEN <<"'", "str", "'">> ELSE <<v>>
FieldWords(comma, k, v) == (IF comma THEN <<",">> ELSE << >>) \o <<k, "=">> \o ValueWords(v)
LastWords(where) == (IF where THEN <<"where", "cond">> ELSE << >>) \o <<"NUL">>

LEMMA FieldParts ==
  ASSUME NEW k \in Name, k # "NUL", NEW v \in Value
  PROVE  /\ <<k, "=">> \in Seq(Word) /\ ValueWords(v) \in Seq(Word)
         /\ <<",">> \in Seq(Word) /\ << >> \in Seq(Word)
<1>1. /\ "," \in Word /\ "=" \in Word /\ "'" \in Word /\ "str" \in Word
      /\ k \in Word /\ v \in Word
  BY Zenon DEF Word, Token, Sql, Value
<1>a. ASSUME NEW x \in Word, NEW y \in Word, NEW z \in Word
      PROVE  <<x>> \in Seq(Word) /\ <<x, y>> \in Seq(Word) /\ <<x, y, z>> \in Seq(Word)
  OBVIOUS
<1>2. <<"'", "str", "'">> \in Seq(Word) /\ <<v>> \in Seq(Word)
  BY ONLY <1>a, <1>1, Zenon
<1>3. ValueWords(v) \in Seq(Word)
  BY ONLY <1>2, Zenon DEF ValueWords
<1>4. <<k, "=">> \in Seq(Word) /\ <<",">> \in Seq(Word)
  BY ONLY <1>a, <1>1, Zenon
<1>5. << >> \in Seq(Word)
  OBVIOUS
<1> QED
  BY ONLY <1>3, <1>4, <1>5, Zenon

LEMMA FieldIsWords ==
  ASSUME NEW k \in Name, k # "NUL", NEW v \in Value, NEW comma \in BOOLEAN
  PROVE  FieldWords(comma, k, v) \in Seq(Word)
<1> DEFINE c == IF comma THEN <<",">> ELSE << >>
<1>1. c \in Seq(Word) /\ <<k, "=">> \in Seq(Word) /\ ValueWords(v) \in Seq(Word)
  BY FieldParts, Zenon
<1>2. PICK a \in Seq(Word), b \in Seq(Word), d \in Seq(Word) :
        a = c /\ b = <<k, "=">> /\ d = ValueWords(v)
  BY <1>1, Zenon
<1>3. (a \o b) \o d \in Seq(Word)
  OBVIOUS
<1> QED
  BY <1>2, <1>3, Zenon DEF FieldWords

\* slam_lua_db_encode_table writes an assignment token by token.
LEMMA FieldIsSingles ==
  ASSUME NEW k \in Name, k # "NUL", NEW v \in {"num", "numstr", "str"}
  PROVE  FieldText(k, v) = Singles(FieldWords(call.key # "none", k, v))
<1>2. /\ <<k, "=">> \in Seq(Word) /\ ValueWords(v) \in Seq(Word)
      /\ <<",">> \in Seq(Word) /\ << >> \in Seq(Word)
  BY FieldParts, Zenon DEF Value
<1>3. ValueText(v) = Singles(ValueWords(v))
  <2>1. CASE v = "str"
    BY <2>1, SinglesFew, Zenon DEF ValueText, ValueWords
  <2>2. CASE v # "str"
    <3>1. v \in {"num", "numstr"} /\ ValueWords(v) = <<v>>
      BY <2>2 DEF ValueWords
    <3>2. ValueText(v) = <<<<v>>>>
      BY <3>1, Zenon DEF ValueText
    <3> QED
      BY <3>1, <3>2, SinglesFew, Zenon
  <2> QED
    BY <2>1, <2>2
<1> DEFINE c == IF call.key # "none" THEN <<",">> ELSE << >>
<1>4. c \in Seq(Word)
  BY <1>2, Zenon
<1>5. (IF call.key = "none" THEN << >> ELSE <<<<",">>>>) = Singles(c)
  BY SinglesFew, Zenon
<1>6. <<<<k>>, <<"=">>>> = Singles(<<k, "=">>)
  BY SinglesFew, Zenon
<1>7. PICK a, b, d : a = c /\ b = <<k, "=">> /\ d = ValueWords(v)
  BY Zenon
<1>8. FieldText(k, v) = Singles(a) \o Singles(b) \o Singles(d)
  BY <1>3, <1>5, <1>6, <1>7, Zenon DEF FieldText
<1>9. a \in Seq(Word) /\ b \in Seq(Word) /\ d \in Seq(Word)
  BY ONLY <1>2, <1>4, <1>7, Zenon
<1>10. Singles(a \o b) = Singles(a) \o Singles(b) /\ a \o b \in Seq(Word)
  BY <1>9, SinglesJoin
<1>11. Singles((a \o b) \o d) = Singles(a \o b) \o Singles(d)
  BY <1>9, <1>10, SinglesJoin, Zenon
<1>12. FieldWords(call.key # "none", k, v) = (a \o b) \o d
  BY <1>7, Zenon DEF FieldWords
<1> QED
  BY ONLY <1>8, <1>10, <1>11, <1>12, Zenon

\* So do cc_db_insert and cc_db_update behind the table.
LEMMA LastIsSingles ==
  ASSUME NEW where \in BOOLEAN
  PROVE  LastText(where) = Singles(LastWords(where)) /\ LastWords(where) \in Seq(Token)
<1>1. <<"where", "cond">> \in Seq(Token) /\ << >> \in Seq(Token) /\ <<"NUL">> \in Seq(Token)
  BY DEF Token, Sql
<1>2. CASE where
  <2>1. LastWords(where) = <<"where", "cond">> \o <<"NUL">>
    BY <1>2 DEF LastWords
  <2>2. LastText(where) = <<<<"where">>, <<"cond">>>> \o <<<<"NUL">>>>
    BY <1>2 DEF LastText
  <2>3. Singles(<<"where", "cond">> \o <<"NUL">>) = Singles(<<"where", "cond">>) \o Singles(<<"NUL">>)
    BY <1>1, SinglesJoin, Zenon
  <2>4. <<"where", "cond">> \o <<"NUL">> \in Seq(Token)
    BY <1>1
  <2> QED
    BY ONLY <2>1, <2>2, <2>3, <2>4, SinglesFew, Zenon
<1>3. CASE ~where
  <2>1. LastWords(where) = << >> \o <<"NUL">>
    BY <1>3 DEF LastWords
  <2>2. LastText(where) = << >> \o <<<<"NUL">>>>
    BY <1>3 DEF LastText
  <2>3. Singles(<< >> \o <<"NUL">>) = Singles(<< >>) \o Singles(<<"NUL">>)
    BY <1>1, SinglesJoin, Zenon
  <2>4. << >> \o <<"NUL">> \in Seq(Token)
    BY <1>1
  <2> QED
    BY ONLY <2>1, <2>2, <2>3, <2>4, SinglesFew, Zenon
<1> QED
  BY <1>2, <1>3

\* the assignments of the fields ks, one by one
Fields(record, ks) == [i \in 1 .. Len(ks) |-> FieldWords(i # 1, ks[i], record[ks[i]])]

LEMMA FieldsAreWords ==
  ASSUME NEW record \in Record, NEW ks \in Seq(DOMAIN record)
  PROVE  /\ Assignments(record, ks) = Joined(Fields(record, ks))
         /\ Fields(record, ks) \in Seq(Seq(Word)) /\ Len(Fields(record, ks)) = Len(ks)
<1>1. Assignments(record, ks) = Joined(Fields(record, ks))
  <2>1. ASSUME NEW i \in 1 .. Len(ks)
        PROVE  FieldWords(i # 1, ks[i], record[ks[i]]) =
                 (IF i = 1 THEN << >> ELSE <<",">>) \o <<ks[i], "=">> \o
                 (IF record[ks[i]] = "str" THEN <<"'", "str", "'">> ELSE <<record[ks[i]]>>)
    <3>1. (IF i # 1 THEN <<",">> ELSE << >>) = (IF i = 1 THEN << >> ELSE <<",">>)
      BY Zenon
    <3> QED
      BY <3>1, Zenon DEF FieldWords, ValueWords
  <2>2. Fields(record, ks) =
          [i \in 1 .. Len(ks) |->
             (IF i = 1 THEN << >> ELSE <<",">>) \o <<ks[i], "=">> \o
             (IF record[ks[i]] = "str" THEN <<"'", "str", "'">> ELSE <<record[ks[i]]>>)]
    BY <2>1, Zenon DEF Fields
  <2> QED
    BY <2>2, Zenon DEF Assignments
<1>2. ASSUME NEW i \in 1 .. Len(ks) PROVE FieldWords(i # 1, ks[i], record[ks[i]]) \in Seq(Word)
  <2>1. ks[i] \in DOMAIN record
    OBVIOUS
  <2>2. ks[i] \in Name /\ ks[i] # "NUL" /\ record[ks[i]] \in Value /\ (i # 1) \in BOOLEAN
    BY <2>1, DbAssumption, NameAssumption, Zenon DEF Name
  <2> QED
    BY <2>2, FieldIsWords, Zenon
<1>3. Len(ks) \in Nat /\ Fields(record, ks) \in [1 .. Len(ks) -> Seq(Word)]
  BY <1>2 DEF Fields
<1>4. Fields(record, ks) \in Seq(Seq(Word)) /\ Len(Fields(record, ks)) = Len(ks)
  BY <1>3, FunctionIsSeq
<1> QED
  BY <1>1, <1>4

\* One more field: its assignment comes behind the others.
LEMMA OneMoreField ==
  ASSUME NEW record \in Record, NEW ks \in Seq(DOMAIN record), NEW k \in DOMAIN record
  PROVE  /\ Assignments(record, ks) \in Seq(Word)
         /\ Assignments(record, Append(ks, k)) =
              Assignments(record, ks) \o FieldWords(ks # << >>, k, record[k])
<1> DEFINE e == FieldWords(ks # << >>, k, record[k])
<1>1. PICK n \in Nat : n = Len(ks)
  OBVIOUS
<1>2. PICK ls \in Seq(DOMAIN record) : ls = Append(ks, k)
  <2>1. Append(ks, k) \in Seq(DOMAIN record)
    OBVIOUS
  <2> QED
    BY <2>1, Zenon
<1>3. Len(ls) = n + 1 /\ ls[n + 1] = k /\ \A i \in 1 .. n : ls[i] = ks[i]
  BY <1>1, <1>2
<1>4. ks # << >> <=> n + 1 # 1
  BY <1>1
<1>5. e \in Seq(Word)
  <2>1. k \in Name /\ k # "NUL" /\ record[k] \in Value /\ (ks # << >>) \in BOOLEAN
    BY DbAssumption, NameAssumption, Zenon DEF Name
  <2> QED
    BY <2>1, FieldIsWords, Zenon
<1>6. Fields(record, ls) = Append(Fields(record, ks), e)
  <2>1. PICK U : U = Seq(Word)
    OBVIOUS
  <2>2. PICK s \in Seq(U), t \in Seq(U) : s = Fields(record, ks) /\ t = Fields(record, ls)
    BY <2>1, FieldsAreWords, Zenon
  <2>3. Len(s) = n /\ Len(t) = n + 1
    BY <1>1, <1>3, <2>2, FieldsAreWords
  <2>4. ASSUME NEW i \in 1 .. n PROVE t[i] = s[i]
    <3>1. i \in 1 .. n + 1 /\ ls[i] = ks[i]
      <4>1. i \in 1 .. n + 1
        OBVIOUS
      <4>2. ls[i] = ks[i]
        BY <1>3, Zenon
      <4> QED
        BY ONLY <4>1, <4>2
    <3>2. t[i] = FieldWords(i # 1, ls[i], record[ls[i]])
      BY <1>3, <2>2, <3>1 DEF Fields
    <3>3. s[i] = FieldWords(i # 1, ks[i], record[ks[i]])
      BY <1>1, <2>2 DEF Fields
    <3> QED
      BY ONLY <3>1, <3>2, <3>3
  <2>5. t[n + 1] = e
    <3>1. n + 1 \in 1 .. n + 1
      OBVIOUS
    <3>2. t[n + 1] = FieldWords(n + 1 # 1, ls[n + 1], record[ls[n + 1]])
      BY <1>3, <2>2, <3>1 DEF Fields
    <3>3. (n + 1 # 1) = (ks # << >>)
      BY <1>4
    <3> QED
      BY ONLY <1>3, <3>2, <3>3
  <2> HIDE DEF e
  <2>6. e \in U
    BY <1>5, <2>1
  <2>7. t = Append(s, e)
    <3>1. PICK a : a = Append(s, e)
      BY Zenon
    <3>2. a \in Seq(U) /\ Len(a) = n + 1 /\ a[n + 1] = e /\ \A i \in 1 .. n : a[i] = s[i]
      BY <2>3, <2>6, <3>1
    <3>3. \A i \in 1 .. n + 1 : t[i] = a[i]
      BY ONLY <2>4, <2>5, <3>2, n \in Nat
    <3>4. t = a
      BY <2>3, <3>2, <3>3, SameSeq
    <3> QED
      BY <3>1, <3>4
  <2> QED
    BY <2>2, <2>7
<1> HIDE DEF e
<1>7. Fields(record, ks) \in Seq(Seq(Word))
  BY FieldsAreWords
<1>8. /\ Joined(Fields(record, ks)) \in Seq(Word)
      /\ Joined(Append(Fields(record, ks), e)) = Joined(Fields(record, ks)) \o e
  BY <1>5, <1>7, JoinedAppend
<1>9. /\ Assignments(record, ks) = Joined(Fields(record, ks))
      /\ Assignments(record, ls) = Joined(Fields(record, ls))
  BY FieldsAreWords
<1> QED
  BY ONLY <1>2, <1>6, <1>8, <1>9 DEF e

-----------------------------------------------------------------------------
\* lua_next has visited the fields ks of the call c, in this order.
Visited(c, ks) ==
  /\ ks \in Seq(DOMAIN c.record)
  /\ \A i, j \in 1 .. Len(ks) : i # j => ks[i] # ks[j]
  /\ DOMAIN c.record \ c.left = {ks[i] : i \in 1 .. Len(ks)}
  /\ c.key = IF ks = << >> THEN "none" ELSE ks[Len(ks)]

\* the statement up to the fields ks, and what it says when the call is where it is
Opening(c, ks) == <<c.op, "t", "set">> \o Assignments(c.record, ks)
Statement(c, ks) == IF c.pc = "table" THEN Opening(c, ks) ELSE Opening(c, ks) \o LastWords(c.where)

\* a statement is being written, of which everything will be in the text
Writing(c) ==
  /\ \/ c.pc = "table" /\ c.rc
     \/ c.pc = "run"
  /\ \A k \in DOMAIN c.record : c.record[k] # "bool"

\* What is in the buffer and what is still to be written are the statement, for
\* some order of the fields.
Underway(c, content) ==
  \E ks : /\ Visited(c, ks)
          /\ \E w \in Seq(Token) : c.todo = Singles(w) /\ content \o w = Statement(c, ks)

StatementInv ==
  Writing(call) =>
    /\ rlength = 0
    /\ call.record \in Record /\ call.op \in {"insert", "update"}
    /\ call.pc = "run" => call.left = {}
    /\ Underway(call, Content)

\* The words a statement starts with, and the assignments behind them.
LEMMA OpeningIsWords ==
  ASSUME NEW c, c.op \in {"insert", "update"}, c.record \in Record, NEW ks \in Seq(DOMAIN c.record)
  PROVE  /\ <<c.op, "t", "set">> \in Seq(Word) /\ Assignments(c.record, ks) \in Seq(Word)
         /\ Opening(c, ks) \in Seq(Word)
<1>1. c.op \in Word /\ "t" \in Word /\ "set" \in Word
  BY Zenon DEF Word, Token, Sql
<1>2. <<c.op, "t", "set">> \in Seq(Word)
  <2>1. ASSUME NEW x \in Word, NEW y \in Word, NEW z \in Word PROVE <<x, y, z>> \in Seq(Word)
    OBVIOUS
  <2> QED
    BY ONLY <1>1, <2>1, Zenon
<1>3. Assignments(c.record, ks) \in Seq(Word)
  <2>1. /\ Fields(c.record, ks) \in Seq(Seq(Word))
        /\ Assignments(c.record, ks) = Joined(Fields(c.record, ks))
    BY FieldsAreWords
  <2>2. << >> \in Seq(Word)
    OBVIOUS
  <2>3. Joined(Fields(c.record, ks)) \in Seq(Word)
    BY <2>1, <2>2, JoinedAppend
  <2> QED
    BY <2>1, <2>3
<1>4. <<c.op, "t", "set">> \o Assignments(c.record, ks) \in Seq(Word)
  <2>1. ASSUME NEW x \in Seq(Word), NEW y \in Seq(Word) PROVE x \o y \in Seq(Word)
    OBVIOUS
  <2> QED
    BY ONLY <1>2, <1>3, <2>1, Zenon
<1> QED
  BY <1>2, <1>3, <1>4, Zenon DEF Opening

\* A call begins with the words in front of the fields.
LEMMA StatementBegins ==
  ASSUME NEW op \in {"insert", "update"}, NEW record \in Record, NEW where \in BOOLEAN,
         BufferInv, Begin(op, record, where)
  PROVE  StatementInv'
<1> DEFINE c == [pc |-> "table", op |-> op, record |-> record, left |-> DOMAIN record,
                 where |-> where, todo |-> <<<<op>>, <<"t">>, <<"set">>>>, key |-> "none", rc |-> TRUE]
           w == <<op, "t", "set">>
<1>1. call' = c
  BY Zenon DEF Begin, Idle
<1>2. Content' = << >> /\ rlength' = 0
  <2>1. InitSize \in Nat /\ LengthsHold /\ New(InitSize)
    BY DbAssumption, BufferAssumption DEF Begin, BufferInv
  <2> QED
    BY <2>1, NewEffect DEF New
<1>3. Visited(c, << >>)
  BY DEF Visited
<1>4. Assignments(record, << >>) = << >>
  <2>1. << >> \in Seq(DOMAIN record)
    OBVIOUS
  <2>2. PICK f \in Seq(Seq(Word)) : f = Fields(record, << >>) /\ Len(f) = 0
    BY <2>1, FieldsAreWords, Zenon
  <2>3. f = << >>
    <3>1. PICK U : U = Seq(Word)
      BY Zenon
    <3>2. f \in Seq(U) /\ Len(f) = 0
      BY <2>2, <3>1, Zenon
    <3> QED
      BY ONLY <3>2
  <2>4. Joined(f) = << >>
    BY <2>3, JoinedNone
  <2> QED
    BY <2>1, <2>2, <2>4, FieldsAreWords, Zenon
<1>5. w \in Seq(Word) /\ w \in Seq(Token)
  <2>1. op \in Word /\ "t" \in Word /\ "set" \in Word
    BY ZenonT(30) DEF Word, Token, Sql
  <2>2. ASSUME NEW T, NEW x \in T, NEW y \in T, NEW z \in T PROVE <<x, y, z>> \in Seq(T)
    OBVIOUS
  <2>3. op \in Token /\ "t" \in Token /\ "set" \in Token
    BY <2>1 DEF Word
  <2> QED
    BY ONLY <2>1, <2>2, <2>3, Zenon
<1>6. Statement(c, << >>) = w \o << >>
  BY <1>4, Zenon DEF Statement, Opening
<1>7. << >> \o w = w /\ w \o << >> = w
  <2>1. ASSUME NEW T, NEW x \in Seq(T) PROVE << >> \o x = x /\ x \o << >> = x
    OBVIOUS
  <2> QED
    BY <1>5, <2>1, Zenon
<1>8. c.todo = Singles(w)
  BY SinglesFew, Zenon
<1>9. Underway(c, << >>)
  <2> HIDE DEF w, c
  <2> QED
    BY <1>3, <1>5, <1>6, <1>7, <1>8, Zenon DEF Underway
<1>10. c.record \in Record /\ c.op \in {"insert", "update"} /\ c.pc # "run"
  OBVIOUS
<1> HIDE DEF c
<1> QED
  BY <1>1, <1>2, <1>9, <1>10, Zenon DEF StatementInv

LEMMA SinglesNone ==
  ASSUME NEW T, NEW w \in Seq(T), Singles(w) = << >> PROVE w = << >>
<1>1. DOMAIN Singles(w) = 1 .. Len(w)
  BY DEF Singles
<1>2. DOMAIN Singles(w) = {}
  <2>1. DOMAIN << >> = {}
    OBVIOUS
  <2> QED
    BY <2>1, Zenon
<1>3. Len(w) \in Nat
  OBVIOUS
<1>4. Len(w) # 0 => 1 \in 1 .. Len(w)
  BY <1>3
<1>5. Len(w) = 0
  BY ONLY <1>1, <1>2, <1>4, Zenon
<1> QED
  BY <1>5

\* Sequences of different sets, and \o.
LEMMA Regrouped ==
  ASSUME NEW S, NEW T, NEW a \in Seq(S), NEW b \in Seq(T), NEW d \in Seq(T)
  PROVE  (a \o b) \o d = a \o (b \o d)
<1> DEFINE U == S \cup T
<1>1. a \in Seq(U) /\ b \in Seq(U) /\ d \in Seq(U)
  OBVIOUS
<1> HIDE DEF U
<1>2. ASSUME NEW x \in Seq(U), NEW y \in Seq(U), NEW z \in Seq(U) PROVE (x \o y) \o z = x \o (y \o z)
  BY ConcatAssociative
<1> QED
  BY <1>1, <1>2, Zenon

LEMMA ContentIsSeq ==
  ASSUME LengthsHold PROVE Content \in Seq(Cell)
<1>1. /\ bytes \in Seq(Cell) /\ rlength \in Nat /\ wlength \in Nat
      /\ rlength <= wlength /\ wlength <= Len(bytes)
  BY DEF LengthsHold, Cell
<1> QED
  BY <1>1, Piece DEF Content

\* A write moves a word from what is to be written to the buffer.
LEMMA StatementGrows ==
  ASSUME BufferInv, CallInv, StatementInv, WritePiece
  PROVE  StatementInv'
<1>0. call \in Call /\ LengthsHold /\ call.todo # << >> /\ Write(Head(call.todo))
      /\ call' = [call EXCEPT !.todo = Tail(call.todo)]
  BY DEF CallInv, BufferInv, WritePiece
<1>1. Content' = Content \o Head(call.todo) /\ rlength' = rlength
  <2>1. Head(call.todo) \in Text
    BY CallWrites
  <2> QED
    BY <1>0, <2>1, WriteAppends, Zenon DEF Write
<1>2. PICK rest : rest = Tail(call.todo)
  BY ZenonT(30)
<1>3. /\ call'.pc = call.pc /\ call'.rc = call.rc /\ call'.record = call.record /\ call'.op = call.op
      /\ call'.left = call.left /\ call'.key = call.key /\ call'.where = call.where
      /\ call'.todo = rest
  <2>1. call' = [call EXCEPT !.todo = rest]
    BY <1>0, <1>2, Zenon
  <2> QED
    BY ONLY <1>0, <2>1 DEF Call
<1>4. Writing(call') => Writing(call)
  BY <1>3 DEF Writing
<1>5. ASSUME Writing(call) PROVE Underway(call', Content')
  <2>1. PICK ks : Visited(call, ks) /\
                  \E w \in Seq(Token) : call.todo = Singles(w) /\ Content \o w = Statement(call, ks)
    BY <1>5, Zenon DEF StatementInv, Underway
  <2>2. PICK w \in Seq(Token) : call.todo = Singles(w) /\ Content \o w = Statement(call, ks)
    BY <2>1, Zenon
  <2>3. /\ Head(w) \in Token /\ Tail(w) \in Seq(Token) /\ w = <<Head(w)>> \o Tail(w)
        /\ Head(call.todo) = <<Head(w)>> /\ Tail(call.todo) = Singles(Tail(w))
    BY <1>0, <2>2, SinglesNext
  <2>4. PICK h \in Token, t \in Seq(Token) : h = Head(w) /\ t = Tail(w)
    BY <2>3, Zenon
  <2>5. Content' = Content \o <<h>> /\ w = <<h>> \o t /\ rest = Singles(t)
    BY ONLY <1>1, <1>2, <2>3, <2>4, Zenon
  <2>6. (Content \o <<h>>) \o t = Content \o (<<h>> \o t)
    <3>1. Content \in Seq(Cell)
      BY <1>0, ContentIsSeq
    <3>2. <<h>> \in Seq(Token)
      OBVIOUS
    <3> QED
      BY <3>1, <3>2, Regrouped
  <2>7. Content' \o t = Statement(call, ks)
    BY ONLY <2>2, <2>5, <2>6, Zenon
  <2>8. Statement(call', ks) = Statement(call, ks) /\ Visited(call', ks)
    BY <1>3, <2>1, Zenon DEF Statement, Opening, Visited
  <2> QED
    BY <1>3, <2>5, <2>7, <2>8, Zenon DEF Underway
<1> QED
  BY <1>1, <1>3, <1>4, <1>5 DEF StatementInv

\* Behind the last field come the condition and the end of the C string.
LEMMA StatementEnds ==
  ASSUME BufferInv, CallInv, StatementInv, EndTable
  PROVE  StatementInv'
<1>0. /\ call \in Call /\ LengthsHold /\ call.pc = "table" /\ call.rc /\ call.todo = << >> /\ call.left = {}
      /\ call' = [call EXCEPT !.pc = "run", !.todo = LastText(call.where)]
      /\ Content' = Content /\ rlength' = rlength
  BY DEF CallInv, BufferInv, EndTable, AtTable, buffer, Content
<1>1. PICK last : last = LastText(call.where)
  OBVIOUS
<1>2. /\ call'.pc = "run" /\ call'.record = call.record /\ call'.op = call.op
      /\ call'.left = call.left /\ call'.key = call.key /\ call'.where = call.where
      /\ call'.todo = last
  <2>1. call' = [call EXCEPT !.pc = "run", !.todo = last]
    BY <1>0, <1>1, Zenon
  <2> QED
    BY ONLY <1>0, <2>1, Zenon DEF Call
<1>3. Writing(call') => Writing(call)
  BY <1>0, <1>2 DEF Writing
<1>4. ASSUME Writing(call) PROVE Underway(call', Content')
  <2>1. PICK ks : Visited(call, ks) /\
                  \E w \in Seq(Token) : call.todo = Singles(w) /\ Content \o w = Statement(call, ks)
    BY <1>4, Zenon DEF StatementInv, Underway
  <2>2. PICK w \in Seq(Token) : call.todo = Singles(w) /\ Content \o w = Statement(call, ks)
    BY <2>1, Zenon
  <2>3. Content = Opening(call, ks)
    <3>1. w = << >>
      BY <1>0, <2>2, SinglesNone
    <3>2. Content \in Seq(Cell)
      BY <1>0, ContentIsSeq
    <3>3. Content \o << >> = Content
      BY <3>2
    <3> QED
      BY <1>0, <2>2, <3>1, <3>3, Zenon DEF Statement
  <2>4. call.where \in BOOLEAN
    BY <1>0 DEF Call
  <2>5. PICK v \in Seq(Token) : v = LastWords(call.where) /\ last = Singles(v)
    BY <1>1, <2>4, LastIsSingles, Zenon
  <2>6. Content' \o v = Statement(call', ks)
    BY <1>0, <1>2, <2>3, <2>5, Zenon DEF Statement, Opening
  <2>7. Visited(call', ks)
    BY <1>2, <2>1, Zenon DEF Visited
  <2> QED
    BY <1>2, <2>5, <2>6, <2>7, Zenon DEF Underway
<1> QED
  BY <1>0, <1>2, <1>3, <1>4 DEF StatementInv

\* The fields visited when k is the next.
LEMMA OneMoreVisited ==
  ASSUME NEW c, NEW d, NEW ks, Visited(c, ks), NEW k \in c.left, c.left \subseteq DOMAIN c.record,
         d.record = c.record, d.left = c.left \ {k}, d.key = k
  PROVE  Visited(d, Append(ks, k))
<1>1. PICK R, L : R = DOMAIN c.record /\ L = c.left
  OBVIOUS
<1>2. ks \in Seq(R) /\ k \in R /\ k \in L /\ L \subseteq R
  BY <1>1 DEF Visited
<1>3. PICK n \in Nat : n = Len(ks)
  BY <1>2
<1>4. PICK ls : ls = Append(ks, k)
  BY Zenon
<1>5. /\ ls \in Seq(R) /\ Len(ls) = n + 1 /\ ls[n + 1] = k /\ \A i \in 1 .. n : ls[i] = ks[i]
  BY <1>2, <1>3, <1>4
<1>6. R \ L = {ks[i] : i \in 1 .. n} /\ \A i, j \in 1 .. n : i # j => ks[i] # ks[j]
  BY <1>1, <1>3 DEF Visited
<1>7. \A i \in 1 .. n : ks[i] # k
  BY ONLY <1>2, <1>6
<1>8. \A i, j \in 1 .. n + 1 : i # j => ls[i] # ls[j]
  BY ONLY <1>5, <1>6, <1>7, n \in Nat
<1>9. R \ (L \ {k}) = {ls[i] : i \in 1 .. n + 1}
  <2>1. ASSUME NEW x \in R \ (L \ {k}) PROVE \E i \in 1 .. n + 1 : x = ls[i]
    <3>1. CASE x = k
      BY <1>5, <3>1, n + 1 \in 1 .. n + 1
    <3>2. CASE x # k
      <4>1. x \in R \ L
        BY <3>2
      <4>2. PICK i \in 1 .. n : x = ks[i]
        BY <1>6, <4>1
      <4>3. i \in 1 .. n + 1 /\ x = ls[i]
        BY <1>5, <4>2
      <4> QED
        BY <4>3
    <3> QED
      BY <3>1, <3>2
  <2>2. ASSUME NEW i \in 1 .. n + 1 PROVE ls[i] \in R \ (L \ {k})
    <3>1. CASE i = n + 1
      BY <1>2, <1>5, <3>1
    <3>2. CASE i # n + 1
      <4>1. i \in 1 .. n
        BY <3>2
      <4>2. ks[i] \in R \ L
        BY <1>6, <4>1
      <4> QED
        BY <1>5, <4>1, <4>2
    <3> QED
      BY <3>1, <3>2
  <2> QED
    BY <2>1, <2>2
<1>10. ls # << >>
  BY <1>5
<1> QED
  BY ONLY <1>1, <1>4, <1>5, <1>8, <1>9, <1>10, d.record = c.record, d.left = c.left \ {k}, d.key = k
     DEF Visited

\* lua_next finds another field: its assignment is to be written.
LEMMA StatementVisits ==
  ASSUME BufferInv, CallInv, StatementInv, NextField
  PROVE  StatementInv'
<1>1. PICK k \in call.left :
        call' = [call EXCEPT !.left = @ \ {k}, !.key = k,
                             !.todo = FieldText(k, call.record[k]),
                             !.rc = call.record[k] # "table"]
  BY Zenon DEF NextField
<1>0. /\ call \in Call /\ LengthsHold /\ call.pc = "table" /\ call.rc /\ call.todo = << >>
      /\ call.left \subseteq DOMAIN call.record /\ k \in DOMAIN call.record
      /\ Content' = Content /\ rlength' = rlength
  BY DEF CallInv, BufferInv, NextField, AtTable, buffer, Content
<1>2. PICK text, good : text = FieldText(k, call.record[k]) /\ good = (call.record[k] # "table")
  OBVIOUS
<1>3. /\ call'.pc = "table" /\ call'.record = call.record /\ call'.op = call.op
      /\ call'.left = call.left \ {k} /\ call'.key = k /\ call'.todo = text /\ call'.rc = good
  <2>1. call' = [call EXCEPT !.left = @ \ {k}, !.key = k, !.todo = text, !.rc = good]
    BY <1>1, <1>2, Zenon
  <2> QED
    BY ONLY <1>0, <2>1 DEF Call
<1>4. ASSUME Writing(call') PROVE Writing(call) /\ call.record[k] \notin {"table", "bool"}
  BY <1>0, <1>2, <1>3, <1>4, Zenon DEF Writing
<1>5. ASSUME Writing(call') PROVE Underway(call', Content')
  <2>0. /\ call.record \in Record /\ call.op \in {"insert", "update"}
        /\ Underway(call, Content)
    BY <1>4, <1>5 DEF StatementInv
  <2>1. PICK ks : Visited(call, ks) /\
                  \E w \in Seq(Token) : call.todo = Singles(w) /\ Content \o w = Statement(call, ks)
    BY <2>0, Zenon DEF Underway
  <2>2. PICK w \in Seq(Token) : call.todo = Singles(w) /\ Content \o w = Statement(call, ks)
    BY <2>1, Zenon
  <2>3. Content = Opening(call, ks)
    <3>1. w = << >>
      BY <1>0, <2>2, SinglesNone
    <3>2. Content \in Seq(Cell)
      BY <1>0, ContentIsSeq
    <3>3. Content \o << >> = Content
      BY <3>2
    <3> QED
      BY <1>0, <2>2, <3>1, <3>3, Zenon DEF Statement
  <2>4. PICK v \in {"num", "numstr", "str"} : v = call.record[k]
    <3>1. call.record[k] \in Value
      BY <1>0, <2>0, DbAssumption, Zenon
    <3> QED
      BY <1>4, <1>5, <3>1 DEF Value
  <2>5. k \in Name /\ k # "NUL"
    BY <1>0, <2>0, NameAssumption, Zenon DEF Name
  <2>6. (call.key # "none") = (ks # << >>)
    <3>1. ks \in Seq(DOMAIN call.record) /\ "none" \notin DOMAIN call.record
      BY <2>0, <2>1, DbAssumption, Zenon DEF Visited
    <3>2. ks # << >> => ks[Len(ks)] \in DOMAIN call.record
      BY <3>1
    <3> QED
      BY <2>1, <3>1, <3>2 DEF Visited
  <2>7. PICK f : f = FieldWords(ks # << >>, k, v)
    OBVIOUS
  <2>8. text = Singles(f) /\ f \in Seq(Word)
    <3>1. FieldText(k, v) = Singles(FieldWords(call.key # "none", k, v))
      BY <2>5, FieldIsSingles
    <3>2. v \in Value /\ (ks # << >>) \in BOOLEAN
      BY DEF Value
    <3>3. FieldWords(ks # << >>, k, v) \in Seq(Word)
      BY <2>5, <3>2, FieldIsWords, ZenonT(30)
    <3> QED
      BY ONLY <1>2, <2>4, <2>6, <2>7, <3>1, <3>3
  <2>9. f \in Seq(Token)
    BY <2>8 DEF Word
  <2>10. Content' \o f = Opening(call', Append(ks, k))
    <3>1. ks \in Seq(DOMAIN call.record)
      BY <2>1 DEF Visited
    <3>2. PICK o, a : o = <<call.op, "t", "set">> /\ a = Assignments(call.record, ks)
      BY Zenon
    <3>3. Assignments(call.record, Append(ks, k)) = a \o f
      BY <1>0, <2>0, <2>4, <2>7, <3>1, <3>2, OneMoreField, Zenon
    <3>4. o \in Seq(Word) /\ a \in Seq(Word)
      BY <2>0, <3>1, <3>2, OpeningIsWords
    <3>5. (o \o a) \o f = o \o (a \o f)
      BY <2>8, <3>4, Regrouped
    <3>6. Opening(call', Append(ks, k)) = o \o (a \o f)
      BY <1>3, <3>2, <3>3, Zenon DEF Opening
    <3>7. Content' = o \o a
      BY <1>0, <2>3, <3>2, Zenon DEF Opening
    <3> QED
      BY ONLY <3>5, <3>6, <3>7
  <2>11. Visited(call', Append(ks, k))
    BY <1>0, <1>3, <2>1, OneMoreVisited
  <2>12. Content' \o f = Statement(call', Append(ks, k))
    BY <1>3, <2>10, Zenon DEF Statement
  <2> QED
    BY <1>3, <2>8, <2>9, <2>11, <2>12, Zenon DEF Underway
<1> QED
  BY <1>0, <1>3, <1>4, <1>5 DEF StatementInv

\* Every step keeps the statement whole.
LEMMA StatementKept ==
  ASSUME BufferInv, CallInv, StatementInv, [Next]_vars
  PROVE  StatementInv'
<1>0. call \in Call
  BY DEF CallInv
<1>1. ASSUME call'.pc \notin {"table", "run"} PROVE StatementInv'
  BY <1>1 DEF StatementInv, Writing
<1>2. ASSUME UNCHANGED <<buffer, call>> PROVE StatementInv'
  <2>1. Content' = Content /\ rlength' = rlength /\ call' = call
    BY <1>2 DEF buffer, Content
  <2> QED
    BY <2>1 DEF StatementInv
<1>3. ASSUME call' = Idle PROVE StatementInv'
  BY <1>1, <1>3 DEF Idle
<1>4. CASE \E record \in Record : CcInsert(record) \/ \E where \in BOOLEAN : CcUpdate(record, where)
  BY <1>4, StatementBegins, Zenon DEF CcInsert, CcUpdate
<1>5. CASE WritePiece \/ NextField \/ EndTable
  BY <1>5, StatementGrows, StatementVisits, StatementEnds
<1>6. CASE NextThrows \/ Finish \/ ClientEnds
  BY <1>3, <1>6 DEF NextThrows, Finish, ClientEnds
<1>7. CASE BadValue \/ \E rc \in BOOLEAN : Execute(rc)
  <2>1. call'.pc = "delete"
    BY <1>0, <1>7, Zenon DEF BadValue, Execute, Call
  <2> QED
    BY <1>1, <2>1
<1>8. CASE ClientStarts
  <2>1. call'.pc = "client"
    BY <1>8 DEF ClientStarts, Idle
  <2> QED
    BY <1>1, <2>1
<1>9. CASE ClientUses
  <2>1. call'.pc = "client"
    BY <1>9 DEF ClientUses
  <2> QED
    BY <1>1, <2>1
<1>10. ASSUME NEW sends \in BOOLEAN, NEW rc \in BOOLEAN, CcQuery(sends, rc) PROVE StatementInv'
  <2>1. UNCHANGED buffer /\ (call' = call \/ call' = [Idle EXCEPT !.pc = "crashed"])
    BY <1>10 DEF CcQuery
  <2>2. CASE call' = [Idle EXCEPT !.pc = "crashed"]
    <3>1. call'.pc = "crashed"
      BY <2>2 DEF Idle
    <3> QED
      BY <1>1, <3>1
  <2> QED
    BY <1>2, <2>1, <2>2
<1>11. CASE \/ Gc \/ LinkLost \/ WrongArguments \/ UNCHANGED vars
            \/ \E rc, sends \in BOOLEAN : CcNewDb(rc) \/ CcExecute(sends, rc)
  BY <1>2, <1>11, Zenon DEF Gc, LinkLost, WrongArguments, vars, CcNewDb, CcExecute
<1> QED
  BY <1>4, <1>5, <1>6, <1>7, <1>8, <1>9, <1>10, <1>11 DEF Next

\* A text without NUL that a NUL follows is the C string, whatever the rest of the
\* array holds.
LEMMA CStringIs ==
  ASSUME LengthsHold, rlength = 0, NEW s \in Seq(Word), Content = s \o <<"NUL">>
  PROVE  CString = s
<1>1. PICK n \in Nat : n = Len(s)
  OBVIOUS
<1>2. bytes \in Seq(Cell) /\ wlength \in Nat /\ wlength <= Len(bytes) /\ Len(bytes) = capacity /\ capacity \in Nat
  BY DEF LengthsHold, Cell
<1>3. PICK t : t = s \o <<"NUL">>
  OBVIOUS
<1>4. Len(t) = n + 1 /\ t[n + 1] = "NUL" /\ \A i \in 1 .. n : t[i] = s[i] /\ s[i] \in Word
  <2>1. s \in Seq(Token) /\ <<"NUL">> \in Seq(Token)
    <3>1. Word \subseteq Token /\ "NUL" \in Token
      BY Zenon DEF Word, Token, Sql
    <3> QED
      BY ONLY <3>1, s \in Seq(Word)
  <2>2. Len(t) = n + 1 /\ t[n + 1] = "NUL" /\ \A i \in 1 .. n : t[i] = s[i]
    BY ONLY <1>1, <1>3, <2>1
  <2> QED
    BY <1>1, <2>2
<1>5. t = SubSeq(bytes, 0 + 1, wlength)
  BY <1>3, Zenon DEF Content
<1>6. Len(t) = wlength /\ \A i \in 1 .. wlength : t[i] = bytes[i]
  <2>1. 0 \in Nat /\ 0 <= wlength /\ wlength - 0 = wlength /\ \A i \in 1 .. wlength : 0 + i = i
    BY <1>2
  <2>2. /\ Len(SubSeq(bytes, 0 + 1, wlength)) = wlength - 0
        /\ \A i \in 1 .. (wlength - 0) : SubSeq(bytes, 0 + 1, wlength)[i] = bytes[0 + i]
    BY <1>2, <2>1, Piece
  <2> QED
    BY ONLY <1>5, <2>1, <2>2, ZenonT(30)
<1>7. wlength = n + 1 /\ n + 1 <= Len(bytes) /\ bytes[n + 1] = "NUL" /\ \A i \in 1 .. n : bytes[i] = s[i]
  BY <1>2, <1>4, <1>6
<1>8. \A i \in 1 .. n : bytes[i] # "NUL"
  BY <1>4, <1>7 DEF Word
<1> DEFINE ends == {i \in rlength + 1 .. capacity : bytes[i] = "NUL"}
           e == CHOOSE i \in ends : \A j \in ends : i <= j
<1>9. ends \subseteq Nat /\ n + 1 \in ends /\ \A j \in ends : n + 1 <= j
  BY <1>2, <1>7, <1>8
<1>10. e = n + 1
  <2> HIDE DEF ends
  <2>1. \E i \in ends : \A j \in ends : i <= j
    BY <1>9, Zenon
  <2>2. e \in ends /\ \A j \in ends : e <= j
    BY <2>1, Zenon
  <2> HIDE DEF e
  <2> QED
    BY <1>9, <2>2
<1>11. CString = SubSeq(bytes, rlength + 1, e - 1)
  BY <1>9, Zenon DEF CString
<1> HIDE DEF e, ends
<1>12. CString = SubSeq(bytes, 0 + 1, n)
  BY <1>10, <1>11
<1>13. PICK u : u = SubSeq(bytes, 0 + 1, n)
  BY ZenonT(30)
<1>14. u \in Seq(Cell) /\ Len(u) = n /\ \A i \in 1 .. n : u[i] = bytes[i]
  <2>1. 0 \in Nat /\ 0 <= n /\ n <= Len(bytes) /\ n - 0 = n /\ \A i \in 1 .. n : 0 + i = i
    BY <1>2, <1>7
  <2>2. /\ SubSeq(bytes, 0 + 1, n) \in Seq(Cell) /\ Len(SubSeq(bytes, 0 + 1, n)) = n - 0
        /\ \A i \in 1 .. (n - 0) : SubSeq(bytes, 0 + 1, n)[i] = bytes[0 + i]
    BY <1>2, <2>1, Piece
  <2> QED
    BY ONLY <1>13, <2>1, <2>2
<1>15. u = s
  BY <1>1, <1>7, <1>14, SameSeq
<1> QED
  BY <1>12, <1>13, <1>15

\* Fields that were visited once each, and all of them, are the record's.
LEMMA AllVisited ==
  ASSUME NEW c, NEW ks, Visited(c, ks), c.left = {}
  PROVE  ks \in Injection(1 .. Cardinality(DOMAIN c.record), DOMAIN c.record)
<1>1. PICK R : R = DOMAIN c.record
  OBVIOUS
<1>2. /\ ks \in Seq(R) /\ R = {ks[i] : i \in 1 .. Len(ks)}
      /\ \A i, j \in 1 .. Len(ks) : i # j => ks[i] # ks[j]
  BY <1>1 DEF Visited
<1>3. PICK n \in Nat : n = Len(ks)
  BY <1>2
<1>4. ks \in [1 .. n -> R]
  BY <1>2, <1>3
<1>5. ks \in Bijection(1 .. n, R)
  <2>1. \A x \in R : \E i \in 1 .. n : ks[i] = x
    BY <1>2, <1>3
  <2>2. DOMAIN ks = 1 .. n /\ \A i, j \in 1 .. n : ks[i] = ks[j] => i = j
    BY <1>2, <1>3, <1>4
  <2> QED
    BY <1>4, <2>1, <2>2, Zenon DEF Bijection, Injection, Surjection, IsInjective
<1>6. Cardinality(R) = n
  BY <1>5, FS_CountingElements DEF ExistsBijection
<1> QED
  BY <1>1, <1>5, <1>6, Zenon DEF Bijection

\* For all records, all orders in which lua_next may visit them and all sizes of the
\* buffer and its chunks: the statement that cc_db_insert or cc_db_update executes
\* assigns every field of the record once, and ends where it should.
THEOREM StatementWholeHolds == Spec => []StatementWhole
<1>1. Init => CallInv /\ BufferInv /\ StatementInv
  <2>1. Init => call.pc = "idle"
    BY DEF Init, Idle
  <2> QED
    BY <2>1, CallStarts, InitIsStreamInit, Zenon DEF Init, StatementInv, Writing
<1>2. CallInv /\ BufferInv /\ StatementInv /\ [Next]_vars => CallInv' /\ BufferInv' /\ StatementInv'
  BY CallKept, StepIsBufferStep, StepIsStreamStep, StatementKept
<1>3. ASSUME CallInv, BufferInv, StatementInv PROVE StatementWhole
  <2>1. SUFFICES ASSUME call.pc = "run", call.todo = << >>,
                        \A k \in DOMAIN call.record : call.record[k] # "bool"
                 PROVE  \E ks \in Injection(1 .. Cardinality(DOMAIN call.record), DOMAIN call.record) :
                          CString = <<call.op, "t", "set">> \o Assignments(call.record, ks) \o
                                    (IF call.where THEN <<"where", "cond">> ELSE << >>)
    BY Zenon DEF StatementWhole
  <2>2. /\ rlength = 0 /\ call.record \in Record /\ call.op \in {"insert", "update"}
        /\ call.left = {} /\ Underway(call, Content)
    BY <1>3, <2>1 DEF StatementInv, Writing
  <2>3. PICK ks : Visited(call, ks) /\
                  \E w \in Seq(Token) : call.todo = Singles(w) /\ Content \o w = Statement(call, ks)
    BY <2>2, Zenon DEF Underway
  <2>4. PICK w \in Seq(Token) : call.todo = Singles(w) /\ Content \o w = Statement(call, ks)
    BY <2>3, Zenon
  <2>5. Content = Statement(call, ks)
    <3>1. w = << >>
      BY <2>1, <2>4, SinglesNone
    <3>2. Content \in Seq(Cell)
      BY <1>3, ContentIsSeq DEF BufferInv
    <3>3. Content \o << >> = Content
      BY <3>2
    <3> QED
      BY ONLY <2>4, <3>1, <3>3
  <2>6. PICK o, x : o = Opening(call, ks) /\ x = IF call.where THEN <<"where", "cond">> ELSE << >>
    BY Zenon
  <2>7. o \in Seq(Word)
    <3>1. ks \in Seq(DOMAIN call.record)
      BY <2>3, Zenon DEF Visited
    <3> QED
      BY <2>2, <2>6, <3>1, OpeningIsWords, SMTT(30)
  <2>8. x \in Seq(Word)
    <3>1. "where" \in Word /\ "cond" \in Word
      BY Zenon DEF Word, Token, Sql
    <3>2. <<"where", "cond">> \in Seq(Word) /\ << >> \in Seq(Word)
      BY ONLY <3>1
    <3> QED
      BY <2>6, <3>2, Zenon
  <2>9. Content = o \o (x \o <<"NUL">>)
    BY <2>1, <2>5, <2>6 DEF Statement, LastWords
  <2>10. (o \o x) \o <<"NUL">> = o \o (x \o <<"NUL">>)
    <3>1. Word \subseteq Token /\ "NUL" \in Token
      BY Zenon DEF Word, Token, Sql
    <3>2. x \in Seq(Token) /\ <<"NUL">> \in Seq(Token)
      BY ONLY <2>8, <3>1
    <3> QED
      BY <2>7, <3>2, Regrouped
  <2>11. CString = o \o x
    <3>1. o \o x \in Seq(Word)
      BY ONLY <2>7, <2>8
    <3>2. LengthsHold
      BY <1>3 DEF BufferInv
    <3> QED
      BY <2>2, <2>9, <2>10, <3>1, <3>2, CStringIs, Zenon
  <2>12. CString = <<call.op, "t", "set">> \o Assignments(call.record, ks) \o
                   (IF call.where THEN <<"where", "cond">> ELSE << >>)
    BY <2>6, <2>11, Zenon DEF Opening
  <2>13. ks \in Injection(1 .. Cardinality(DOMAIN call.record), DOMAIN call.record)
    BY <2>2, <2>3, AllVisited
  <2> QED
    BY <2>12, <2>13, Zenon
<1> QED
  BY <1>1, <1>2, <1>3, PTL DEF Spec

=============================================================================
