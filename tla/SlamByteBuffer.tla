--------------------------- MODULE SlamByteBuffer ---------------------------
(***************************************************************************)
(* slam_byte_buffer.c: a growing array with an index to read from and one  *)
(* to write at.  One buffer, used by one thread, whose allocated memory is *)
(* the sequence bytes; what realloc adds to it is Junk.  A copy beyond the *)
(* allocation is the status "overrun", a failing assertion "aborted".      *)
(***************************************************************************)
EXTENDS Integers, Sequences

CONSTANTS Byte, Junk,   \* what a byte of the array may be
          Text,         \* what may be written in one call
          Size,         \* the sizes a caller may pass
          Chunk         \* BUFFER_CHUNK_SIZE

ASSUME BufferAssumption ==
  /\ Text \subseteq Seq(Byte)
  /\ Size \subseteq Nat
  /\ Chunk \in Nat \ {0}

VARIABLES bytes, capacity, rlength, wlength, status, out

buffer == <<bytes, capacity, rlength, wlength, status, out>>

BufferInit ==
  /\ bytes = << >> /\ capacity = 0 /\ rlength = 0 /\ wlength = 0
  /\ status = "none" /\ out = << >>

-----------------------------------------------------------------------------
\* mutant: the size of a chunk is forgotten when the array is already there
ReservedExact(cap, used, n) ==
  IF cap - used > n THEN cap ELSE IF n < Chunk THEN cap + n - 1 ELSE cap + n

\* slam_byte_buffer_reserve: the capacity after it
Reserved(cap, used, n) ==
  IF cap - used > n THEN cap ELSE cap + (IF n < Chunk THEN Chunk ELSE n)

\* realloc
Grown(b, cap) == [i \in 1 .. cap |-> IF i <= Len(b) THEN b[i] ELSE Junk]

\* memcpy of s to the place that starts after position w
Copied(b, w, s) ==
  [i \in 1 .. Len(b) |-> IF i > w /\ i <= w + Len(s) THEN s[i - w] ELSE b[i]]

New(n) ==
  /\ status = "none"
  /\ capacity' = Reserved(0, 0, n)
  /\ bytes' = Grown(<< >>, Reserved(0, 0, n))
  /\ rlength' = 0 /\ wlength' = 0
  /\ status' = "live"
  /\ UNCHANGED out

Freed ==
  /\ bytes' = << >> /\ capacity' = 0
  /\ rlength' = 0 /\ wlength' = 0

Delete == status = "live" /\ Freed /\ status' = "none" /\ out' = << >>

\* the array is freed, the buffer stays usable
Clear == status = "live" /\ Freed /\ UNCHANGED <<status, out>>

Reset ==
  /\ status = "live"
  /\ rlength' = 0 /\ wlength' = 0
  /\ UNCHANGED <<bytes, capacity, status, out>>

\* slam_byte_buffer_write: writebuffer, memcpy and writelength
Write(s) ==
  LET cap == Reserved(capacity, wlength, Len(s))
  IN  /\ status = "live"
      /\ capacity' = cap
      /\ IF wlength + Len(s) <= cap
         THEN /\ bytes' = Copied(Grown(bytes, cap), wlength, s)
              /\ wlength' = wlength + Len(s)
              /\ UNCHANGED status
         ELSE /\ bytes' = Grown(bytes, cap)
              /\ status' = "overrun"
              /\ UNCHANGED wlength
      /\ UNCHANGED <<rlength, out>>

\* mutant: only the read index goes back to the start
ShrunkRead(r) == rlength' = (IF r = wlength THEN 0 ELSE r) /\ UNCHANGED wlength

\* slam_byte_buffer_shrink, once r is the read index
Shrunk(r) ==
  /\ rlength' = (IF r = wlength THEN 0 ELSE r)
  /\ wlength' = (IF r = wlength THEN 0 ELSE wlength)

Taken(n) ==
  /\ out' = SubSeq(bytes, rlength + 1, rlength + n)
  /\ Shrunk(rlength + n)
  /\ UNCHANGED <<bytes, capacity, status>>

Read(n) ==
  /\ status = "live"
  /\ Taken(IF wlength - rlength > n THEN n ELSE wlength - rlength)

\* the caller has used n bytes behind slam_byte_buffer_readbuffer
ReadLength(n) ==
  /\ status = "live"
  /\ IF wlength >= rlength + n
     THEN Taken(n)
     ELSE status' = "aborted" /\ UNCHANGED <<bytes, capacity, rlength, wlength, out>>

BufferNext ==
  \/ \E n \in Size : New(n) \/ Read(n) \/ ReadLength(n)
  \/ \E s \in Text : Write(s)
  \/ Delete \/ Clear \/ Reset

BufferSpec == BufferInit /\ [][BufferNext]_buffer

-----------------------------------------------------------------------------
\* What a caller has written and not yet read.
Content == SubSeq(bytes, rlength + 1, wlength)

\* Every assertion of slam_byte_buffer.c about the lengths holds, the array is
\* as long as capacity says, slam_byte_buffer_write never copies beyond it, and
\* no caller reads a byte that was never written.
LengthsHold ==
  /\ rlength \in Nat /\ wlength \in Nat /\ capacity \in Nat
  /\ rlength <= wlength /\ wlength <= capacity
  /\ Len(bytes) = capacity
  /\ bytes \in Seq(Byte \cup {Junk})
  /\ \A i \in 1 .. wlength : bytes[i] \in Byte
  /\ status \in {"none", "live", "aborted"}
  /\ out \in Seq(Byte)

Stream == INSTANCE SlamByteStream WITH content <- Content

\* The buffer implements the stream: growing, shrinking and reuse of the array
\* never lose, repeat or reorder a byte.
ImplementsStream == Stream!Spec
=============================================================================
