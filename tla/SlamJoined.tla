----------------------------- MODULE SlamJoined -----------------------------
(***************************************************************************)
(* The sequences of a sequence, one behind the other: the bytes of several *)
(* messages, the words of several fields.  FlattenSeq of the community     *)
(* modules is the same; this module is what a proof can afford to extend.  *)
(***************************************************************************)
EXTENDS Naturals, Sequences

Joined(s) ==
  LET join[i \in 0 .. Len(s)] == IF i = 0 THEN << >> ELSE join[i - 1] \o s[i]
  IN  join[Len(s)]

=============================================================================
