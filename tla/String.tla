------------------------------- MODULE String -------------------------------
(***************************************************************************)
(* prat::string of dsa_from_scratch/data_structures/string.cpp: a string   *)
(* of at most SSO_LEN characters is kept in the object, a longer one in a  *)
(* block of its own, and cap_ tells which.  The two share the bytes of a   *)
(* union.  There are constructors only: no assignment and no destructor,   *)
(* so that a block is never freed.                                         *)
(***************************************************************************)
EXTENDS Naturals, Sequences, SequencesExt

CONSTANTS
  Str,                \* the variables
  Char, Junk,         \* characters; a byte that nobody has written as one
  SSO_LEN,
  MaxLen,             \* bound: the longest string
  MaxBuffer,          \* bound: the blocks that new[] hands out
  NoBlock,            \* what hbuf_ holds when it is null or not a pointer
  Unspecified

StringAssumption ==
  /\ SSO_LEN \in Nat /\ MaxLen \in Nat /\ MaxBuffer \in Nat
  /\ Junk \notin Char
  /\ NoBlock \notin 1..MaxBuffer

VARIABLES
  exists,             \* the variables that hold a string
  sbuf_, hbuf_,       \* the two views of the union buffer_
  len_, cap_,       \* the capacity, by which is_sso decides
  buffers,            \* the blocks on the heap, in the order they were made
  meant,              \* auxiliary: the text s was made from, or Unspecified
  overrun             \* auxiliary: bytes were copied past the end of an sbuf_

vars == <<exists, sbuf_, hbuf_, len_, cap_, buffers, meant, overrun>>

NoText == [i \in 1..SSO_LEN |-> Junk]

Init ==
  /\ exists = {}
  /\ sbuf_ = [s \in Str |-> NoText]
  /\ hbuf_ = [s \in Str |-> NoBlock]
  /\ len_ = [s \in Str |-> 0]
  /\ cap_ = [s \in Str |-> 0]
  /\ buffers = <<>>
  /\ meant = [s \in Str |-> Unspecified]
  /\ overrun = FALSE

is_sso(s) == cap_[s] <= SSO_LEN

\* The first n bytes of `from` in a fresh sbuf_.
Bytes(from, n) == [i \in 1..SSO_LEN |-> IF i <= n THEN from[i] ELSE Junk]

New(s) == s \notin exists /\ exists' = exists \cup {s}

\* Writing one member of the union spoils the other.
Short(s, bytes, n, capacity) ==
  /\ sbuf_' = [sbuf_ EXCEPT ![s] = bytes]
  /\ hbuf_' = [hbuf_ EXCEPT ![s] = NoBlock]
  /\ len_' = [len_ EXCEPT ![s] = n]
  /\ cap_' = [cap_ EXCEPT ![s] = capacity]
  /\ UNCHANGED <<buffers, overrun>>

\* A block with the text in it.  When new[] throws there is no string.
Long(s, text) ==
  /\ Len(buffers) < MaxBuffer
  /\ buffers' = Append(buffers, text)
  /\ hbuf_' = [hbuf_ EXCEPT ![s] = Len(buffers')]
  /\ sbuf_' = [sbuf_ EXCEPT ![s] = NoText]
  /\ len_' = [len_ EXCEPT ![s] = Len(text)]
  /\ cap_' = [cap_ EXCEPT ![s] = Len(text)]
  /\ UNCHANGED overrun

\* memcpy into or out of an sbuf_ of more bytes than it has.  What the program does from
\* there on is undefined, and the model ends.
Overruns ==
  /\ overrun' = TRUE
  /\ UNCHANGED <<exists, sbuf_, hbuf_, len_, cap_, buffers, meant>>

\* buffer_() zeroes the union; nothing of it is read while len_ is 0.
Default(s) ==
  /\ New(s)
  /\ Short(s, NoText, 0, 0)
  /\ meant' = [meant EXCEPT ![s] = <<>>]

\* Faulty variant: a text that just fits goes to the heap.
FromTextBelow(s, text) ==
  /\ New(s)
  /\ IF Len(text) < SSO_LEN THEN Short(s, Bytes(text, Len(text)), Len(text), SSO_LEN)
     ELSE Long(s, text)
  /\ meant' = [meant EXCEPT ![s] = text]

\* string(const char *): without the terminating zero.
FromText(s, text) ==
  /\ New(s)
  /\ IF Len(text) <= SSO_LEN THEN Short(s, Bytes(text, Len(text)), Len(text), SSO_LEN)
     ELSE Long(s, text)
  /\ meant' = [meant EXCEPT ![s] = text]

\* A long string that was moved from counts as short but has kept its len_: copying
\* it reads and writes past the buffers.
Copy(s, t) ==
  /\ t \in exists /\ s \notin exists
  /\ IF is_sso(t) /\ len_[t] > SSO_LEN THEN Overruns
     ELSE /\ New(s)
          /\ IF is_sso(t)
               THEN Short(s, Bytes(sbuf_[t], len_[t]), len_[t], SSO_LEN)
               ELSE Long(s, SubSeq(buffers[hbuf_[t]], 1, len_[t]))
          /\ meant' = [meant EXCEPT ![s] = meant[t]]

\* string(string &&) of a short string copies as many bytes as s.len_ says, which has
\* not been initialised: any number k, which overruns when it is above SSO_LEN and
\* leaves part of the text behind when it is below t's length.
MoveShort(s, t) ==
  /\ t \in exists /\ s \notin exists
  /\ is_sso(t)
  /\ \/ Overruns
     \/ \E k \in 0..SSO_LEN :
          /\ New(s)
          /\ Short(s, Bytes(sbuf_[t], k), len_[t], SSO_LEN)
          /\ meant' = [meant EXCEPT ![s] = IF k >= len_[t] THEN meant[t] ELSE Unspecified]

\* Of a long string, it takes the block.
MoveLong(s, t) ==
  /\ t \in exists /\ New(s)
  /\ ~is_sso(t)
  /\ hbuf_' = [hbuf_ EXCEPT ![s] = hbuf_[t], ![t] = NoBlock]
  /\ sbuf_' = [sbuf_ EXCEPT ![s] = NoText, ![t] = NoText]
  /\ len_' = [len_ EXCEPT ![s] = len_[t]]
  /\ cap_' = [cap_ EXCEPT ![s] = cap_[t], ![t] = 0]
  /\ meant' = [meant EXCEPT ![s] = meant[t], ![t] = Unspecified]
  /\ UNCHANGED <<buffers, overrun>>

\* The end of a scope: no destructor frees the block.
Leave(s) ==
  /\ s \in exists
  /\ exists' = exists \ {s}
  /\ sbuf_' = [sbuf_ EXCEPT ![s] = NoText]
  /\ hbuf_' = [hbuf_ EXCEPT ![s] = NoBlock]
  /\ len_' = [len_ EXCEPT ![s] = 0]
  /\ cap_' = [cap_ EXCEPT ![s] = 0]
  /\ meant' = [meant EXCEPT ![s] = Unspecified]
  /\ UNCHANGED <<buffers, overrun>>

Next ==
  /\ ~overrun
  /\ \E s \in Str :
       \/ Default(s) \/ Leave(s)
       \/ \E text \in BoundedSeq(Char, MaxLen) : FromText(s, text)
       \/ \E t \in Str : Copy(s, t) \/ MoveShort(s, t) \/ MoveLong(s, t)

Spec == Init /\ [][Next]_vars

-----------------------------------------------------------------------------
\* The len_ characters of s, where they are in its buffer.
Text(s) ==
  IF is_sso(s) THEN SubSeq(sbuf_[s], 1, len_[s]) ELSE SubSeq(buffers[hbuf_[s]], 1, len_[s])

Fits(s) ==
  IF is_sso(s) THEN len_[s] <= SSO_LEN
  ELSE hbuf_[s] # NoBlock /\ len_[s] <= Len(buffers[hbuf_[s]])

\* Through any chain of copies and moves a string reads back the text it was made
\* from, on either side of SSO_LEN, and long strings do not share a block, as long as
\* no copy has overrun a buffer.  Exempt is a string that was moved from, and one made
\* by moving a short string when the length that was found there was too small.
TextKept ==
  ~overrun =>
    /\ \A s \in exists : meant[s] # Unspecified => Fits(s) /\ Text(s) = meant[s]
    /\ \A s, t \in exists : s # t /\ ~is_sso(s) /\ ~is_sso(t) => hbuf_[s] # hbuf_[t]
=============================================================================
