----------------------------- MODULE ByteQueue -----------------------------
(***************************************************************************)
(* What base::Buffer promises to its users, with no storage in it: a       *)
(* string of readable bytes.  Bytes are put behind it (append, readFd) or  *)
(* in front of it (prepend) and are dropped or handed out from its front   *)
(* (consume, retrieve...).                                                 *)
(***************************************************************************)
EXTENDS Naturals, Sequences

CONSTANT Input           \* the byte strings that are put in at once

VARIABLES
  content,               \* the readable bytes
  passed                 \* the bytes that were put in or returned last

vars == <<content, passed>>

Init ==
  /\ content = <<>>
  /\ passed = <<>>

Put(d) ==
  /\ content' = content \o d
  /\ passed' = d

PutFront(d) ==
  /\ content' = d \o content
  /\ passed' = d

\* The first n readable bytes, and what follows them.
First(n) == SubSeq(content, 1, n)

Rest(n) == SubSeq(content, n + 1, Len(content))

Drop(n) ==
  /\ content' = Rest(n)
  /\ UNCHANGED passed

Take(n) ==
  /\ content' = Rest(n)
  /\ passed' = First(n)

\* An integer leaves in host order, its bytes the other way round.
TakeReversed(n) ==
  /\ content' = Rest(n)
  /\ passed' = [i \in 1..n |-> content[n + 1 - i]]

Next ==
  \/ \E d \in Input : Put(d) \/ PutFront(d)
  \/ \E n \in 0..Len(content) : Drop(n) \/ Take(n) \/ TakeReversed(n)

Spec == Init /\ [][Next]_vars
=============================================================================
