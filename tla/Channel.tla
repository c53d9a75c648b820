------------------------------ MODULE Channel ------------------------------
(***************************************************************************)
(* What a mailbox pair promises to its two users, without registers,       *)
(* counters, enables, masks or lines: a queue of messages per direction    *)
(* that a sender adds to, a receiver takes the oldest message from, and a  *)
(* reset empties in both directions at once.                               *)
(***************************************************************************)
EXTENDS Sequences

CONSTANTS
  Dirs,     \* the two directions
  Messages  \* what a sender may put

VARIABLES
  queue,  \* per direction: the messages on their way
  taken   \* per direction: the messages the receiver has taken since the last reset

chvars == <<queue, taken>>

Empty == [d \in Dirs |-> <<>>]

ChInit == queue = Empty /\ taken = Empty

Put(d, m) ==
  /\ queue' = [queue EXCEPT ![d] = Append(@, m)]
  /\ UNCHANGED taken

Take(d) ==
  /\ queue[d] # <<>>
  /\ taken' = [taken EXCEPT ![d] = Append(@, Head(queue[d]))]
  /\ queue' = [queue EXCEPT ![d] = Tail(@)]

Purge == queue' = Empty /\ taken' = Empty

ChNext ==
  \/ \E d \in Dirs : Take(d) \/ \E m \in Messages : Put(d, m)
  \/ Purge

ChSpec == ChInit /\ [][ChNext]_chvars
=============================================================================
