----------------------------- MODULE BoundedFifo -----------------------------
(***************************************************************************)
(* What the queues of Lab4 and Lab5 promise: messages, numbered in the     *)
(* order in which they are produced, come out once each and in that order, *)
(* and a producer adds one only while there is room.  The room may be      *)
(* changed at any time, between one message and MaxCapacity.               *)
(***************************************************************************)
EXTENDS Integers, Sequences

CONSTANT MaxCapacity

VARIABLES
  queue,     \* the numbers of the messages produced and not yet consumed
  capacity,  \* how many of them there may be when another is produced
  sent,      \* the number of the last message produced
  delivered  \* the number of the last message consumed

fifoVars == <<queue, capacity, sent, delivered>>

Init ==
  /\ queue = << >>
  /\ capacity \in 1..MaxCapacity
  /\ sent = 0
  /\ delivered = 0

Produce ==
  /\ Len(queue) < capacity
  /\ sent' = sent + 1
  /\ queue' = Append(queue, sent')
  /\ UNCHANGED <<capacity, delivered>>

Consume ==
  /\ queue # << >>
  /\ delivered' = Head(queue)
  /\ queue' = Tail(queue)
  /\ UNCHANGED <<capacity, sent>>

Resize ==
  /\ capacity' \in 1..MaxCapacity
  /\ UNCHANGED <<queue, sent, delivered>>

Next == Produce \/ Consume \/ Resize

Spec == Init /\ [][Next]_fifoVars
==============================================================================
