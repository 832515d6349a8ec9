----------------------------- MODULE MessageRing -----------------------------
(***************************************************************************)
(* The ring of messages that Lab4/parent.c keeps in shared memory and that *)
(* Lab5/parent1.c and Lab5/parent2.c keep in global variables.  What keeps *)
(* the processes or threads that work on it apart is in the modules that   *)
(* extend this one.                                                        *)
(*                                                                         *)
(* A message is abstracted to its number: 1 for the first one produced.    *)
(* Torn is a slot fill_random_message has begun and not finished, whose    *)
(* hash does not verify.  Initially slots hold NoMessage.                  *)
(***************************************************************************)
EXTENDS Integers

CONSTANT FIXED_SIZE  \* slots of the ring

ASSUME RingAssumption == FIXED_SIZE \in Nat \ {0}

NoMessage == 0
Torn      == -1

VARIABLES buffer, head, tail, producedCount, consumedCount

ringVars == <<buffer, head, tail, producedCount, consumedCount>>

RingInit ==
  /\ buffer = [i \in 0..FIXED_SIZE-1 |-> NoMessage]
  /\ head = 0 /\ tail = 0
  /\ producedCount = 0 /\ consumedCount = 0

\* Mutant of Advance: the index is not wrapped.
AdvanceUnwrapped(i) == i + 1

Advance(i) == (i + 1) % FIXED_SIZE

BeginMessage ==
  /\ buffer' = [buffer EXCEPT ![tail] = Torn]
  /\ UNCHANGED <<head, tail, producedCount, consumedCount>>

FinishMessage ==
  /\ producedCount' = producedCount + 1
  /\ buffer' = [buffer EXCEPT ![tail] = producedCount']
  /\ tail' = Advance(tail)
  /\ UNCHANGED <<head, consumedCount>>

TakeMessage ==
  /\ head' = Advance(head)
  /\ consumedCount' = consumedCount + 1
  /\ UNCHANGED <<buffer, tail, producedCount>>

\* Mutant of Used: a tail that has wrapped is not allowed for.
UsedUnwrapped == tail - head

\* What the programs take for the number of messages in the ring ...
Used == (tail - head + FIXED_SIZE) % FIXED_SIZE

\* ... the number there is, and the messages, oldest first.
Outstanding == producedCount - consumedCount
Contents == [i \in 1..Outstanding |-> buffer[(head + i - 1) % FIXED_SIZE]]

\* Indices stay inside the ring.
RingTypeOK ==
  /\ buffer \in [0..FIXED_SIZE-1 -> Int]
  /\ head \in 0..FIXED_SIZE-1 /\ tail \in 0..FIXED_SIZE-1
  /\ producedCount \in Nat /\ consumedCount \in Nat
==============================================================================
