----------------------------- MODULE KeepNewest -----------------------------
(***************************************************************************)
(* What a producer may count on when it hands values to a slow consumer    *)
(* through shared/dropchan: an offer never waits, the value offered always *)
(* goes in, and at most the oldest queued value goes out to make room.     *)
(* The detailed specification is module DropChan.                          *)
(***************************************************************************)
EXTENDS Naturals, Sequences

CONSTANTS Producers, Cap

VARIABLES queue,     \* the values waiting for the consumer, oldest first
          offered,   \* how many values each producer has offered
          lost       \* the values pushed out before they were consumed

kvars == <<queue, offered, lost>>

KInit == /\ queue = <<>>
         /\ offered = [p \in Producers |-> 0]
         /\ lost = {}

Offer(p) ==
    LET v == [from |-> p, num |-> offered[p] + 1]
    IN  /\ offered' = [offered EXCEPT ![p] = @ + 1]
        /\ \/ /\ Len(queue) < Cap
              /\ queue' = Append(queue, v)
              /\ lost' = lost
           \/ /\ queue # <<>>
              /\ queue' = Append(Tail(queue), v)
              /\ lost' = lost \cup {Head(queue)}

Take == /\ queue # <<>>
        /\ queue' = Tail(queue)
        /\ UNCHANGED <<offered, lost>>

KNext == Take \/ \E p \in Producers : Offer(p)

KSpec == KInit /\ [][KNext]_kvars
=============================================================================
