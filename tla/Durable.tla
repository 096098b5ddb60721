------------------------------ MODULE Durable ------------------------------
(***************************************************************************)
(* A JetStream durable pull consumer, as the Python services use it: a     *)
(* fetch brings the next messages of the stream, or one that was delivered *)
(* before and never acked.  What was fetched and not handled is lost to a  *)
(* process that crashes, not to the durable.                               *)
(***************************************************************************)
EXTENDS Naturals, Sequences

CONSTANT FetchBatch  \* fetch_batch

ASSUME DurableAssumption == FetchBatch \in Nat \ {0}

(* next: delivered so far; out: delivered, not acked; batch: in hand. *)
Feed(next, out, batch) == [next |-> next, out |-> out, batch |-> batch]
EmptyFeed == Feed(0, {}, <<>>)

Reach(f, len) == IF f.next + FetchBatch < len THEN f.next + FetchBatch ELSE len
NextBatch(f, len) == [i \in 1 .. Reach(f, len) - f.next |-> f.next + i]
Fetched(f, len) == Feed(Reach(f, len), f.out \cup (f.next + 1 .. Reach(f, len)), NextBatch(f, len))

Fetches(f, len) ==
  (IF f.next = len THEN {} ELSE {Fetched(f, len)}) \cup {Feed(f.next, f.out, <<i>>) : i \in f.out}

Acked(f) == Feed(f.next, f.out \ {Head(f.batch)}, Tail(f.batch))
AckLost(f) == Feed(f.next, f.out, Tail(f.batch))
Dropped(f) == Feed(f.next, f.out, <<>>)
Settled(f) == (1 .. f.next) \ f.out

FeedType(f, len) == /\ f = Feed(f.next, f.out, f.batch)
                    /\ f.next \in 0 .. len /\ f.out \subseteq 1 .. f.next
                    /\ f.batch \in Seq(1 .. f.next)
=============================================================================
