------------------------------ MODULE SendQueue ------------------------------
(***************************************************************************)
(* messagesToSend of ClientLogic.java: a plain ArrayList to which the UI   *)
(* thread and the threads of the template's buttons add, and from which    *)
(* SendMessage removes, without any lock.                                  *)
(*                                                                         *)
(* Of the library's ArrayList this much is modelled: add and remove(0)     *)
(* each read the size first, and store slots and size after that.  Between *)
(* the two steps the other threads may run.                                *)
(***************************************************************************)
EXTENDS Naturals, Sequences, FiniteSets

CONSTANTS Producers,    \* the threads that add
          MaxAdds       \* bound: messages one of them adds

ASSUME ProducersAssumption == MaxAdds \in Nat /\ IsFiniteSet(Producers)

Null == <<>>
Message == Producers \X (1..MaxAdds)
Slots == 0..(Cardinality(Producers) * MaxAdds)

VARIABLES
  array, size,      \* the ArrayList
  producer,         \* what each producer does: "idle", or "store" inside add
  seen,             \* the size each producer has read
  added,            \* how many messages each producer has added
  sender,           \* SendMessage: "poll", "load", "store", "dead"
  result, sizeSeen, \* remove's locals
  sent              \* what getFirstSend has returned

queueVars == <<array, size, producer, seen, added, sender, result, sizeSeen, sent>>

QueueInit ==
  /\ array = [i \in Slots |-> Null] /\ size = 0
  /\ producer = [p \in Producers |-> "idle"]
  /\ seen = [p \in Producers |-> 0]
  /\ added = [p \in Producers |-> 0]
  /\ sender = "poll" /\ result = Null /\ sizeSeen = 0
  /\ sent = <<>>

-----------------------------------------------------------------------------
(* addToSend: ArrayList.add *)

AddLoad(p) ==
  /\ producer[p] = "idle"
  /\ added[p] < MaxAdds
  /\ seen' = [seen EXCEPT ![p] = size]
  /\ added' = [added EXCEPT ![p] = @ + 1]
  /\ producer' = [producer EXCEPT ![p] = "store"]
  /\ UNCHANGED <<array, size, sender, result, sizeSeen, sent>>

AddStore(p) ==
  /\ producer[p] = "store"
  /\ array' = [array EXCEPT ![seen[p]] = <<p, added[p]>>]
  /\ size' = seen[p] + 1
  /\ producer' = [producer EXCEPT ![p] = "idle"]
  /\ UNCHANGED <<seen, added, sender, result, sizeSeen, sent>>

-----------------------------------------------------------------------------
(* getFirstSend: isEmpty and ArrayList.remove(0) *)

(* Mutant of Poll: remove without asking isEmpty. *)
PollWithoutTest ==
  /\ sender = "poll"
  /\ sender' = "load"
  /\ UNCHANGED <<array, size, producer, seen, added, result, sizeSeen, sent>>

Poll ==
  /\ sender = "poll"
  /\ size # 0
  /\ sender' = "load"
  /\ UNCHANGED <<array, size, producer, seen, added, result, sizeSeen, sent>>

(* remove(0) throws when the size is 0; SendMessage then ends. *)
RemoveLoad ==
  /\ sender = "load"
  /\ sizeSeen' = size
  /\ result' = array[0]
  /\ sender' = IF size = 0 THEN "dead" ELSE "store"
  /\ UNCHANGED <<array, size, producer, seen, added, sent>>

(* Mutant of RemoveStore: the last slot is not part of the shift. *)
RemoveStoreKeepsSlot ==
  /\ sender = "store"
  /\ array' = [i \in Slots |-> IF i < sizeSeen - 2 THEN array[i + 1] ELSE array[i]]
  /\ size' = sizeSeen - 1
  /\ sent' = Append(sent, result)
  /\ sender' = IF result = Null THEN "dead" ELSE "poll"
  /\ UNCHANGED <<producer, seen, added, result, sizeSeen>>

(* The slots below the size that was read move down and the last of them is
   cleared.  For a null result SendMessage reports an error and ends. *)
RemoveStore ==
  /\ sender = "store"
  /\ array' = [i \in Slots |-> IF i < sizeSeen - 1 THEN array[i + 1]
                               ELSE IF i = sizeSeen - 1 THEN Null ELSE array[i]]
  /\ size' = sizeSeen - 1
  /\ sent' = Append(sent, result)
  /\ sender' = IF result = Null THEN "dead" ELSE "poll"
  /\ UNCHANGED <<producer, seen, added, result, sizeSeen>>

-----------------------------------------------------------------------------
QueueNext ==
  \/ \E p \in Producers : AddLoad(p) \/ AddStore(p)
  \/ Poll \/ RemoveLoad \/ RemoveStore

QueueSpec == QueueInit /\ [][QueueNext]_queueVars

-----------------------------------------------------------------------------
QueueTypeOK ==
  /\ array \in [Slots -> Message \cup {Null}]
  /\ size \in Slots
  /\ producer \in [Producers -> {"idle", "store"}]
  /\ seen \in [Producers -> Slots]
  /\ added \in [Producers -> 0..MaxAdds]
  /\ sender \in {"poll", "load", "store", "dead"}
  /\ result \in Message \cup {Null}
  /\ sizeSeen \in Slots
  /\ sent \in Seq(Message \cup {Null})

(* Whatever the races do to the list, no command goes out twice. *)
NoneSentTwice ==
  \A i, j \in DOMAIN sent : sent[i] = sent[j] /\ sent[i] # Null => i = j

(* remove(0) does not throw: an adder with an old size may shorten the list
   after isEmpty was asked, but never to nothing. *)
RemoveDoesNotThrow == sender \in {"load", "store"} => size > 0
=============================================================================
