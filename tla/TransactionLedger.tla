--------------------------- MODULE TransactionLedger ---------------------------
(***************************************************************************)
(* What the transaction service promises its callers: a call is recorded   *)
(* in one step, with all of its ids or none, and once; an id is never      *)
(* recorded for another call; a result means that the call is recorded,    *)
(* and a conflict that one of its ids is, or is given twice.  After an     *)
(* error, or when the service is unavailable, the caller knows nothing:    *)
(* the call may be recorded, or may still be.                              *)
(*                                                                         *)
(* TransactionService.tla models how the service keeps this promise with   *)
(* a client that sends calls again and executions that fail at any step.   *)
(***************************************************************************)
EXTENDS Naturals, Sequences

CONSTANTS
  Calls,
  Keys,       \* ids of the rows
  NoCall      \* not a call: the id is not recorded

VARIABLES
  asked,      \* of a call: its ids
  ledger,     \* of an id: the call that recorded it
  told        \* of a call: its answer, if it has one

Told == {"pending", "ok", "conflict", "error", "unavailable"}

Ids(c) == {asked[c][i] : i \in DOMAIN asked[c]}

Distinct(c) == \A i, j \in DOMAIN asked[c] : asked[c][i] = asked[c][j] => i = j

(* The call may have been answered before.                                 *)
Record(c) ==
  /\ Distinct(c)
  /\ \A k \in Ids(c) : ledger[k] = NoCall
  /\ ledger' = [k \in Keys |-> IF k \in Ids(c) THEN c ELSE ledger[k]]
  /\ UNCHANGED <<asked, told>>

Tell(c, answer) ==
  /\ told[c] = "pending"
  /\ answer = "ok" => \A k \in Ids(c) : ledger[k] = c
  /\ answer = "conflict" => ~ Distinct(c) \/ \E k \in Ids(c) : ledger[k] # NoCall
  /\ told' = [told EXCEPT ![c] = answer]
  /\ UNCHANGED <<asked, ledger>>

Init ==
  /\ asked \in [Calls -> Seq(Keys)]
  /\ ledger = [k \in Keys |-> NoCall]
  /\ told = [c \in Calls |-> "pending"]

Next ==
  \E c \in Calls : Record(c) \/ \E answer \in Told \ {"pending"} : Tell(c, answer)

Spec == Init /\ [][Next]_<<asked, ledger, told>>

=============================================================================
