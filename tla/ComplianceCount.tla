---------------------------- MODULE ComplianceCount ----------------------------
(***************************************************************************)
(* processCountPolicy of the compliance engine: which vehicles of a        *)
(* provider exceed a policy that limits their number.  A rule captures the *)
(* vehicles it matches until it is full; one that overflows is tried with  *)
(* the next rules, and violates the policy when none has room for it.      *)
(* The names of the specification begin with Count: the proofs extend this *)
(* module and CursorPaging.                                                *)
(***************************************************************************)
EXTENDS Naturals, Sequences, FiniteSets

CONSTANTS
  Vehicles,
  NumRules,      \* rules of the policy
  Bounds,        \* pairs of a rule's minimum and maximum
  EventLists     \* sequences of the vehicles of the events, by timestamp

(* A rule without a maximum has one that no list of events reaches.        *)
ASSUME CountConstantsOK ==
  /\ NumRules \in Nat
  /\ EventLists \subseteq Seq(Vehicles)
  /\ \A b \in Bounds : b.min \in Nat /\ b.max \in Nat

Rules == 1 .. NumRules

VARIABLES
  events,      \* the events of the provider
  devices,     \* the vehicles of the device map
  bounds,      \* of a rule
  active,      \* the rules that apply at this time of this day
  matches,     \* pairs of a rule and the event that it matches
  rule, event, \* where the loops are
  unseen,      \* devicesToCheck
  captor,      \* matchedVehicles: the rule that captured a vehicle, or 0
  overflowed,  \* overflowedVehicles: the rules that had no room for it
  num_matches,
  missing      \* countMinimumViolations

input == <<events, devices, bounds, active, matches>>
loop == <<rule, event, unseen, captor, overflowed, num_matches, missing>>
countVars == <<input, loop>>

Done == rule > NumRules

Overflows == {v \in Vehicles : overflowed[v] # {}}

(***************************************************************************)
(* One event under one rule.                                               *)
(***************************************************************************)
Vehicle == events[event]

Considered == Vehicle \in unseen /\ <<rule, event>> \in matches

Skip ==
  /\ ~ Considered
  /\ UNCHANGED <<unseen, captor, overflowed, num_matches>>

(* Mutants: the rule that overflows takes one more; a captured vehicle     *)
(* stays where it overflowed.                                              *)
HasRoomForOneMore == num_matches <= bounds[rule].max

HasRoom == num_matches < bounds[rule].max

CaptureKeepsOverflow ==
  /\ Considered /\ HasRoom
  /\ captor' = [captor EXCEPT ![Vehicle] = rule]
  /\ unseen' = unseen \ {Vehicle}
  /\ num_matches' = num_matches + 1
  /\ UNCHANGED overflowed

Capture ==
  /\ Considered /\ HasRoom
  /\ captor' = [captor EXCEPT ![Vehicle] = rule]
  /\ unseen' = unseen \ {Vehicle}
  /\ overflowed' = [overflowed EXCEPT ![Vehicle] = {}]
  /\ num_matches' = num_matches + 1

Overflow ==
  /\ Considered /\ ~ HasRoom
  /\ overflowed' = [overflowed EXCEPT ![Vehicle] = @ \cup {rule}]
  /\ num_matches' = num_matches + 1
  /\ UNCHANGED <<unseen, captor>>

Examine ==
  /\ ~ Done /\ rule \in active /\ event <= Len(events)
  /\ Skip \/ Capture \/ Overflow
  /\ event' = event + 1
  /\ UNCHANGED <<input, rule, missing>>

(***************************************************************************)
(* The end of a rule: too few matches count against its minimum.           *)
(***************************************************************************)
Shortfall(min, n) == IF n < min THEN min - n ELSE 0

(* Mutant: the matches of the rules before count for the next one.         *)
EndRuleKeepsCount ==
  /\ ~ Done /\ (rule \in active => event > Len(events))
  /\ missing' = IF rule \in active THEN missing + Shortfall(bounds[rule].min, num_matches)
                ELSE missing
  /\ rule' = rule + 1 /\ event' = 1
  /\ UNCHANGED <<input, unseen, captor, overflowed, num_matches>>

EndRule ==
  /\ ~ Done /\ (rule \in active => event > Len(events))
  /\ missing' = IF rule \in active THEN missing + Shortfall(bounds[rule].min, num_matches)
                ELSE missing
  /\ rule' = rule + 1 /\ event' = 1 /\ num_matches' = 0
  /\ UNCHANGED <<input, unseen, captor, overflowed>>

CountInit ==
  /\ events \in EventLists
  /\ devices \in SUBSET {events[e] : e \in DOMAIN events}
  /\ bounds \in [Rules -> Bounds]
  /\ active \in SUBSET Rules
  /\ matches \in SUBSET (Rules \X DOMAIN events)
  /\ rule = 1 /\ event = 1
  /\ unseen = devices
  /\ captor = [v \in Vehicles |-> 0]
  /\ overflowed = [v \in Vehicles |-> {}]
  /\ num_matches = 0
  /\ missing = 0

CountNext == Examine \/ EndRule

CountSpec == CountInit /\ [][CountNext]_countVars

(* The result: annotateVehicleMap adds every rule that matches the vehicle.*)
Matched(v) ==
  {r \in Rules : \E e \in DOMAIN events : events[e] = v /\ <<r, e>> \in matches}

RulesMatched(v) ==
  Matched(v) \cup overflowed[v] \cup ({captor[v]} \ {0})

-----------------------------------------------------------------------------

CountTypeOK ==
  /\ events \in EventLists
  /\ devices \subseteq Vehicles
  /\ bounds \in [Rules -> Bounds]
  /\ active \subseteq Rules
  /\ matches \subseteq Rules \X DOMAIN events
  /\ rule \in 1 .. NumRules + 1
  /\ event \in 1 .. Len(events) + 1
  /\ unseen \subseteq devices
  /\ captor \in [Vehicles -> {0} \cup Rules]
  /\ overflowed \in [Vehicles -> SUBSET Rules]
  /\ num_matches \in 0 .. Len(events)
  /\ missing \in Nat

(***************************************************************************)
(* The reference: "say a vehicle is captured by a count rule with a        *)
(* maximum of 5, and this is vehicle number six.  It overflows into        *)
(* evaluation for the next rule ... If a vehicle overflows, and never      *)
(* matches for a subsequent rule, then it is considered in violation".  A  *)
(* rule captures the first of the vehicles the rules before it left.       *)
(***************************************************************************)
FirstMatch(r, v) ==
  CHOOSE e \in DOMAIN events :
    /\ events[e] = v /\ <<r, e>> \in matches
    /\ \A f \in 1 .. e - 1 : ~ (events[f] = v /\ <<r, f>> \in matches)

Candidates(r, left) == {v \in left : r \in active /\ r \in Matched(v)}

Captures(r, left) ==
  {v \in Candidates(r, left) :
     Cardinality({w \in Candidates(r, left) : FirstMatch(r, w) < FirstMatch(r, v)})
       < bounds[r].max}

Left[r \in 0 .. NumRules] ==
  IF r = 0 THEN devices ELSE Left[r - 1] \ Captures(r, Left[r - 1])

Violating == {v \in Left[NumRules] : Matched(v) \cap active # {}}

SumMissing[r \in 0 .. NumRules] ==
  IF r = 0 THEN 0
  ELSE SumMissing[r - 1] +
         IF r \in active
         THEN Shortfall(bounds[r].min, Cardinality(Candidates(r, Left[r - 1])))
         ELSE 0

(* The vehicles reported as violating, and their excess, are those of the  *)
(* reference, and so is what is missing from the minimum, for any order of *)
(* the rules and events, with vehicles that are not in the device map or   *)
(* have two events.                                                        *)
ResultIsExact ==
  Done => /\ Overflows = Violating
          /\ missing = SumMissing[NumRules]

(* A vehicle is captured or overflows, never both, and it overflows only   *)
(* when the rules that match it have captured as many as they may.         *)
NoRoomLeft ==
  \A v \in Vehicles :
    /\ captor[v] # 0 => overflowed[v] = {}
    /\ \A r \in overflowed[v] : Cardinality({w \in Vehicles : captor[w] = r}) = bounds[r].max

(* What does not hold.  The rules reported for a vehicle are active:       *)
(* annotateVehicleMap does not ask isRuleActive.                           *)
ReportsActiveRules ==
  Done => \A v \in Vehicles :
    v \in Overflows \/ captor[v] # 0 => RulesMatched(v) \subseteq active

=============================================================================
