---------------------------- MODULE StoredValue ----------------------------
(***************************************************************************)
(* The repository port as the services rely on it: one stored artifact     *)
(* that a save replaces whole and a load returns whole.  Restoring a       *)
(* backup in place, and a power cut, may leave anything there until the    *)
(* next save.                                                              *)
(***************************************************************************)
CONSTANTS Artifacts, Readers, Nothing,
          Torn      \* what is no artifact

VARIABLES
  value,    \* what is stored, or Nothing
  seen,     \* seen[r]: what the load of r has found, or Nothing
  damaged   \* whether what is stored may be anything

Findable == Artifacts \cup {Nothing, Torn}
NoLoads == [r \in Readers |-> Nothing]

Init == value = Nothing /\ seen = NoLoads /\ damaged = FALSE

Save == value' \in Artifacts /\ damaged' = FALSE /\ UNCHANGED seen

Load(r) ==
  /\ value # Nothing
  /\ seen' = [seen EXCEPT ![r] = value]
  /\ UNCHANGED <<value, damaged>>

Leave(r) == seen' = [seen EXCEPT ![r] = Nothing] /\ UNCHANGED <<value, damaged>>

Restart == seen' = NoLoads /\ UNCHANGED <<value, damaged>>

Damage ==
  /\ damaged' = TRUE
  /\ value' \in Findable
  /\ seen' \in [Readers -> Findable]

Next ==
  \/ Save \/ Restart \/ Damage
  \/ \E r \in Readers : Load(r) \/ Leave(r)

Spec == Init /\ [][Next]_<<value, seen, damaged>>
=============================================================================
