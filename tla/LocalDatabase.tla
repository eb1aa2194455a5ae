---------------------------- MODULE LocalDatabase ----------------------------
(***************************************************************************)
(* tmchat::local_database: the accounts of the chat server, a map from ids *)
(* to user data under one mutex, so that every operation is one step.      *)
(***************************************************************************)
EXTENDS Naturals, FiniteSets

CONSTANTS
  Data,   (* the user data an account may hold                               *)
  IdMax   (* numeric_limits<id_type>::max()                                  *)

ASSUME IdMaxAssumption == IdMax \in Nat \ {0}

VARIABLE database

Ids == 0 .. IdMax - 1

TypeOK == database \in UNION {[S -> Data] : S \in SUBSET Ids}

Init == database = [id \in {} |-> {}]

-----------------------------------------------------------------------------
(* How add_data() finds an id: it walks the map in the order of its keys   *)
(* with a counter beside it and stops where the two differ.                *)

size(db) == Cardinality(DOMAIN db)

(* The counter when the walk comes to key k.                               *)
CountAt(db, k) == Cardinality({j \in DOMAIN db : j < k})

Breaks(db) == {k \in DOMAIN db : k # CountAt(db, k)}

FirstBreak(db) == CHOOSE k \in Breaks(db) : \A j \in Breaks(db) : k <= j

(* Mutant: the counter is one ahead where the walk stops.                  *)
NextIdAhead(db) ==
  IF Breaks(db) = {} THEN size(db) ELSE CountAt(db, FirstBreak(db)) + 1

(* Mutant: the counter is not raised.                                      *)
NextIdUncounted(db) == 0

NextId(db) ==
  IF Breaks(db) = {} THEN size(db) ELSE CountAt(db, FirstBreak(db))

(* Mutant: the limit is tested with > .                                    *)
FullBeyondMax(db) == size(db) > IdMax

Full(db) == size(db) = IdMax

(* emplace() leaves an entry that is there already as it is.               *)
AddData(data) ==
  /\ ~Full(database)
  /\ LET id == NextId(database)
     IN  database' = [i \in DOMAIN database \cup {id} |->
                        IF i \in DOMAIN database THEN database[i] ELSE data]

RemoveData(id) ==
  /\ id \in DOMAIN database
  /\ database' = [i \in DOMAIN database \ {id} |-> database[i]]

Next ==
  \/ \E data \in Data : AddData(data)
  \/ \E id \in Ids : RemoveData(id)

Spec == Init /\ [][Next]_database

-----------------------------------------------------------------------------
(* Whatever was removed before, an id that add_data() would hand out next  *)
(* is in no one's use and is an id: the loop stops at the smallest gap.    *)
NextIdIsSmallestGap ==
  ~Full(database) =>
    /\ NextId(database) \in Ids \ DOMAIN database
    /\ 0 .. NextId(database) - 1 \subseteq DOMAIN database
=============================================================================
