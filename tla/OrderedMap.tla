----------------------------- MODULE OrderedMap -----------------------------
(***************************************************************************)
(* What a Volvox map or set promises: a finite function from keys to       *)
(* values. Assigning inserts or replaces, inserting into a set and         *)
(* deleting tell whether anything changed, and the count is exact.         *)
(***************************************************************************)
EXTENDS FiniteSets

CONSTANTS Keys, Values

VARIABLES content,  \* a function from the present keys to their values
          count,    \* the field count
          result    \* what the last operation returned

Init == content = << >> /\ count = 0 /\ result = TRUE

Put(k, v) ==
  /\ content' = [i \in DOMAIN content \cup {k} |-> IF i = k THEN v ELSE content[i]]
  /\ count' = Cardinality(DOMAIN content')
  /\ UNCHANGED result

Add(k, v) ==
  /\ result' = (k \notin DOMAIN content)
  /\ content' = IF k \in DOMAIN content THEN content
                ELSE [i \in DOMAIN content \cup {k} |-> IF i = k THEN v ELSE content[i]]
  /\ count' = Cardinality(DOMAIN content')

Remove(k) ==
  /\ result' = (k \in DOMAIN content)
  /\ content' = [i \in DOMAIN content \ {k} |-> content[i]]
  /\ count' = Cardinality(DOMAIN content')

Clear == content' = << >> /\ count' = 0 /\ UNCHANGED result

\* A new variable with the elements of a literal.
Fill(present, v) ==
  /\ content = << >>
  /\ content' = [k \in present |-> v]
  /\ count' = Cardinality(present)
  /\ UNCHANGED result

Next ==
  \/ \E k \in Keys, v \in Values : Put(k, v) \/ Add(k, v)
  \/ \E present \in SUBSET Keys, v \in Values : Fill(present, v)
  \/ \E k \in Keys : Remove(k)
  \/ Clear

Spec == Init /\ [][Next]_<<content, count, result>>
=============================================================================
