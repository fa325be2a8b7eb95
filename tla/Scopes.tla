------------------------------- MODULE Scopes -------------------------------
(***************************************************************************)
(* The capability scope grammar and its matching rules                     *)
(* (src/libs/authorizer/src/scopes.ts).  A scope string is kept as what    *)
(* split(':') and split('/') make of it: a sequence of parts, each a       *)
(* sequence of segments.  Characters are abstracted to whether a segment   *)
(* matches NAME_PATTERN (Names) or LITERAL_SEGMENT_PATTERN (Literals); the *)
(* empty and the overlong string are texts of one part.                    *)
(***************************************************************************)
EXTENDS Naturals, Sequences

CONSTANTS Names, Literals, WildcardSegment,
          Whole      \* an absent resource part: the whole primitive

ASSUME ScopeAssumption == WildcardSegment \notin Literals

\* Does parseScope accept the text?  "*" stands alone in its segment, and is
\* neither a primitive nor a verb.
IsValidScope(text) ==
  /\ Len(text) \in {2, 3}
  /\ \A i \in {1, 2} : Len(text[i]) = 1 /\ text[i][1] \in Names
  /\ Len(text) = 3 =>
        \A i \in 1..Len(text[3]) : text[3][i] \in Literals \cup {WildcardSegment}

ParseScope(text) ==
  [primitive |-> text[1][1], verb |-> text[2][1],
   resource |-> IF Len(text) = 2 THEN Whole ELSE text[3]]

ScopeCovers(granted, required) ==
  /\ granted.primitive = required.primitive
  /\ granted.verb = required.verb
  /\ \/ granted.resource = Whole
     \/ /\ required.resource # Whole
        /\ Len(granted.resource) = Len(required.resource)
        /\ \A i \in 1..Len(granted.resource) :
              granted.resource[i] \in {WildcardSegment, required.resource[i]}

\* The text `required` is covered by some text of `granted`.
CoveredBy(required, granted) ==
  \E text \in granted : ScopeCovers(ParseScope(text), ParseScope(required))

\* Mutant: the arguments swapped.
IsScopeSubsetSwapped(requested, granted) ==
  \A text \in granted : CoveredBy(text, requested)

\* Every scope requested is covered by one granted.
IsScopeSubset(requested, granted) ==
  \A text \in requested : CoveredBy(text, granted)
=============================================================================
