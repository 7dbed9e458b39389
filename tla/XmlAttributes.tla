---------------------------- MODULE XmlAttributes ----------------------------
(***************************************************************************)
(* The attributes of pugixml's nodes: the list of each node, the functions *)
(* that edit it, and the lookup that is given a hint by the last one.  A   *)
(* call that is refused or has no memory changes nothing and is left out.  *)
(***************************************************************************)
EXTENDS Integers, Sequences, SequencesExt

CONSTANTS
  Holder,     \* elements, and nodes that may have no attributes
  Plain,      \* those that may not: neither elements nor declarations
  Attribute,  \* attributes, alive or to be allocated
  AttrName,   \* names
  NoAttr      \* the null pointer

ASSUME AttributeAssumption == Plain \subseteq Holder /\ NoAttr \notin Attribute \cup AttrName

VARIABLES
  firstAttr,  \* firstAttr[n]: first_attribute
  nextAttr,   \* next_attribute
  prevAttr,   \* prev_attribute_c
  attrName,   \* attrName[a]: NoAttr when a is not allocated
  hint        \* hint[n]: the hint a caller keeps for lookups in n

attrLinks == <<firstAttr, nextAttr, prevAttr>>
attributeVars == <<firstAttr, nextAttr, prevAttr, attrName, hint>>

\* The list from a on.
ListFrom[a \in Attribute \cup {NoAttr}] ==
  IF a = NoAttr THEN <<>> ELSE <<a>> \o ListFrom[nextAttr[a]]

Attributes(n) == ListFrom[firstAttr[n]]
IsAttributeOf(a, n) == Contains(Attributes(n), a)
AllowInsertAttribute(n) == n \notin Plain
Free == {a \in Attribute : attrName[a] = NoAttr}
-----------------------------------------------------------------------------
\* append_attribute()
LinkLast(a, n) ==
  LET head == firstAttr[n] IN
  IF head # NoAttr
  THEN /\ nextAttr' = [nextAttr EXCEPT ![prevAttr[head]] = a]
       /\ prevAttr' = [prevAttr EXCEPT ![a] = prevAttr[head], ![head] = a]
       /\ UNCHANGED firstAttr
  ELSE /\ firstAttr' = [firstAttr EXCEPT ![n] = a]
       /\ prevAttr' = [prevAttr EXCEPT ![a] = a]
       /\ UNCHANGED nextAttr

\* prepend_attribute()
LinkFirst(a, n) ==
  LET head == firstAttr[n] IN
  /\ prevAttr' = IF head # NoAttr THEN [prevAttr EXCEPT ![a] = prevAttr[head], ![head] = a]
                 ELSE [prevAttr EXCEPT ![a] = a]
  /\ nextAttr' = [nextAttr EXCEPT ![a] = head]
  /\ firstAttr' = [firstAttr EXCEPT ![n] = a]

\* insert_attribute_after()
LinkAfter(a, place, n) ==
  LET told == IF nextAttr[place] # NoAttr THEN nextAttr[place] ELSE firstAttr[n] IN
  /\ prevAttr' = [prevAttr EXCEPT ![told] = a, ![a] = place]
  /\ nextAttr' = [nextAttr EXCEPT ![a] = nextAttr[place], ![place] = a]
  /\ UNCHANGED firstAttr

\* insert_attribute_before()
LinkBefore(a, place, n) ==
  LET before == prevAttr[place] IN
  /\ IF nextAttr[before] # NoAttr
     THEN nextAttr' = [nextAttr EXCEPT ![before] = a, ![a] = place] /\ UNCHANGED firstAttr
     ELSE nextAttr' = [nextAttr EXCEPT ![a] = place] /\ firstAttr' = [firstAttr EXCEPT ![n] = a]
  /\ prevAttr' = [prevAttr EXCEPT ![a] = before, ![place] = a]

\* remove_attribute()
Unlink(a, n) ==
  LET before == prevAttr[a]
      told == IF nextAttr[a] # NoAttr THEN nextAttr[a] ELSE firstAttr[n]
  IN  /\ prevAttr' = [prevAttr EXCEPT ![told] = before, ![a] = NoAttr]
      /\ IF nextAttr[before] # NoAttr
         THEN nextAttr' = [nextAttr EXCEPT ![before] = nextAttr[a], ![a] = NoAttr] /\ UNCHANGED firstAttr
         ELSE nextAttr' = [nextAttr EXCEPT ![a] = NoAttr] /\ firstAttr' = [firstAttr EXCEPT ![n] = nextAttr[a]]
-----------------------------------------------------------------------------
\* The first of a list with the name s.
FirstNamed(list, s) ==
  IF \E i \in DOMAIN list : attrName[list[i]] = s
  THEN list[CHOOSE i \in DOMAIN list : /\ attrName[list[i]] = s
                                      /\ \A j \in 1..(i - 1) : attrName[list[j]] # s]
  ELSE NoAttr

\* attribute(name)
Lookup(n, s) == FirstNamed(Attributes(n), s)

\* Mutant of Hinted: the search does not start again.
HintedForward(n, s, h) == IF h = NoAttr THEN Lookup(n, s) ELSE FirstNamed(ListFrom[h], s)

\* attribute(name, hint): from the hint to the end, then from the start up to
\* the hint.
Hinted(n, s, h) ==
  LET list == Attributes(n)
      later == FirstNamed(ListFrom[h], s)
  IN  IF later # NoAttr THEN later
      ELSE FirstNamed(SubSeq(list, 1, Len(list) - Len(ListFrom[h])), s)

\* last_attribute(), and the list that previous_attribute() walks from it.
LastAttribute(n) == IF firstAttr[n] = NoAttr THEN NoAttr ELSE prevAttr[firstAttr[n]]

Previous(a) == IF nextAttr[prevAttr[a]] # NoAttr THEN prevAttr[a] ELSE NoAttr

BackFrom[a \in Attribute \cup {NoAttr}] ==
  IF a = NoAttr THEN <<>> ELSE <<a>> \o BackFrom[Previous(a)]
-----------------------------------------------------------------------------
AttributesInit ==
  /\ firstAttr = [n \in Holder |-> NoAttr]
  /\ nextAttr = [a \in Attribute |-> NoAttr]
  /\ prevAttr = [a \in Attribute |-> NoAttr]
  /\ attrName = [a \in Attribute |-> NoAttr]
  /\ hint = [n \in Holder |-> NoAttr]

\* A new attribute of n; the name is set when it is in the list.
Made(a, n, s) ==
  /\ a \in Free /\ AllowInsertAttribute(n)
  /\ attrName' = [attrName EXCEPT ![a] = s]
  /\ UNCHANGED hint

AppendAttribute(n, a, s) == Made(a, n, s) /\ LinkLast(a, n)
PrependAttribute(n, a, s) == Made(a, n, s) /\ LinkFirst(a, n)
InsertAttributeAfter(n, a, s, p) == IsAttributeOf(p, n) /\ Made(a, n, s) /\ LinkAfter(a, p, n)
InsertAttributeBefore(n, a, s, p) == IsAttributeOf(p, n) /\ Made(a, n, s) /\ LinkBefore(a, p, n)

\* The copies of an attribute, of any node; its name is copied.
AppendCopy(n, a, proto) == proto \notin Free /\ AppendAttribute(n, a, attrName[proto])
PrependCopy(n, a, proto) == proto \notin Free /\ PrependAttribute(n, a, attrName[proto])
InsertCopyAfter(n, a, proto, p) == proto \notin Free /\ InsertAttributeAfter(n, a, attrName[proto], p)
InsertCopyBefore(n, a, proto, p) == proto \notin Free /\ InsertAttributeBefore(n, a, attrName[proto], p)

\* remove_attribute(); a caller gives up a hint that it is.
RemoveAttribute(n, a) ==
  /\ a # NoAttr /\ IsAttributeOf(a, n)
  /\ Unlink(a, n)
  /\ attrName' = [attrName EXCEPT ![a] = NoAttr]
  /\ hint' = [m \in Holder |-> IF hint[m] = a THEN NoAttr ELSE hint[m]]

RemoveNamed(n, s) == RemoveAttribute(n, Lookup(n, s))

\* attribute(name, hint): the next hint is what follows the attribute found.
LookupHinted(n, s) ==
  /\ hint' = [hint EXCEPT ![n] = LET a == Hinted(n, s, hint[n]) IN IF a = NoAttr THEN @ ELSE nextAttr[a]]
  /\ UNCHANGED <<attrLinks, attrName>>

AttributesNext ==
  \E n \in Holder :
    \/ \E a \in Attribute :
         \/ \E s \in AttrName :
              \/ AppendAttribute(n, a, s)
              \/ PrependAttribute(n, a, s)
              \/ \E p \in Attribute : InsertAttributeAfter(n, a, s, p) \/ InsertAttributeBefore(n, a, s, p)
         \/ \E proto \in Attribute :
              \/ AppendCopy(n, a, proto)
              \/ PrependCopy(n, a, proto)
              \/ \E p \in Attribute : InsertCopyAfter(n, a, proto, p) \/ InsertCopyBefore(n, a, proto, p)
         \/ RemoveAttribute(n, a)
    \/ \E s \in AttrName : RemoveNamed(n, s) \/ LookupHinted(n, s)

AttributesSpec == AttributesInit /\ [][AttributesNext]_attributeVars
-----------------------------------------------------------------------------
AttributesTypeOK ==
  /\ firstAttr \in [Holder -> Attribute \cup {NoAttr}]
  /\ nextAttr \in [Attribute -> Attribute \cup {NoAttr}]
  /\ prevAttr \in [Attribute -> Attribute \cup {NoAttr}]
  /\ attrName \in [Attribute -> AttrName \cup {NoAttr}]
  /\ hint \in [Holder -> Attribute \cup {NoAttr}]

(***************************************************************************)
(* Each attribute that is alive is in one list, once; the walk back from   *)
(* the last attribute visits the list in the other order, for the          *)
(* iterators as for last_attribute() and previous_attribute().             *)
(***************************************************************************)
ListsWhole ==
  /\ \A n \in Holder : BackFrom[LastAttribute(n)] = Reverse(Attributes(n))
  /\ \A a \in Attribute : a \notin Free <=> \E n \in Holder : IsAttributeOf(a, n)
  /\ \A m, n \in Holder : \A i \in DOMAIN Attributes(m), j \in DOMAIN Attributes(n) :
       Attributes(m)[i] = Attributes(n)[j] => m = n /\ i = j

(***************************************************************************)
(* A hint, which is an attribute of its node as attribute() asserts, never *)
(* hides one: with it a name is found if and only if it is without, and    *)
(* the same one when no other has the name.                                *)
(***************************************************************************)
Bears(n, a, s) == IsAttributeOf(a, n) /\ attrName[a] = s

HintHidesNothing ==
  \A n \in Holder :
    /\ hint[n] # NoAttr => IsAttributeOf(hint[n], n)
    /\ \A s \in AttrName :
         LET found == Hinted(n, s, hint[n]) IN
         /\ found = NoAttr <=> Lookup(n, s) = NoAttr
         /\ found # NoAttr => Bears(n, found, s)
         /\ \A a \in Attribute :
              Bears(n, a, s) /\ (\A b \in Attribute \ {a} : ~ Bears(n, b, s)) => found = a

(***************************************************************************)
(* An edit changes the list it names, by one attribute, at the place it    *)
(* names, and no other.                                                    *)
(***************************************************************************)
AttributeLists == [n \in Holder |-> Attributes(n)]

Becomes(n, list) == AttributeLists' = [AttributeLists EXCEPT ![n] = list]

EditInPlace ==
  \A n \in Holder, a \in Attribute :
    LET list == Attributes(n) IN
    /\ \A s \in AttrName :
         /\ AppendAttribute(n, a, s) => Becomes(n, Append(list, a))
         /\ PrependAttribute(n, a, s) => Becomes(n, <<a>> \o list)
         /\ \A i \in DOMAIN list :
              /\ InsertAttributeAfter(n, a, s, list[i]) => Becomes(n, InsertAt(list, i + 1, a))
              /\ InsertAttributeBefore(n, a, s, list[i]) => Becomes(n, InsertAt(list, i, a))
    /\ \A i \in DOMAIN list : RemoveAttribute(n, list[i]) => Becomes(n, RemoveAt(list, i))

(***************************************************************************)
(* The lists of attributes are whole, edits change them at the place they  *)
(* name, and a lookup with a hint finds what one without it does.          *)
(***************************************************************************)
AttributesKept ==
  /\ [](AttributesTypeOK /\ ListsWhole /\ HintHidesNothing)
  /\ [][EditInPlace]_attributeVars
=============================================================================
