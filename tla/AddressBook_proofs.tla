------------------------- MODULE AddressBook_proofs -------------------------
(***************************************************************************)
(* For any set of texts, and any number of contacts: outside editing the   *)
(* form shows a contact.  What makes it inductive is that cancel has a     *)
(* name to go back to: oldName stays a contact while one is edited.        *)
(***************************************************************************)
EXTENDS AddressBook, FiniteSetTheorems, TLAPS

OldIsAContact ==
  editing => IF Names = {} THEN oldName = Empty ELSE oldName \in Names

IInv == TypeOK /\ ShownIsAContact /\ OldIsAContact /\ IsFiniteSet(Names)

\* The initial form is empty, and so is the map.
LEMMA InitIInv == Init => IInv
  BY TextsAreOrdered, FS_EmptySet
  DEF Init, IInv, TypeOK, ShownIsAContact, OldIsAContact, Names, Empty

\* The browsing buttons are enabled over a map that is not empty.
LEMMA EndEditingOverContacts ==
  ASSUME EndEditing, IsFiniteSet(Names')
  PROVE  editing' = FALSE /\ navigable' \in BOOLEAN /\ (navigable' => Names' # {})
<1>1. editing' = FALSE /\ navigable' = (Cardinality(Names') > 1)
  BY DEF EndEditing, Names
<1>2. Cardinality(Names') \in Nat
  BY FS_CardinalityType
<1>3. Names' = {} => Cardinality(Names') = 0
  BY FS_EmptySet, Zenon
<1>4. (Cardinality(Names') > 1) \in BOOLEAN
  BY <1>2
<1>5. navigable' \in BOOLEAN
  BY <1>1, <1>4
<1>6. navigable' => Cardinality(Names') > 1
  BY <1>1, <1>5
<1>7. Names' = {} => ~(Cardinality(Names') > 1)
  BY <1>3
<1> QED
  BY <1>1, <1>5, <1>6, <1>7

\* A contact that is shown is shown with its address.
LEMMA ShowKeepsIInv ==
  ASSUME IInv, ~editing, NEW m \in Names, Show(m)
  PROVE  IInv'
<1>1. /\ contacts' = contacts /\ Names' = Names /\ oldName' = oldName
      /\ oldAddress' = oldAddress /\ editing' = editing /\ navigable' = navigable
  BY DEF Show, old, Names
<1>2. nameLine' = m /\ addressText' = contacts[m] /\ m \in Texts /\ contacts[m] \in Texts
  BY DEF Show, IInv, TypeOK
<1> QED
  BY <1>1, <1>2 DEF IInv, TypeOK, ShownIsAContact, OldIsAContact

\* Every slot, and every edit, keeps the invariant.
LEMMA NextIInv == IInv /\ [Next]_vars => IInv'
<1> SUFFICES ASSUME IInv, [Next]_vars PROVE IInv'
  OBVIOUS
<1>t. TypeOK /\ ShownIsAContact /\ OldIsAContact /\ IsFiniteSet(Names)
  BY DEF IInv
<1>e. Empty \in Texts
  BY TextsAreOrdered
<1>1. CASE Edit
  <2>1. /\ contacts' = contacts /\ Names' = Names /\ oldName' = oldName
        /\ oldAddress' = oldAddress /\ editing' = TRUE /\ navigable' = navigable /\ editing
    BY <1>1, <1>t DEF Edit, old, Names, TypeOK
  <2>2. nameLine' \in Texts /\ addressText' \in Texts
    BY <1>1, <1>t DEF Edit, TypeOK
  <2> QED
    BY <1>t, <2>1, <2>2 DEF IInv, TypeOK, ShownIsAContact, OldIsAContact
<1>2. CASE AddContact
  <2>1. Names' = Names /\ contacts' = contacts
    BY <1>2 DEF AddContact, Names
  <2> QED
    BY <1>2, <1>t, <1>e, <2>1 DEF AddContact, IInv, TypeOK, ShownIsAContact, OldIsAContact
<1>3. CASE SubmitContact
  <2>1. CASE Refused
    <3>1. /\ contacts' = contacts /\ Names' = Names /\ nameLine' = nameLine
          /\ addressText' = addressText /\ oldName' = oldName
          /\ oldAddress' = oldAddress /\ editing' = editing /\ navigable' = navigable
      BY <1>3, <2>1 DEF SubmitContact, form, old, Names
    <3> QED
      BY <1>t, <3>1 DEF IInv, TypeOK, ShownIsAContact, OldIsAContact
  <2>2. CASE ~Refused
    <3>1. /\ nameLine' = nameLine /\ addressText' = addressText
          /\ oldName' = oldName /\ oldAddress' = oldAddress /\ EndEditing
          /\ contacts' = [n \in Names \union {nameLine} |->
                            IF n = nameLine THEN addressText ELSE contacts[n]]
      BY <1>3, <2>2 DEF SubmitContact, form, old
    <3>2. Names' = Names \union {nameLine} /\ contacts'[nameLine] = addressText
      BY <3>1 DEF Names
    <3>3. \A n \in Names' : contacts'[n] \in Texts
      BY <1>t, <3>1, <3>2 DEF TypeOK
    <3>4. IsFiniteSet(Names')
      BY <1>t, <3>2, FS_AddElement
    <3>5. editing' = FALSE /\ navigable' \in BOOLEAN
      BY <3>1, <3>4, EndEditingOverContacts
    <3> QED
      BY <1>t, <3>1, <3>2, <3>3, <3>4, <3>5 DEF IInv, TypeOK, ShownIsAContact, OldIsAContact
  <2> QED
    BY <2>1, <2>2
<1>4. CASE Cancel
  <2>1. /\ Names' = Names /\ contacts' = contacts /\ editing
        /\ nameLine' = oldName /\ addressText' = oldName
        /\ oldName' = oldName /\ oldAddress' = oldAddress /\ EndEditing
    BY <1>4 DEF Cancel, old, Names
  <2>2. editing' = FALSE /\ navigable' \in BOOLEAN /\ (navigable' => Names' # {})
    BY <1>t, <2>1, EndEditingOverContacts
  <2> QED
    BY <1>t, <2>1, <2>2 DEF IInv, TypeOK, ShownIsAContact, OldIsAContact
<1>5. CASE NextContact
  <2>1. ~editing /\ \E m \in Names : Show(m)
    BY <1>5, <1>t DEF NextContact, ShownIsAContact
  <2> QED
    BY <2>1, ShowKeepsIInv
<1>6. CASE PreviousContact
  <2>1. ~editing /\ nameLine \in Names
    BY <1>6, <1>t DEF PreviousContact, ShownIsAContact
  <2>2. \E m \in Names : Show(m)
    BY <1>6, <2>1 DEF PreviousContact
  <2> QED
    BY <2>1, <2>2, ShowKeepsIInv
<1>7. CASE UNCHANGED vars
  <2>1. Names' = Names
    BY <1>7 DEF vars, Names
  <2> QED
    BY <1>t, <1>7, <2>1 DEF vars, form, old, IInv, TypeOK, ShownIsAContact, OldIsAContact
<1> QED
  BY <1>1, <1>2, <1>3, <1>4, <1>5, <1>6, <1>7 DEF Next

\* The inductive invariant holds of every reachable state.
THEOREM AddressBookInductive == Spec => []IInv
<1> QED
  BY InitIInv, NextIInv, PTL DEF Spec

\* The fields and the map hold texts.
THEOREM AddressBookTypeOK == Spec => []TypeOK
<1>1. IInv => TypeOK
  BY DEF IInv
<1> QED
  BY <1>1, AddressBookInductive, PTL

\* Outside editing the form shows a contact, and the browsing buttons find it.
THEOREM AddressBookShowsAContact == Spec => []ShownIsAContact
<1>1. IInv => ShownIsAContact
  BY DEF IInv
<1> QED
  BY <1>1, AddressBookInductive, PTL
-----------------------------------------------------------------------------
\* A finite set of texts has a last one: of the sets of those not before one
\* of them, some set contains no other.
LEMMA GreatestExists ==
  ASSUME NEW S, IsFiniteSet(S), S \subseteq Nat, S # {}
  PROVE  \E x \in S : \A y \in S : y <= x
<1> DEFINE From(x) == {y \in S : x <= y}
           Tails == {From(x) : x \in S}
<1>1. Tails \subseteq FiniteSubsetsOf(S) /\ Tails # {}
  <2>1. ASSUME NEW x \in S PROVE From(x) \in FiniteSubsetsOf(S)
    <3>1. From(x) \subseteq S
      OBVIOUS
    <3> HIDE DEF From
    <3> QED
      BY <3>1, FS_Subset DEF FiniteSubsetsOf
  <2> QED
    BY <2>1
<1>2. IsWellFoundedOn(StrictSubsetOrdering(S), FiniteSubsetsOf(S))
  BY FS_StrictSubsetOrderingWellFounded
<1> HIDE DEF Tails
<1>3. PICK X \in Tails : \A Y \in Tails : ~(<<Y, X>> \in StrictSubsetOrdering(S))
  BY <1>1, <1>2, WFMin
<1>4. PICK x \in S : X = From(x)
  BY DEF Tails
<1>5. ASSUME NEW y \in S, x < y PROVE FALSE
  <2>1. From(y) \in Tails
    BY DEF Tails
  <2>2. x \in X /\ x \notin From(y) /\ From(y) \subseteq X
    <3>1. x \in Nat /\ y \in Nat /\ x < y /\ \A z \in S : z \in Nat
      BY <1>5
    <3>2. x \in From(x) /\ x \notin From(y)
      BY <3>1
    <3>3. \A z \in From(y) : z \in From(x)
      BY <3>1
    <3> QED
      BY <1>4, <3>2, <3>3
  <2>3. From(y) \in SUBSET S /\ X \in SUBSET S
    BY <1>4
  <2>4. <<From(y), X>> \in StrictSubsetOrdering(S)
    BY <2>2, <2>3 DEF StrictSubsetOrdering
  <2> QED
    BY <2>1, <2>4, <1>3
<1> QED
  BY <1>5

\* And a first one.
LEMMA LeastExists ==
  ASSUME NEW S, IsFiniteSet(S), S \subseteq Nat, S # {}
  PROVE  \E x \in S : \A y \in S : x <= y
<1> DEFINE UpTo(x) == {y \in S : y <= x}
           Heads == {UpTo(x) : x \in S}
<1>1. Heads \subseteq FiniteSubsetsOf(S) /\ Heads # {}
  <2>1. ASSUME NEW x \in S PROVE UpTo(x) \in FiniteSubsetsOf(S)
    <3>1. UpTo(x) \subseteq S
      OBVIOUS
    <3> HIDE DEF UpTo
    <3> QED
      BY <3>1, FS_Subset DEF FiniteSubsetsOf
  <2> QED
    BY <2>1
<1>2. IsWellFoundedOn(StrictSubsetOrdering(S), FiniteSubsetsOf(S))
  BY FS_StrictSubsetOrderingWellFounded
<1> HIDE DEF Heads
<1>3. PICK X \in Heads : \A Y \in Heads : ~(<<Y, X>> \in StrictSubsetOrdering(S))
  BY <1>1, <1>2, WFMin
<1>4. PICK x \in S : X = UpTo(x)
  BY DEF Heads
<1>5. ASSUME NEW y \in S, y < x PROVE FALSE
  <2>1. UpTo(y) \in Heads
    BY DEF Heads
  <2>2. x \in X /\ x \notin UpTo(y) /\ UpTo(y) \subseteq X
    <3>1. x \in Nat /\ y \in Nat /\ y < x /\ \A z \in S : z \in Nat
      BY <1>5
    <3>2. x \in UpTo(x) /\ x \notin UpTo(y)
      BY <3>1
    <3>3. \A z \in UpTo(y) : z \in UpTo(x)
      BY <3>1
    <3> QED
      BY <1>4, <3>2, <3>3
  <2>3. UpTo(y) \in SUBSET S /\ X \in SUBSET S
    BY <1>4
  <2>4. <<UpTo(y), X>> \in StrictSubsetOrdering(S)
    BY <2>2, <2>3 DEF StrictSubsetOrdering
  <2> QED
    BY <2>1, <2>4, <1>3
<1> QED
  BY <1>5

\* The last contact of a set that is closed under next is the last of all:
\* the one after it would be in the set.
LEMMA ClosedHasLast ==
  ASSUME IsFiniteSet(Names), Names \subseteq Nat,
         NEW S, S \subseteq Names, S # {},
         \A n \in S, m \in Names : NextOf(n, m) => m \in S
  PROVE  \E g \in S : Last(g)
<1>1. IsFiniteSet(S) /\ S \subseteq Nat
  BY FS_Subset
<1>2. PICK g \in S : \A y \in S : y <= g
  BY <1>1, GreatestExists
<1>3. SUFFICES ASSUME ~Last(g) PROVE FALSE
  OBVIOUS
<1> DEFINE After == {k \in Names : g < k}
<1>4. IsFiniteSet(After) /\ After \subseteq Nat
  BY FS_Subset
<1>5. After # {}
  BY <1>3 DEF Last
<1>6. PICK m \in After : \A k \in After : m <= k
  <2> HIDE DEF After
  <2> QED
    BY <1>4, <1>5, LeastExists
<1>7. Successor(g, m)
  BY <1>6 DEF Successor
<1>8. NextOf(g, m)
  BY <1>3, <1>7 DEF NextOf
<1> QED
  BY <1>1, <1>2, <1>6, <1>8

\* A set closed under next has the first contact, after the last, and from
\* there all the others: the first left out would follow one that is not.
LEMMA ClosedIsAll ==
  ASSUME IsFiniteSet(Names), Names \subseteq Nat,
         NEW S, S \subseteq Names, S # {},
         \A n \in S, m \in Names : NextOf(n, m) => m \in S
  PROVE  S = Names
<1>1. PICK g \in S : Last(g)
  BY ClosedHasLast
<1>2. PICK f \in Names : \A k \in Names : f <= k
  BY LeastExists
<1>3. f \in S
  BY <1>1, <1>2 DEF NextOf, First
<1> DEFINE Missing == Names \ S
<1>4. SUFFICES ASSUME Missing # {} PROVE FALSE
  OBVIOUS
<1>5. IsFiniteSet(Missing) /\ Missing \subseteq Nat
  BY FS_Subset
<1>6. PICK x \in Missing : \A y \in Missing : x <= y
  <2> HIDE DEF Missing
  <2> QED
    BY <1>4, <1>5, LeastExists
<1>7. f < x
  BY <1>2, <1>3, <1>6
<1> DEFINE Before == {k \in Names : k < x}
<1>8. IsFiniteSet(Before) /\ Before \subseteq Nat /\ Before # {}
  BY <1>7, FS_Subset
<1>9. PICK p \in Before : \A k \in Before : k <= p
  <2> HIDE DEF Before
  <2> QED
    BY <1>8, GreatestExists
<1>10. p \in S
  BY <1>6, <1>9
<1>11. Successor(p, x) /\ ~Last(p)
  BY <1>6, <1>9 DEF Successor, Last
<1>12. NextOf(p, x)
  BY <1>9, <1>11 DEF NextOf
<1> QED
  BY <1>6, <1>10, <1>12

\* previous is the inverse of next, the wrap included.
LEMMA PreviousUndoesNext ==
  ASSUME Names \subseteq Nat, NEW n \in Names, NEW m \in Names
  PROVE  NextOf(n, m) <=> PreviousOf(m, n)
<1>1. CASE First(m) /\ Last(n)
  BY <1>1 DEF NextOf, PreviousOf
<1>2. CASE First(m) /\ ~Last(n)
  BY <1>2 DEF NextOf, PreviousOf, First, Successor
<1>3. CASE ~First(m) /\ Last(n)
  BY <1>3 DEF NextOf, PreviousOf, Last, Successor
<1>4. CASE ~First(m) /\ ~Last(n)
  BY <1>4 DEF NextOf, PreviousOf
<1> QED
  BY <1>1, <1>2, <1>3, <1>4

\* next goes round all the contacts and previous the same way back, however
\* many there are and in whatever order they were added.
THEOREM AddressBookGoesRound == Spec => []BrowsingGoesRound
<1>1. IInv => BrowsingGoesRound
  <2> SUFFICES ASSUME IInv PROVE BrowsingGoesRound
    OBVIOUS
  <2>1. IsFiniteSet(Names) /\ Names \subseteq Nat
    BY TextsAreOrdered DEF IInv, TypeOK
  <2>2. ASSUME NEW S \in (SUBSET Names) \ {{}},
               \A n \in S, m \in Names : NextOf(n, m) => m \in S
        PROVE  S = Names
    <3>1. S \subseteq Names /\ S # {}
      BY <2>2, Zenon
    <3> QED
      BY <2>1, <2>2, <3>1, ClosedIsAll
  <2>3. \A n, m \in Names : NextOf(n, m) <=> PreviousOf(m, n)
    BY <2>1, PreviousUndoesNext
  <2> QED
    BY <2>2, <2>3 DEF BrowsingGoesRound
<1> QED
  BY <1>1, AddressBookInductive, PTL
=============================================================================
