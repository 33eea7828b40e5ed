---------------------------- MODULE AddressBook ----------------------------
(***************************************************************************)
(* qt/address_book/addressbook.cpp: a form that shows one contact of a     *)
(* sorted map, and into which a new one is typed.  An action is a slot, or *)
(* an edit of a field by the user; a slot runs when its button is shown    *)
(* and enabled.  Message boxes are modal and change nothing.               *)
(***************************************************************************)
EXTENDS Integers, FiniteSets

CONSTANT Texts   \* what the fields can hold: numbers in the order of the strings

\* The empty string is first among them.
Empty == 0
ASSUME TextsAreOrdered == Texts \subseteq Nat /\ Empty \in Texts

VARIABLES
  contacts,                  \* the QMap: contacts[name] is an address
  nameLine, addressText,     \* what the two fields show
  oldName, oldAddress,
  editing,                   \* the fields are writable, submit and cancel shown, add disabled
  navigable                  \* nextButton and previousButton are enabled

form == <<nameLine, addressText>>
old == <<oldName, oldAddress>>
vars == <<contacts, form, old, editing, navigable>>

Names == DOMAIN contacts

Init ==
  /\ contacts = [n \in {} |-> Empty]
  /\ nameLine = Empty /\ addressText = Empty
  /\ oldName = Empty /\ oldAddress = Empty
  /\ editing = FALSE /\ navigable = FALSE

Edit ==
  /\ editing
  /\ \E t \in Texts : \/ nameLine' = t /\ UNCHANGED addressText
                      \/ addressText' = t /\ UNCHANGED nameLine
  /\ UNCHANGED <<contacts, old, editing, navigable>>

AddContact ==
  /\ ~editing
  /\ oldName' = nameLine /\ oldAddress' = addressText
  /\ nameLine' = Empty /\ addressText' = Empty
  /\ editing' = TRUE /\ navigable' = FALSE
  /\ UNCHANGED contacts

\* The fields go back to read-only over the contacts the map now holds.
EndEditing ==
  /\ editing' = FALSE
  /\ navigable' = (Cardinality(DOMAIN contacts') > 1)

\* An empty field or a name that is taken leaves the form as it is.
Refused == nameLine = Empty \/ addressText = Empty \/ nameLine \in Names

SubmitContact ==
  /\ editing
  /\ IF Refused
       THEN UNCHANGED <<contacts, editing, navigable>>
       ELSE /\ contacts' = [n \in Names \union {nameLine} |->
                              IF n = nameLine THEN addressText ELSE contacts[n]]
            /\ EndEditing
  /\ UNCHANGED <<form, old>>

\* A slip: the form keeps what was typed.
CancelKeepsTyped ==
  /\ editing
  /\ UNCHANGED <<contacts, old, form>>
  /\ EndEditing

\* The old name is put into both fields.
Cancel ==
  /\ editing
  /\ nameLine' = oldName
  /\ addressText' = oldName
  /\ UNCHANGED <<contacts, old>>
  /\ EndEditing

Show(m) ==
  /\ nameLine' = m /\ addressText' = contacts[m]
  /\ UNCHANGED <<contacts, old, editing, navigable>>

\* The map is sorted.
First(m) == m \in Names /\ \A k \in Names : m <= k
Last(m) == m \in Names /\ \A k \in Names : k <= m
Successor(n, m) == m \in Names /\ n < m /\ \A k \in Names : k <= n \/ m <= k

\* A slip: the last contact is shown again instead of the first.
NextOfStays(n, m) ==
  IF n \in Names /\ ~Last(n) THEN Successor(n, m) ELSE m = n

\* The iterator that find, ++ and the wrap to begin() leave at m.
NextOf(n, m) ==
  IF n \in Names /\ ~Last(n) THEN Successor(n, m) ELSE First(m)

\* And the one that end() before begin() and -- do.
PreviousOf(n, m) ==
  IF First(n) THEN Last(m) ELSE m \in Names /\ Successor(m, n)

NextContact == navigable /\ \E m \in Names : NextOf(nameLine, m) /\ Show(m)

\* A shown name that is no contact would clear the form.
PreviousContact ==
  /\ navigable
  /\ IF nameLine \in Names
       THEN \E m \in Names : PreviousOf(nameLine, m) /\ Show(m)
       ELSE /\ nameLine' = Empty /\ addressText' = Empty
            /\ UNCHANGED <<contacts, old, editing, navigable>>

Next == Edit \/ AddContact \/ SubmitContact \/ Cancel \/ NextContact \/ PreviousContact
Spec == Init /\ [][Next]_vars

-----------------------------------------------------------------------------
TypeOK ==
  /\ Names \subseteq Texts /\ \A n \in Names : contacts[n] \in Texts
  /\ nameLine \in Texts /\ addressText \in Texts
  /\ oldName \in Texts /\ oldAddress \in Texts
  /\ editing \in BOOLEAN /\ navigable \in BOOLEAN

(* Outside editing the form shows a contact, and nothing only while there  *)
(* is none, through any mixture of adding, refusals, cancelling and        *)
(* browsing: next and previous, enabled only then, find the shown name in  *)
(* the map, never dereference end() (144) and never clear the form (155).  *)
(* The address is the contact's, or, after cancel, its name.               *)
ShownIsAContact ==
  /\ navigable => ~editing /\ nameLine \in Names
  /\ ~editing =>
       IF Names = {} THEN nameLine = Empty /\ addressText = Empty
       ELSE nameLine \in Names /\ addressText \in {contacts[nameLine], nameLine}

(* next goes round all the contacts, whatever the order they were added    *)
(* in, and previous goes back the same way: no set of contacts but the     *)
(* whole is closed under next.                                             *)
BrowsingGoesRound ==
  /\ \A S \in (SUBSET Names) \ {{}} :
        (\A n \in S, m \in Names : NextOf(n, m) => m \in S) => S = Names
  /\ \A n, m \in Names : NextOf(n, m) <=> PreviousOf(m, n)
=============================================================================
