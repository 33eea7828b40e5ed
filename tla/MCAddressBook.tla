---------------------------- MODULE MCAddressBook ----------------------------
(* The empty text and three others, which serve as names and addresses.    *)
EXTENDS AddressBook

MCTexts == 0 .. 3
=============================================================================
