CONSTANT Texts <- MCTexts
SPECIFICATION Spec
INVARIANTS ShownIsAContact BrowsingGoesRound
