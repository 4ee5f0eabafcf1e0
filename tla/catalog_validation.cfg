\* A catalogue validated three times in different parts; then nobody asks again.
SPECIFICATION Spec
CONSTANTS
  Catalogues <- SomeCatalogues
  StableKeys <- Stable
  WordsOf <- Words
  MaxValidations = 3
CHECK_DEADLOCK FALSE
INVARIANTS
  TypeOK
  VerdictRightful
  AcceptedIsUsable
