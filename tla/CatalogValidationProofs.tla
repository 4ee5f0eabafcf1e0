----------------------- MODULE CatalogValidationProofs -----------------------
(***************************************************************************)
(* Proofs about CatalogValidation, for any catalogues and any number of    *)
(* validations of them.                                                    *)
(*                                                                         *)
(* A validation reads cells that it and its predecessors have trimmed, in  *)
(* part; the verdict is to be that of the catalogue as it was written.     *)
(* The invariant says how far the two have been found to agree.            *)
(***************************************************************************)
EXTENDS CatalogValidation, SequenceTheorems, TLAPS

\* The variables and actions of an event type have been trimmed.
Trimmed(t) == \A n \in DOMAIN Cells(t) : memory[Cells(t)[n]] = Written(Cells(t)[n])

\* The event types before the current one were in order and are trimmed.
PassedTypes ==
  /\ TypesFine(index - 1)
  /\ \A i \in 1..(index - 1) : Trimmed(request.types[i])
  /\ seen = {TrimSpace(request.types[i].key).core : i \in 1..(index - 1)}

\* So are the variables and actions before the position in the current one.
PassedTurns ==
  index \in DOMAIN request.types =>
    /\ \A n \in 0..(position - 1) : WrittenFaults(Type, n) = {}
    /\ \A n \in DOMAIN Cells(Type) :
         n < position => memory[Cells(Type)[n]] = Written(Cells(Type)[n])
    /\ position > 0 => declared = WrittenKeys(Type, position)

KeysOf(r) == {TrimSpace(r.types[i].key).core : i \in DOMAIN r.types}

\* An accepted request is in order as it was written, and is trimmed.
AcceptedFine ==
  \A r \in accepted :
    /\ \A i \in DOMAIN r.types : InOrder(r.types[i]) /\ Trimmed(r.types[i])
    /\ \A i, j \in DOMAIN r.types : TrimSpace(r.types[i].key) = TrimSpace(r.types[j].key) => i = j
    /\ \A n \in DOMAIN r.rules : RuleFault(r.rules[n], KeysOf(r)) = "none"

IInv == TypeOK /\ PassedTypes /\ PassedTurns /\ AcceptedFine /\ VerdictRightful
-----------------------------------------------------------------------------
(* Texts and cells                                                         *)

\* A cell that is trimmed twice is as trimmed once.
LEMMA TrimTwice == \A cell : TrimCell(TrimCell(cell)) = TrimCell(cell)
<1>1. \A t : TrimSpace(TrimSpace(t)) = TrimSpace(t)
  BY DEF TrimSpace
<1> QED
  BY <1>1 DEF TrimCell

\* Texts are trimmed alike when their cores are the same.
LEMMA SameCore == \A s, t : TrimSpace(s) = TrimSpace(t) <=> TrimSpace(s).core = TrimSpace(t).core
BY DEF TrimSpace

\* The memory holds what was written, trimmed or not: trimmed it is the same.
LEMMA CellWritten ==
  ASSUME TypeOK, NEW a \in DOMAIN memory
  PROVE  TrimCell(memory[a]) = Written(a)
BY TrimTwice DEF TypeOK, Written

\* An event type's cells are its variables and then its actions, all in a memory.
CellsIn(t, addresses) ==
  /\ Len(t.variables) \in Nat /\ DOMAIN t.variables = 1..Len(t.variables)
  /\ Len(t.actions) \in Nat /\ DOMAIN t.actions = 1..Len(t.actions)
  /\ Len(Cells(t)) = Len(t.variables) + Len(t.actions)
  /\ DOMAIN Cells(t) = 1..Len(Cells(t))
  /\ \A n \in DOMAIN Cells(t) :
       /\ Cells(t)[n] \in addresses
       /\ Cells(t)[n] = IF n \in DOMAIN t.variables THEN t.variables[n]
                        ELSE t.actions[n - Len(t.variables)]

\* Event types of a catalogue have their cells in its memory.
LEMMA CellsListed ==
  ASSUME NEW c \in Catalogues, NEW r \in c.requests, NEW i \in DOMAIN r.types
  PROVE  CellsIn(r.types[i], DOMAIN c.memory)
<1> DEFINE t == r.types[i]
<1> DEFINE M == DOMAIN c.memory
<1>1. t \in Range(r.types)
  BY DEF Range
<1>2. t.variables \in Seq(M) /\ t.actions \in Seq(M)
  BY <1>1, CatalogueSettings
<1>3. /\ Len(t.variables) \in Nat /\ DOMAIN t.variables = 1..Len(t.variables)
      /\ Len(t.actions) \in Nat /\ DOMAIN t.actions = 1..Len(t.actions)
  BY <1>2, LenProperties
<1>4. /\ Cells(t) \in Seq(M)
      /\ Len(Cells(t)) = Len(t.variables) + Len(t.actions)
      /\ \A n \in 1..(Len(t.variables) + Len(t.actions)) :
           Cells(t)[n] = IF n <= Len(t.variables) THEN t.variables[n]
                         ELSE t.actions[n - Len(t.variables)]
  BY <1>2, ConcatProperties DEF Cells
<1>5. DOMAIN Cells(t) = 1..Len(Cells(t)) /\ \A n \in 1..Len(Cells(t)) : Cells(t)[n] \in M
  BY <1>4, LenProperties, ElementOfSeq
<1> HIDE DEF t, M
<1>6. \A n \in DOMAIN Cells(t) :
        Cells(t)[n] = IF n \in DOMAIN t.variables THEN t.variables[n]
                      ELSE t.actions[n - Len(t.variables)]
  <2> TAKE n \in DOMAIN Cells(t)
  <2>1. n \in 1..(Len(t.variables) + Len(t.actions))
    BY <1>4, <1>5
  <2>2. n \in DOMAIN t.variables <=> n <= Len(t.variables)
    BY <1>3, <2>1
  <2> QED
    BY <1>4, <2>1, <2>2
<1>7. CellsIn(t, M)
  BY <1>3, <1>4, <1>5, <1>6 DEF CellsIn
<1> QED
  BY <1>7 DEF t, M

\* How many they are.
LEMMA CellsCounted ==
  ASSUME NEW t, NEW addresses, CellsIn(t, addresses)
  PROVE  /\ Len(t.variables) \in Nat /\ DOMAIN t.variables = 1..Len(t.variables)
         /\ Len(t.actions) \in Nat /\ DOMAIN t.actions = 1..Len(t.actions)
         /\ Len(Cells(t)) = Len(t.variables) + Len(t.actions)
         /\ Len(Cells(t)) \in Nat /\ DOMAIN Cells(t) = 1..Len(Cells(t))
<1>1. /\ Len(t.variables) \in Nat /\ Len(t.actions) \in Nat
      /\ Len(Cells(t)) = Len(t.variables) + Len(t.actions)
  BY DEF CellsIn
<1>2. ASSUME NEW v \in Nat, NEW a \in Nat PROVE v + a \in Nat
  OBVIOUS
<1> QED
  BY <1>1, <1>2 DEF CellsIn

\* Where they are.
LEMMA CellsPlaced ==
  ASSUME NEW t, NEW addresses, CellsIn(t, addresses)
  PROVE  /\ DOMAIN t.variables \subseteq DOMAIN Cells(t)
         /\ (Len(t.variables) + 1)..Len(Cells(t)) \subseteq DOMAIN Cells(t)
<1>1. ASSUME NEW v \in Nat, NEW a \in Nat
      PROVE  1..v \subseteq 1..(v + a) /\ (v + 1)..(v + a) \subseteq 1..(v + a)
  OBVIOUS
<1> QED
  BY <1>1, CellsCounted

\* An action comes that far behind the variables; the contents come last.
LEMMA ActionPlaced ==
  ASSUME NEW t, NEW addresses, CellsIn(t, addresses)
  PROVE  /\ Len(Cells(t)) + 1 \in Turns(t)
         /\ \A n \in DOMAIN t.actions :
              \E m \in (Len(t.variables) + 1)..Len(Cells(t)) :
                m \in Turns(t) /\ m \in DOMAIN Cells(t) /\ Cells(t)[m] = t.actions[n]
<1> DEFINE v == Len(t.variables)
<1> DEFINE a == Len(t.actions)
<1>1. /\ v \in Nat /\ DOMAIN t.variables = 1..v
      /\ a \in Nat /\ DOMAIN t.actions = 1..a
      /\ Len(Cells(t)) = v + a /\ DOMAIN Cells(t) = 1..(v + a)
      /\ Turns(t) = 0..((v + a) + 1)
  BY CellsCounted DEF Turns
<1>2. \A m \in DOMAIN Cells(t) :
        Cells(t)[m] = IF m \in DOMAIN t.variables THEN t.variables[m] ELSE t.actions[m - v]
  BY DEF CellsIn
<1> HIDE DEF v, a
<1>3. Len(Cells(t)) + 1 \in Turns(t)
  BY <1>1
<1>4. ASSUME NEW n \in DOMAIN t.actions
      PROVE  \E m \in (v + 1)..Len(Cells(t)) :
               m \in Turns(t) /\ m \in DOMAIN Cells(t) /\ Cells(t)[m] = t.actions[n]
  <2>1. n \in 1..a
    BY <1>1
  <2>2. /\ v + n \in (v + 1)..(v + a) /\ v + n \in 0..((v + a) + 1)
        /\ v + n \in 1..(v + a) /\ v + n \notin 1..v /\ (v + n) - v = n
    BY <1>1, <2>1
  <2>3. Cells(t)[v + n] = t.actions[n]
    BY <1>1, <1>2, <2>2
  <2> QED
    BY <1>1, <2>2, <2>3
<1> QED
  BY <1>3, <1>4 DEF v

\* So has the event type looked at.
LEMMA TypeListed ==
  ASSUME TypeOK, index \in DOMAIN request.types
  PROVE  CellsIn(Type, DOMAIN memory)
<1>1. /\ catalogue \in Catalogues /\ request \in catalogue.requests
      /\ DOMAIN memory = DOMAIN catalogue.memory
  BY DEF TypeOK
<1> QED
  BY <1>1, CellsListed DEF Type

\* A request's event types and rules are lists.
LEMMA RequestListed ==
  ASSUME NEW c \in Catalogues, NEW r \in c.requests
  PROVE  /\ Len(r.types) \in Nat /\ DOMAIN r.types = 1..Len(r.types)
         /\ Len(r.rules) \in Nat /\ DOMAIN r.rules = 1..Len(r.rules)
<1>1. r.types \in Seq(Range(r.types)) /\ r.rules \in Seq(Range(r.rules))
  BY CatalogueSettings
<1> QED
  BY <1>1, LenProperties

\* While a validation is among the event types the index is one of theirs.
LEMMA InTypeIndexed == TypeOK /\ InType => index \in DOMAIN request.types
BY RequestListed DEF TypeOK, InType
-----------------------------------------------------------------------------
(* Faults                                                                  *)

\* FaultsAt, turn by turn.
LEMMA FaultsPlaced ==
  ASSUME NEW t, NEW addresses, CellsIn(t, addresses), NEW cell, NEW keys
  PROVE  /\ FaultsAt(t, 0, cell, keys) = HeadFaults(t)
         /\ \A n \in DOMAIN t.variables :
              FaultsAt(t, n, cell, keys) = VariableFaults(cell, keys)
         /\ \A n \in (Len(t.variables) + 1)..Len(Cells(t)) :
              FaultsAt(t, n, cell, keys) = ActionFaults(t, cell)
         /\ FaultsAt(t, Len(Cells(t)) + 1, cell, keys) = ContentFaults(t, keys)
<1> DEFINE v == Len(t.variables)
<1> DEFINE k == Len(Cells(t))
<1>1. /\ v \in Nat /\ Len(t.actions) \in Nat /\ k = v + Len(t.actions)
      /\ DOMAIN t.variables = 1..v
  BY CellsCounted
<1>2. \A n : FaultsAt(t, n, cell, keys) =
              CASE n = 0 -> HeadFaults(t)
                [] n \in 1..v -> VariableFaults(cell, keys)
                [] n \in (v + 1)..k -> ActionFaults(t, cell)
                [] n > k -> ContentFaults(t, keys)
  BY DEF FaultsAt
<1> HIDE DEF v, k
<1>3. FaultsAt(t, 0, cell, keys) = HeadFaults(t)
  BY <1>1, <1>2
<1>4. ASSUME NEW n \in 1..v
      PROVE  FaultsAt(t, n, cell, keys) = VariableFaults(cell, keys)
  BY <1>1, <1>2
<1>5. ASSUME NEW n \in (v + 1)..k
      PROVE  FaultsAt(t, n, cell, keys) = ActionFaults(t, cell)
  BY <1>1, <1>2
<1>6. FaultsAt(t, k + 1, cell, keys) = ContentFaults(t, keys)
  BY <1>1, <1>2
<1> QED
  BY <1>1, <1>3, <1>4, <1>5, <1>6 DEF v, k

\* A label can be missing of an action only.
LEMMA LabelMissingOfAction ==
  ASSUME TypeOK, index \in DOMAIN request.types,
         NEW fault \in FaultsHere, fault.what = "label_missing"
  PROVE  position \in DOMAIN Cells(Type)
<1>1. CellsIn(Type, DOMAIN memory)
  BY TypeListed
<1>2. position \in 0..(Len(Cells(Type)) + 1)
  BY DEF TypeOK
<1>3. fault \notin HeadFaults(Type)
  BY DEF HeadFaults, Fault
<1>4. fault \notin ContentFaults(Type, declared)
  <2>1. \A l \in DOMAIN Type.locales : fault \notin ContentFault(Type, l, declared)
    BY DEF ContentFault, Fault
  <2> QED
    BY <2>1 DEF ContentFaults
<1>5. position # 0
  BY <1>1, <1>3, FaultsPlaced DEF FaultsHere
<1>6. position # Len(Cells(Type)) + 1
  BY <1>1, <1>4, FaultsPlaced DEF FaultsHere
<1> QED
  BY <1>1, <1>2, <1>5, <1>6, CellsCounted

\* The faults found are those of the event type as it was written.
LEMMA FaultsAgree ==
  ASSUME TypeOK, PassedTurns, index \in DOMAIN request.types
  PROVE  FaultsHere = WrittenFaults(Type, position)
<1>1. CellsIn(Type, DOMAIN memory)
  BY TypeListed
<1>2. CASE position = 0
  BY <1>1, <1>2, FaultsPlaced DEF FaultsHere, WrittenFaults
<1>3. CASE position # 0
  <2>1. position > 0
    BY <1>3 DEF TypeOK
  <2>2. declared = WrittenKeys(Type, position)
    BY <2>1 DEF PassedTurns
  <2>3. position \in DOMAIN Cells(Type) => Cell = Written(Cells(Type)[position])
    BY <1>1, CellWritten DEF CellsIn, Cell
  <2>4. position \notin DOMAIN Cells(Type) => Cell = <<>>
    BY DEF Cell
  <2> QED
    BY <2>2, <2>3, <2>4 DEF FaultsHere, WrittenFaults
<1> QED
  BY <1>2, <1>3
-----------------------------------------------------------------------------
(* What the catalogue alone determines                                     *)

\* Facts about a catalogue as it was written outlast every step that leaves it alone.
LEMMA WrittenStays ==
  ASSUME UNCHANGED catalogue
  PROVE  /\ \A a : Written(a)' = Written(a)
         /\ \A t, n : WrittenKeys(t, n)' = WrittenKeys(t, n)
         /\ \A t, n : WrittenFaults(t, n)' = WrittenFaults(t, n)
         /\ \A t : InOrder(t)' = InOrder(t)
<1>1. \A a : Written(a)' = Written(a)
  BY DEF Written
<1>2. \A t, n : WrittenKeys(t, n)' = WrittenKeys(t, n)
  BY DEF Written, WrittenKeys
<1>3. \A t, n : WrittenFaults(t, n)' = WrittenFaults(t, n)
  BY DEF Written, WrittenKeys, WrittenFaults
<1>4. \A t : InOrder(t)' = InOrder(t)
  BY DEF Written, WrittenKeys, WrittenFaults, InOrder
<1> QED
  BY <1>1, <1>2, <1>3, <1>4

\* So do the verdicts there may be on one request.
LEMMA RightfulStays ==
  ASSUME UNCHANGED <<catalogue, request>>
  PROVE  /\ \A n : TypesFine(n)' = TypesFine(n)
         /\ Rightful(verdict') => Rightful(verdict)'
<1>1. \A n : TypesFine(n)' = TypesFine(n)
  BY DEF TypesFine, Repeats, InOrder, WrittenFaults, WrittenKeys, Written
<1>2. Keys' = Keys /\ \A i : Repeats(i)' = Repeats(i)
  BY DEF Keys, Repeats
<1>3. Rightful(verdict') => Rightful(verdict)'
  BY <1>1, <1>2, WrittenStays DEF Rightful
<1> QED
  BY <1>1, <1>3
-----------------------------------------------------------------------------
(* The memory                                                              *)

\* All that a step does to the memory is to trim cells of it.
Trimming == /\ catalogue' = catalogue
            /\ DOMAIN memory' = DOMAIN memory
            /\ \A a \in DOMAIN memory : memory'[a] \in {memory[a], Written(a)}

\* The cell looked at is written back trimmed.
LEMMA CellWrittenBack ==
  ASSUME TypeOK, index \in DOMAIN request.types, position \in DOMAIN Cells(Type),
         memory' = [memory EXCEPT ![Cells(Type)[position]] = Cell]
  PROVE  /\ DOMAIN memory' = DOMAIN memory
         /\ \A a \in DOMAIN memory :
              memory'[a] = IF a = Cells(Type)[position] THEN Written(a) ELSE memory[a]
<1>1. Cells(Type)[position] \in DOMAIN memory
  BY TypeListed DEF CellsIn
<1>2. Cell = Written(Cells(Type)[position])
  BY <1>1, CellWritten DEF Cell
<1> QED
  BY <1>1, <1>2

\* Every step trims, or leaves the memory alone.
LEMMA StepTrims == ASSUME TypeOK, [Next]_vars PROVE Trimming
<1>1. CASE UNCHANGED <<catalogue, memory>>
  BY <1>1 DEF Trimming
<1>2. ASSUME UNCHANGED catalogue, index \in DOMAIN request.types,
             position \in DOMAIN Cells(Type),
             memory' = [memory EXCEPT ![Cells(Type)[position]] = Cell]
      PROVE  Trimming
  BY <1>2, CellWrittenBack DEF Trimming
<1>3. CASE Enter \/ Duplicate \/ Proceed \/ RuleFails \/ Accept \/ Again
  BY <1>1, <1>3 DEF Enter, Duplicate, Proceed, RuleFails, Accept, Again, Step, Settle, Rules
<1>4. CASE Declare \/ Offer
  <2>1. index \in DOMAIN request.types
    BY <1>4, InTypeIndexed DEF Declare, Offer
  <2>2. position \in DOMAIN Cells(Type)
    <3>1. CellsIn(Type, DOMAIN memory)
      BY <2>1, TypeListed
    <3> QED
      BY <1>4, <3>1, CellsPlaced DEF Declare, Offer
  <2> QED
    BY <1>2, <1>4, <2>1, <2>2 DEF Declare, Offer, Step
<1>5. CASE Fail
  <2>1. index \in DOMAIN request.types /\ UNCHANGED catalogue
    BY <1>5, InTypeIndexed DEF Fail, Settle
  <2>2. PICK fault \in FaultsHere :
          memory' = IF fault.what = "label_missing"
                    THEN [memory EXCEPT ![Cells(Type)[position]] = Cell] ELSE memory
    BY <1>5 DEF Fail
  <2> QED
    BY <1>1, <1>2, <2>1, <2>2, LabelMissingOfAction
<1>6. CASE UNCHANGED vars
  BY <1>1, <1>6 DEF vars
<1> QED
  BY <1>3, <1>4, <1>5, <1>6 DEF Next

\* So cells once trimmed stay trimmed, the cells of an event type of the catalogue too.
LEMMA TrimmedStays ==
  ASSUME TypeOK, Trimming
  PROVE  /\ \A a \in DOMAIN memory : memory[a] = Written(a) => memory'[a] = Written(a)'
         /\ \A r \in catalogue.requests : \A i \in DOMAIN r.types :
              Trimmed(r.types[i]) => Trimmed(r.types[i])'
<1>1. \A a : Written(a)' = Written(a)
  BY WrittenStays DEF Trimming
<1>2. \A a \in DOMAIN memory : memory[a] = Written(a) => memory'[a] = Written(a)'
  BY <1>1 DEF Trimming
<1>3. ASSUME NEW r \in catalogue.requests, NEW i \in DOMAIN r.types, Trimmed(r.types[i])
      PROVE  Trimmed(r.types[i])'
  <2>1. CellsIn(r.types[i], DOMAIN memory)
    BY CellsListed DEF TypeOK
  <2> QED
    BY <1>2, <1>3, <2>1 DEF Trimmed, CellsIn
<1> QED
  BY <1>2, <1>3
-----------------------------------------------------------------------------
(* Types                                                                   *)

\* Where a validation stands.
Standing ==
  /\ index \in 1..(Len(request.types) + 1)
  /\ position \in 0..(IF index \in DOMAIN request.types THEN Len(Cells(Type)) + 1 ELSE 0)

\* A validation stands somewhere when it begins with an event type, or goes on in one.
LEMMA StandsAtStart ==
  ASSUME NEW c \in Catalogues, NEW r \in c.requests, NEW i \in 1..(Len(r.types) + 1)
  PROVE  0 \in 0..(IF i \in DOMAIN r.types THEN Len(Cells(r.types[i])) + 1 ELSE 0)
<1>1. CASE i \in DOMAIN r.types
  <2>1. Len(Cells(r.types[i])) \in Nat
    BY <1>1, CellsListed, CellsCounted
  <2> QED
    BY <1>1, <2>1
<1>2. CASE i \notin DOMAIN r.types
  BY <1>2
<1> QED
  BY <1>1, <1>2

\* It stands somewhere after a turn too.
LEMMA StandsOn ==
  ASSUME TypeOK, UNCHANGED <<request, index>>, index \in DOMAIN request.types,
         position \in {0} \cup DOMAIN Cells(Type), position' = position + 1
  PROVE  Standing'
<1>1. Len(Cells(Type)) \in Nat /\ DOMAIN Cells(Type) = 1..Len(Cells(Type))
  BY TypeListed, CellsCounted
<1>2. position' \in 0..(Len(Cells(Type)) + 1)
  BY <1>1
<1> QED
  BY <1>2 DEF Standing, TypeOK, Type

\* A trimmed cell stays one that was written, trimmed or not.
LEMMA MemoryTypeStep ==
  ASSUME TypeOK, Trimming
  PROVE  /\ DOMAIN memory' = DOMAIN catalogue'.memory
         /\ \A a \in DOMAIN memory' :
              memory'[a] \in {catalogue'.memory[a], TrimCell(catalogue'.memory[a])}
BY DEF TypeOK, Trimming, Written

\* Types are right at first, and after every step.
LEMMA InitTypeOK == Init => TypeOK
<1> SUFFICES ASSUME Init PROVE TypeOK
  OBVIOUS
<1> USE DEF Init
<1>1. index \in 1..(Len(request.types) + 1)
  BY RequestListed
<1>2. position \in 0..(IF index \in DOMAIN request.types THEN Len(Cells(Type)) + 1 ELSE 0)
  BY <1>1, StandsAtStart DEF Type
<1>3. validations \in 1..MaxValidations
  <2>1. MaxValidations \in Nat \ {0}
    BY CatalogueSettings
  <2> QED
    BY <2>1
<1> QED
  BY <1>1, <1>2, <1>3 DEF TypeOK

LEMMA TypeOKStep == TypeOK /\ [Next]_vars => TypeOK'
<1> SUFFICES ASSUME TypeOK, [Next]_vars PROVE TypeOK'
  OBVIOUS
<1>1. Trimming
  BY StepTrims
<1>2. CASE Enter
  <2>1. index \in DOMAIN request.types
    BY <1>2, InTypeIndexed DEF Enter
  <2>2. Standing'
    BY <1>2, <2>1, StandsOn DEF Enter, Step
  <2> QED
    BY <1>1, <1>2, <2>2, MemoryTypeStep DEF Enter, Step, TypeOK, Standing, Keys
<1>3. CASE Declare
  <2>1. index \in DOMAIN request.types
    BY <1>3, InTypeIndexed DEF Declare
  <2>2. CellsIn(Type, DOMAIN memory)
    BY <2>1, TypeListed
  <2>3. Standing'
    BY <1>3, <2>1, <2>2, CellsPlaced, StandsOn DEF Declare, Step
  <2>4. VariableFaults(Cell, declared) = {}
    BY <1>3, <2>2, FaultsPlaced DEF Declare, FaultsHere
  <2>5. Cell.key.core \in StableKeys
    BY <2>4 DEF VariableFaults, Fault
  <2> QED
    BY <1>1, <1>3, <2>3, <2>5, MemoryTypeStep DEF Declare, Step, TypeOK, Standing, Keys
<1>4. CASE Offer
  <2>1. index \in DOMAIN request.types
    BY <1>4, InTypeIndexed DEF Offer
  <2>2. Standing'
    BY <1>4, <2>1, TypeListed, CellsPlaced, StandsOn DEF Offer, Step
  <2> QED
    BY <1>1, <1>4, <2>2, MemoryTypeStep DEF Offer, Step, TypeOK, Standing, Keys
<1>5. CASE Fail \/ Duplicate
  BY <1>1, <1>5, MemoryTypeStep DEF Fail, Duplicate, Settle, TypeOK, Type, Keys
<1>6. CASE Proceed
  <2>1. index \in DOMAIN request.types
    BY <1>6, InTypeIndexed DEF Proceed, InContents
  <2>2. index' \in 1..(Len(request.types) + 1)
    <3>1. Len(request.types) \in Nat /\ DOMAIN request.types = 1..Len(request.types)
      BY RequestListed DEF TypeOK
    <3> QED
      BY <1>6, <2>1, <3>1 DEF Proceed
  <2>3. Standing'
    BY <1>6, <2>2, StandsAtStart DEF Proceed, Standing, Type, TypeOK
  <2>4. seen' \subseteq Keys'
    BY <1>6, <2>1 DEF Proceed, TypeOK, Keys, Type
  <2> QED
    BY <1>1, <1>6, <2>3, <2>4, MemoryTypeStep DEF Proceed, TypeOK, Standing
<1>7. CASE RuleFails \/ Accept
  <2>1. /\ UNCHANGED <<catalogue, request, index, position, declared, seen, validations>>
        /\ accepted' \subseteq accepted \cup {request}
    BY <1>7 DEF RuleFails, Accept, Rules, Settle
  <2> QED
    BY <1>1, <2>1, MemoryTypeStep DEF TypeOK, Type, Keys
<1>8. CASE Again
  <2>1. index' \in 1..(Len(request'.types) + 1)
    BY <1>8, RequestListed DEF Again, TypeOK
  <2>2. Standing'
    BY <1>8, <2>1, StandsAtStart DEF Again, Standing, Type, TypeOK
  <2>3. validations' \in 1..MaxValidations
    <3>1. MaxValidations \in Nat \ {0}
      BY CatalogueSettings
    <3> QED
      BY <1>8, <3>1 DEF Again, TypeOK
  <2> QED
    BY <1>1, <1>8, <2>2, <2>3, MemoryTypeStep DEF Again, TypeOK, Standing
<1>9. CASE UNCHANGED vars
  BY <1>9 DEF vars, TypeOK, Type, Keys
<1> QED
  BY <1>2, <1>3, <1>4, <1>5, <1>6, <1>7, <1>8, <1>9 DEF Next

\* Every variable keeps its type; the memory holds every cell as it was written or
\* trimmed (value.Variables[index] = variable, value.Actions[actionIndex] = descriptor).
THEOREM TypeCorrect == Spec => []TypeOK
BY InitTypeOK, TypeOKStep, PTL DEF Spec
-----------------------------------------------------------------------------
(* The event types passed                                                  *)

\* Nothing was passed when a validation begins.
LEMMA NonePassed ==
  ASSUME TypeOK, index = 1, position = 0, seen = {}
  PROVE  PassedTypes /\ PassedTurns
<1>1. \A n : n \notin 1..(index - 1) /\ n \notin 0..(position - 1)
  OBVIOUS
<1>2. PassedTypes
  BY <1>1 DEF PassedTypes, TypesFine
<1>3. index \in DOMAIN request.types => DOMAIN Cells(Type) = 1..Len(Cells(Type))
  BY TypeListed, CellsCounted
<1>4. \A k : \A n \in 1..k : ~(n < position)
  OBVIOUS
<1> QED
  BY <1>1, <1>2, <1>3, <1>4 DEF PassedTurns

\* No turn was when the loop comes to the next event type.
LEMMA NoTurnPassed ==
  ASSUME TypeOK', position' = 0
  PROVE  PassedTurns'
<1>1. \A n : n \notin 0..(position' - 1)
  OBVIOUS
<1>2. index' \in DOMAIN request'.types => DOMAIN Cells(Type') = 1..Len(Cells(Type'))
  <2>1. catalogue' \in Catalogues /\ request' \in catalogue'.requests
    BY DEF TypeOK
  <2> QED
    BY <2>1, CellsListed, CellsCounted DEF Type
<1>3. \A k : \A n \in 1..k : ~(n < position')
  OBVIOUS
<1> QED
  BY <1>1, <1>2, <1>3 DEF PassedTurns

\* The keys of the variables before the next turn.
LEMMA WrittenKeysNext ==
  ASSUME NEW t, NEW addresses, CellsIn(t, addresses), NEW n \in Nat
  PROVE  /\ n = 0 => WrittenKeys(t, n + 1) = {}
         /\ n \in DOMAIN t.variables =>
              WrittenKeys(t, n + 1) = WrittenKeys(t, n) \cup {Written(t.variables[n]).key.core}
         /\ n > Len(t.variables) => WrittenKeys(t, n + 1) = WrittenKeys(t, n)
<1> DEFINE v == Len(t.variables)
<1> DEFINE Key(k) == Written(t.variables[k]).key.core
<1>1. v \in Nat /\ DOMAIN t.variables = 1..v
  BY CellsCounted
<1>2. /\ WrittenKeys(t, n) = {Key(k) : k \in (1..(n - 1)) \cap (1..v)}
      /\ WrittenKeys(t, n + 1) = {Key(k) : k \in (1..((n + 1) - 1)) \cap (1..v)}
  BY <1>1 DEF WrittenKeys
<1> HIDE DEF v, Key
<1>3. CASE n = 0
  <2>1. (1..((n + 1) - 1)) \cap (1..v) = {}
    BY <1>3
  <2> QED
    BY <1>1, <1>2, <1>3, <2>1 DEF v
<1>4. CASE n \in 1..v
  <2>1. (1..((n + 1) - 1)) \cap (1..v) = ((1..(n - 1)) \cap (1..v)) \cup {n}
    BY <1>1, <1>4
  <2>2. WrittenKeys(t, n + 1) = WrittenKeys(t, n) \cup {Key(n)}
    BY <1>2, <2>1
  <2>3. n # 0 /\ ~(n > v)
    BY <1>1, <1>4
  <2> QED
    BY <1>1, <2>2, <2>3 DEF v, Key
<1>5. CASE n > v
  <2>1. (1..((n + 1) - 1)) \cap (1..v) = (1..(n - 1)) \cap (1..v)
    BY <1>1, <1>5
  <2>2. n # 0 /\ n \notin 1..v
    BY <1>1, <1>5
  <2> QED
    BY <1>1, <1>2, <2>1, <2>2
<1> QED
  BY <1>1, <1>3, <1>4, <1>5

\* The turns passed stay in order, and their cells trimmed.
LEMMA PassedStay ==
  ASSUME TypeOK, Trimming, PassedTypes, UNCHANGED <<request, index, seen>>
  PROVE  PassedTypes'
<1>1. UNCHANGED <<catalogue, request>>
  BY DEF Trimming
<1>2. TypesFine(index - 1)'
  BY <1>1, RightfulStays DEF PassedTypes
<1>3. ASSUME NEW i \in 1..(index - 1) PROVE Trimmed(request.types[i])'
  <2>1. i \in DOMAIN request.types
    BY RequestListed DEF TypeOK
  <2> QED
    BY <2>1, TrimmedStays DEF TypeOK, PassedTypes
<1> QED
  BY <1>2, <1>3 DEF PassedTypes

\* So do those of the current event type.
LEMMA TurnsStay ==
  ASSUME TypeOK, Trimming, PassedTurns, UNCHANGED <<request, index, position, declared>>
  PROVE  PassedTurns'
<1> SUFFICES ASSUME index' \in DOMAIN request'.types
             PROVE  PassedTurns'
  BY DEF PassedTurns
<1>1. index \in DOMAIN request.types /\ Type' = Type
  BY DEF Type
<1>2. /\ \A t, n : WrittenFaults(t, n)' = WrittenFaults(t, n)
      /\ \A t, n : WrittenKeys(t, n)' = WrittenKeys(t, n)
  BY WrittenStays DEF Trimming
<1>3. ASSUME NEW n \in DOMAIN Cells(Type), n < position
      PROVE  memory'[Cells(Type)[n]] = Written(Cells(Type)[n])'
  <2>1. Cells(Type)[n] \in DOMAIN memory
    BY <1>1, TypeListed DEF CellsIn
  <2> QED
    BY <1>1, <1>3, <2>1, TrimmedStays DEF PassedTurns
<1> QED
  BY <1>1, <1>2, <1>3 DEF PassedTurns

\* One more turn is passed, in which nothing was at fault and the cell was trimmed.
LEMMA TurnPassed ==
  ASSUME TypeOK, Trimming, PassedTurns, index \in DOMAIN request.types,
         UNCHANGED <<request, index>>, position' = position + 1,
         FaultsHere = {},
         declared' = WrittenKeys(Type, position + 1),
         position \in DOMAIN Cells(Type) =>
           memory'[Cells(Type)[position]] = Written(Cells(Type)[position])
  PROVE  PassedTurns'
<1>1. position \in Nat /\ DOMAIN Cells(Type) \subseteq Int
  <2>1. Len(Cells(Type)) \in Nat /\ DOMAIN Cells(Type) = 1..Len(Cells(Type))
    BY TypeListed, CellsCounted
  <2>2. position \in 0..(Len(Cells(Type)) + 1)
    BY DEF TypeOK
  <2> QED
    BY <2>1, <2>2
<1>2. /\ \A a : Written(a)' = Written(a)
      /\ \A t, n : WrittenFaults(t, n)' = WrittenFaults(t, n)
      /\ \A t, n : WrittenKeys(t, n)' = WrittenKeys(t, n)
  BY WrittenStays DEF Trimming
<1>3. Type' = Type
  BY DEF Type
<1>4. ASSUME NEW n \in 0..(position' - 1) PROVE WrittenFaults(Type, n) = {}
  <2>1. n \in 0..(position - 1) \/ n = position
    BY <1>1
  <2> QED
    BY <2>1, FaultsAgree DEF PassedTurns
<1>5. ASSUME NEW n \in DOMAIN Cells(Type), n < position'
      PROVE  memory'[Cells(Type)[n]] = Written(Cells(Type)[n])
  <2>1. n < position \/ n = position
    BY <1>1, <1>5
  <2>2. Cells(Type)[n] \in DOMAIN memory
    BY TypeListed DEF CellsIn
  <2> QED
    BY <1>2, <2>1, <2>2, TrimmedStays DEF PassedTurns
<1> QED
  BY <1>2, <1>3, <1>4, <1>5 DEF PassedTurns

\* An event type all of whose turns were passed is in order, and is trimmed.
LEMMA TypePassed ==
  ASSUME TypeOK, PassedTurns, InContents
  PROVE  InOrder(Type) /\ Trimmed(Type)
<1>1. index \in DOMAIN request.types
  BY InTypeIndexed DEF InContents
<1>2. Len(Cells(Type)) \in Nat /\ DOMAIN Cells(Type) = 1..Len(Cells(Type))
  BY <1>1, TypeListed, CellsCounted
<1>3. position = Len(Cells(Type)) + 1
  <2>1. position \in 0..(Len(Cells(Type)) + 1) /\ position > Len(Cells(Type))
    BY <1>1 DEF TypeOK, InContents
  <2> QED
    BY <1>2, <2>1
<1>4. InOrder(Type)
  <2>1. \A n \in 0..(position - 1) : WrittenFaults(Type, n) = {}
    BY <1>1 DEF PassedTurns
  <2>2. WrittenFaults(Type, position) = {}
    BY <1>1, FaultsAgree DEF InContents
  <2>3. \A n \in Turns(Type) : n \in 0..(position - 1) \/ n = position
    BY <1>2, <1>3 DEF Turns
  <2> QED
    BY <2>1, <2>2, <2>3 DEF InOrder
<1>5. \A n \in DOMAIN Cells(Type) : n < position
  BY <1>2, <1>3
<1> QED
  BY <1>1, <1>4, <1>5 DEF PassedTurns, Trimmed

\* A key was seen when one of the event types before has it.
LEMMA SeenRepeats ==
  ASSUME TypeOK, PassedTypes, index \in DOMAIN request.types
  PROVE  Repeated <=> Repeats(index)
BY SameCore DEF PassedTypes, Repeated, Repeats, Type

\* Every step keeps what is known of the event types passed.
LEMMA PassedTypesStep == IInv /\ [Next]_vars => PassedTypes'
<1> SUFFICES ASSUME IInv, [Next]_vars PROVE PassedTypes'
  OBVIOUS
<1>1. TypeOK /\ PassedTypes /\ PassedTurns /\ Trimming
  BY StepTrims DEF IInv
<1>2. CASE UNCHANGED <<request, index, seen>>
  BY <1>1, <1>2, PassedStay
<1>3. CASE Enter \/ Declare \/ Offer \/ Fail \/ Duplicate \/ RuleFails \/ Accept
  BY <1>2, <1>3
     DEF Enter, Declare, Offer, Fail, Duplicate, RuleFails, Accept, Rules, Step, Settle
<1>4. CASE Proceed
  <2>1. index \in DOMAIN request.types
    BY <1>1, <1>4, InTypeIndexed DEF Proceed, InContents
  <2>2. index \in 1..Len(request.types) /\ DOMAIN request.types = 1..Len(request.types)
    BY <1>1, <2>1, RequestListed DEF TypeOK
  <2>3. index' = index + 1 /\ UNCHANGED <<catalogue, request, memory>>
    BY <1>4 DEF Proceed
  <2>4. \A i : i \in 1..(index' - 1) <=> i \in 1..(index - 1) \/ i = index
    BY <2>2, <2>3
  <2>5. InOrder(Type) /\ Trimmed(Type) /\ ~Repeats(index)
    BY <1>1, <1>4, <2>1, TypePassed, SeenRepeats DEF Proceed
  <2>6. TypesFine(index' - 1)
    BY <1>1, <2>4, <2>5 DEF PassedTypes, TypesFine, Type
  <2>7. TypesFine(index - 1)'
    BY <2>3, <2>6, RightfulStays
  <2>8. ASSUME NEW i \in 1..(index' - 1) PROVE Trimmed(request.types[i])'
    <3>1. Trimmed(request.types[i])
      BY <1>1, <2>4, <2>5 DEF PassedTypes, Type
    <3>2. i \in DOMAIN request.types
      <4>1. Len(request.types) \in Nat
        BY <1>1, RequestListed DEF TypeOK
      <4> QED
        BY <2>2, <2>3, <4>1
    <3> QED
      BY <1>1, <2>3, <3>1, <3>2, TrimmedStays DEF TypeOK
  <2>9. seen' = {TrimSpace(request.types[i].key).core : i \in 1..(index' - 1)}
    BY <1>1, <1>4, <2>4 DEF Proceed, PassedTypes, Type
  <2> QED
    BY <2>3, <2>7, <2>8, <2>9 DEF PassedTypes
<1>5. CASE Again
  <2>1. index' = 1 /\ seen' = {}
    BY <1>5 DEF Again
  <2>2. \A i : i \notin 1..(index' - 1)
    BY <2>1
  <2> QED
    BY <2>1, <2>2 DEF PassedTypes, TypesFine
<1>6. CASE UNCHANGED vars
  BY <1>2, <1>6 DEF vars
<1> QED
  BY <1>3, <1>4, <1>5, <1>6 DEF Next

\* Every step keeps what is known of the turns passed.
LEMMA PassedTurnsStep == IInv /\ [Next]_vars => PassedTurns'
<1> SUFFICES ASSUME IInv, [Next]_vars PROVE PassedTurns'
  OBVIOUS
<1>1. TypeOK /\ PassedTypes /\ PassedTurns /\ Trimming /\ TypeOK'
  BY StepTrims, TypeOKStep DEF IInv
<1>2. CASE UNCHANGED <<request, index, position, declared>>
  BY <1>1, <1>2, TurnsStay
<1>3. CASE Fail \/ Duplicate \/ RuleFails \/ Accept
  BY <1>2, <1>3 DEF Fail, Duplicate, RuleFails, Accept, Rules, Settle
<1>4. CASE Proceed \/ Again
  BY <1>1, <1>4, NoTurnPassed DEF Proceed, Again
<1>5. CASE Enter
  <2>1. index \in DOMAIN request.types
    BY <1>1, <1>5, InTypeIndexed DEF Enter
  <2>2. CellsIn(Type, DOMAIN memory)
    BY <1>1, <2>1, TypeListed
  <2>3. position = 0 /\ declared' = {} /\ FaultsHere = {}
    BY <1>5 DEF Enter
  <2>4. declared' = WrittenKeys(Type, position + 1)
    BY <2>2, <2>3, WrittenKeysNext
  <2>5. position \notin DOMAIN Cells(Type)
    BY <2>2, <2>3, CellsCounted
  <2> QED
    BY <1>1, <1>5, <2>1, <2>3, <2>4, <2>5, TurnPassed DEF Enter, Step
<1>6. CASE Declare \/ Offer
  <2>1. index \in DOMAIN request.types
    BY <1>1, <1>6, InTypeIndexed DEF Declare, Offer
  <2>2. CellsIn(Type, DOMAIN memory)
    BY <1>1, <2>1, TypeListed
  <2>3. position \in DOMAIN Cells(Type) /\ position \in Nat /\ position > 0
    <3>1. position \in DOMAIN Cells(Type)
      BY <1>6, <2>2, CellsPlaced DEF Declare, Offer
    <3> QED
      BY <2>2, <3>1, CellsCounted
  <2>4. memory'[Cells(Type)[position]] = Written(Cells(Type)[position])
    <3>1. Cells(Type)[position] \in DOMAIN memory
      BY <2>2, <2>3 DEF CellsIn
    <3> QED
      BY <1>1, <1>6, <2>1, <2>3, <3>1, CellWrittenBack DEF Declare, Offer
  <2>5. declared = WrittenKeys(Type, position)
    BY <1>1, <2>1, <2>3 DEF PassedTurns
  <2>6. declared' = WrittenKeys(Type, position + 1)
    <3>1. CASE Declare
      <4>1. position \in DOMAIN Type.variables /\ Cells(Type)[position] = Type.variables[position]
        BY <2>2, <2>3, <3>1 DEF Declare, CellsIn
      <4>2. Cell = Written(Type.variables[position])
        <5>1. Cells(Type)[position] \in DOMAIN memory
          BY <2>2, <2>3 DEF CellsIn
        <5> QED
          BY <1>1, <2>3, <4>1, <5>1, CellWritten DEF Cell
      <4> QED
        BY <2>2, <2>3, <2>5, <3>1, <4>1, <4>2, WrittenKeysNext DEF Declare
    <3>2. CASE Offer
      <4>1. position > Len(Type.variables)
        <5>1. Len(Type.variables) \in Nat
          BY <2>2, CellsCounted
        <5>2. position \in (Len(Type.variables) + 1)..Len(Cells(Type))
          BY <3>2 DEF Offer
        <5> QED
          BY <5>1, <5>2
      <4> QED
        BY <2>2, <2>3, <2>5, <3>2, <4>1, WrittenKeysNext DEF Offer
    <3> QED
      BY <1>6, <3>1, <3>2
  <2> QED
    BY <1>1, <1>6, <2>1, <2>4, <2>6, TurnPassed DEF Declare, Offer, Step
<1>7. CASE UNCHANGED vars
  BY <1>2, <1>7 DEF vars
<1> QED
  BY <1>3, <1>4, <1>5, <1>6, <1>7 DEF Next
-----------------------------------------------------------------------------
(* What was accepted                                                       *)

\* Behind the last event type every one was passed, and every key was seen.
LEMMA AllPassed ==
  ASSUME TypeOK, PassedTypes, index > Len(request.types)
  PROVE  /\ TypesFine(Len(request.types))
         /\ \A i \in DOMAIN request.types : Trimmed(request.types[i])
         /\ seen = Keys
<1>1. /\ Len(request.types) \in Nat /\ DOMAIN request.types = 1..Len(request.types)
      /\ index \in 1..(Len(request.types) + 1)
  BY RequestListed DEF TypeOK
<1>2. index - 1 = Len(request.types)
  BY <1>1
<1> QED
  BY <1>1, <1>2 DEF PassedTypes, Keys

\* The request is in order when its event types and rules are.
LEMMA RequestFine ==
  ASSUME TypeOK, PassedTypes, Accept
  PROVE  /\ \A i \in DOMAIN request.types : InOrder(request.types[i]) /\ Trimmed(request.types[i])
         /\ \A i, j \in DOMAIN request.types :
              TrimSpace(request.types[i].key) = TrimSpace(request.types[j].key) => i = j
         /\ \A n \in DOMAIN request.rules : RuleFault(request.rules[n], KeysOf(request)) = "none"
<1>1. /\ Len(request.types) \in Nat /\ DOMAIN request.types = 1..Len(request.types)
      /\ Len(request.rules) \in Nat /\ DOMAIN request.rules = 1..Len(request.rules)
  BY RequestListed DEF TypeOK
<1>2. /\ TypesFine(Len(request.types))
      /\ \A i \in DOMAIN request.types : Trimmed(request.types[i])
      /\ seen = KeysOf(request)
  BY AllPassed DEF Accept, Rules, Keys, KeysOf
<1>3. ASSUME NEW i \in DOMAIN request.types, NEW j \in DOMAIN request.types, j < i
      PROVE  TrimSpace(request.types[i].key) # TrimSpace(request.types[j].key)
  <2>1. j \in 1..(i - 1) /\ i \in 1..Len(request.types)
    BY <1>1, <1>3
  <2> QED
    BY <1>2, <2>1 DEF TypesFine, Repeats
<1>4. \A i, j \in DOMAIN request.types :
        TrimSpace(request.types[i].key) = TrimSpace(request.types[j].key) => i = j
  <2>1. \A i, j \in DOMAIN request.types : i < j \/ j < i \/ i = j
    BY <1>1
  <2> QED
    BY <1>3, <2>1
<1>5. \A n \in DOMAIN request.rules : RuleFault(request.rules[n], KeysOf(request)) = "none"
  <2>1. RulesFine(request.rules, KeysOf(request), Len(request.rules) + 1)
    BY <1>2 DEF Accept
  <2>2. \A n \in DOMAIN request.rules : n \in 1..((Len(request.rules) + 1) - 1)
    BY <1>1
  <2> QED
    BY <2>1, <2>2 DEF RulesFine
<1> QED
  BY <1>1, <1>2, <1>4, <1>5 DEF TypesFine

\* What was accepted was written so, and its cells stay trimmed.
LEMMA AcceptedFineStep == IInv /\ [Next]_vars => AcceptedFine'
<1> SUFFICES ASSUME IInv, [Next]_vars PROVE AcceptedFine'
  OBVIOUS
<1>1. TypeOK /\ PassedTypes /\ AcceptedFine /\ Trimming
  BY StepTrims DEF IInv
<1>2. ASSUME NEW r \in catalogue.requests,
             /\ \A i \in DOMAIN r.types : InOrder(r.types[i]) /\ Trimmed(r.types[i])
      PROVE  \A i \in DOMAIN r.types : InOrder(r.types[i])' /\ Trimmed(r.types[i])'
  BY <1>1, <1>2, TrimmedStays, WrittenStays DEF Trimming
<1>3. CASE accepted' = accepted
  <2>1. \A r \in accepted : r \in catalogue.requests
    BY <1>1 DEF TypeOK
  <2> QED
    BY <1>1, <1>2, <1>3, <2>1 DEF AcceptedFine
<1>4. CASE Enter \/ Declare \/ Offer \/ Fail \/ Duplicate \/ Proceed \/ RuleFails \/ Again
  BY <1>3, <1>4
     DEF Enter, Declare, Offer, Fail, Duplicate, Proceed, RuleFails, Again, Rules, Step
<1>5. CASE Accept
  <2>1. accepted' = accepted \cup {request}
    BY <1>5 DEF Accept, Rules
  <2>2. \A r \in accepted' : r \in catalogue.requests
    BY <1>1, <2>1 DEF TypeOK
  <2>3. /\ \A i \in DOMAIN request.types : InOrder(request.types[i]) /\ Trimmed(request.types[i])
        /\ \A i, j \in DOMAIN request.types :
             TrimSpace(request.types[i].key) = TrimSpace(request.types[j].key) => i = j
        /\ \A n \in DOMAIN request.rules : RuleFault(request.rules[n], KeysOf(request)) = "none"
    BY <1>1, <1>5, RequestFine
  <2>4. ASSUME NEW r \in accepted'
        PROVE  /\ \A i \in DOMAIN r.types : InOrder(r.types[i]) /\ Trimmed(r.types[i])
               /\ \A i, j \in DOMAIN r.types :
                    TrimSpace(r.types[i].key) = TrimSpace(r.types[j].key) => i = j
               /\ \A n \in DOMAIN r.rules : RuleFault(r.rules[n], KeysOf(r)) = "none"
    <3>1. CASE r \in accepted
      BY <1>1, <3>1 DEF AcceptedFine
    <3>2. CASE r = request
      BY <2>3, <3>2
    <3> QED
      BY <2>1, <3>1, <3>2
  <2> QED
    BY <1>2, <2>2, <2>4 DEF AcceptedFine
<1>6. CASE UNCHANGED vars
  BY <1>3, <1>6 DEF vars
<1> QED
  BY <1>4, <1>5, <1>6 DEF Next
-----------------------------------------------------------------------------
(* Verdicts                                                                *)

\* A verdict is one there may be: the turns before it are known to be in order.
LEMMA VerdictStep == IInv /\ [Next]_vars => VerdictRightful'
<1> SUFFICES ASSUME IInv, [Next]_vars PROVE VerdictRightful'
  OBVIOUS
<1>1. TypeOK /\ PassedTypes /\ PassedTurns /\ VerdictRightful
  BY DEF IInv
<1>2. ASSUME UNCHANGED <<catalogue, request>>, Rightful(verdict') PROVE VerdictRightful'
  BY <1>2, RightfulStays DEF VerdictRightful
<1>3. CASE UNCHANGED <<catalogue, request, verdict>>
  <2>1. CASE verdict = Pending
    BY <1>3, <2>1 DEF VerdictRightful, Pending, Verdict, NoFault
  <2>2. CASE verdict # Pending
    <3>1. Rightful(verdict')
      BY <1>1, <1>3, <2>2 DEF VerdictRightful
    <3> QED
      BY <1>2, <1>3, <3>1
  <2> QED
    BY <2>1, <2>2
<1>4. CASE Enter \/ Declare \/ Offer \/ Proceed
  BY <1>3, <1>4 DEF Enter, Declare, Offer, Proceed, Step
<1>5. CASE Again
  BY <1>5 DEF Again, VerdictRightful, Pending, Verdict, NoFault
<1>6. CASE Fail
  <2>1. index \in DOMAIN request.types
    BY <1>1, <1>6, InTypeIndexed DEF Fail
  <2>2. PICK fault \in WrittenFaults(Type, position) : verdict' = Verdict(fault, index, position)
    BY <1>1, <1>6, <2>1, FaultsAgree DEF Fail, Settle
  <2>3. TypesFine(index - 1) /\ \A k \in 0..(position - 1) : WrittenFaults(Type, k) = {}
    BY <1>1, <2>1 DEF PassedTypes, PassedTurns
  <2>4. position \in Turns(Type)
    BY <1>1, <2>1 DEF TypeOK, Turns
  <2>5. Rightful(verdict')
    BY <2>1, <2>2, <2>3, <2>4 DEF Rightful, Type
  <2> QED
    BY <1>2, <1>6, <2>5 DEF Fail, Settle
<1>7. CASE Duplicate
  <2>1. index \in DOMAIN request.types
    BY <1>1, <1>7, InTypeIndexed DEF Duplicate, InContents
  <2>2. InOrder(Type) /\ Repeats(index) /\ TypesFine(index - 1)
    BY <1>1, <1>7, <2>1, TypePassed, SeenRepeats DEF Duplicate, PassedTypes
  <2>3. Rightful(verdict')
    BY <1>7, <2>1, <2>2 DEF Rightful, Duplicate, Settle, Type
  <2> QED
    BY <1>2, <1>7, <2>3 DEF Duplicate, Settle
<1>8. CASE RuleFails \/ Accept
  <2>1. TypesFine(Len(request.types)) /\ seen = Keys
    BY <1>1, <1>8, AllPassed DEF RuleFails, Accept, Rules
  <2>2. Rightful(verdict')
    BY <1>8, <2>1 DEF Rightful, RuleFails, Accept, Rules, Settle
  <2> QED
    BY <1>2, <1>8, <2>2 DEF RuleFails, Accept, Rules, Settle
<1>9. CASE UNCHANGED vars
  BY <1>3, <1>9 DEF vars
<1> QED
  BY <1>4, <1>5, <1>6, <1>7, <1>8, <1>9 DEF Next

\* The invariant is inductive.
LEMMA IInvStep == IInv /\ [Next]_vars => IInv'
BY TypeOKStep, PassedTypesStep, PassedTurnsStep, AcceptedFineStep, VerdictStep DEF IInv

LEMMA InitIInv == Init => IInv
BY InitTypeOK, NonePassed DEF Init, IInv, AcceptedFine, VerdictRightful

\* The invariant: what was passed is in order as it was written, and is trimmed.
THEOREM Invariant == Spec => []IInv
BY InitIInv, IInvStep, PTL DEF Spec

\* ValidateEventTypes answers by the catalogue as it was written, in the order of its
\* loops, however far earlier validations have trimmed the slices it reads.
THEOREM VerdictsRightful == Spec => []VerdictRightful
<1>1. IInv => VerdictRightful
  BY DEF IInv
<1> QED
  BY <1>1, Invariant, PTL
-----------------------------------------------------------------------------
(* What accepted requests can be used for                                  *)

\* In an event type in order every token is the key of a variable as it was written,
\* and every action as it was written has its label.
LEMMA OrderIsUsable ==
  ASSUME TypeOK, NEW r \in catalogue.requests, NEW i \in DOMAIN r.types,
         InOrder(r.types[i]), NEW l \in DOMAIN r.types[i].locales
  PROVE  /\ \A k \in r.types[i].locales[l].tokens :
              \E n \in DOMAIN r.types[i].variables : Written(r.types[i].variables[n]).key.core = k
         /\ \A n \in DOMAIN r.types[i].actions :
              Written(r.types[i].actions[n]).key \in r.types[i].locales[l].labels
<1> DEFINE t == r.types[i]
<1>1. CellsIn(t, DOMAIN catalogue.memory)
  BY CellsListed DEF TypeOK
<1>2. \A n \in Turns(t) : WrittenFaults(t, n) = {}
  BY DEF InOrder
<1> HIDE DEF t
<1>4. ASSUME NEW k \in t.locales[l].tokens
      PROVE  \E n \in DOMAIN t.variables : Written(t.variables[n]).key.core = k
  <2>1. WrittenFaults(t, Len(Cells(t)) + 1) = {}
    BY <1>1, <1>2, ActionPlaced
  <2>2. ContentFaults(t, WrittenKeys(t, Len(Cells(t)) + 1)) = {}
    BY <1>1, <2>1, FaultsPlaced DEF WrittenFaults
  <2>3. ContentFault(t, l, WrittenKeys(t, Len(Cells(t)) + 1)) = {}
    BY <2>2 DEF ContentFaults, t
  <2>4. t.locales[l].tokens \subseteq WrittenKeys(t, Len(Cells(t)) + 1)
    BY <2>3 DEF ContentFault, Fault
  <2> QED
    BY <2>4 DEF WrittenKeys
<1>5. ASSUME NEW n \in DOMAIN t.actions
      PROVE  Written(t.actions[n]).key \in t.locales[l].labels
  <2>1. PICK m \in (Len(t.variables) + 1)..Len(Cells(t)) :
          m \in Turns(t) /\ m \in DOMAIN Cells(t) /\ Cells(t)[m] = t.actions[n]
    BY <1>1, <1>5, ActionPlaced
  <2>2. ActionFaults(t, Written(t.actions[n])) = {}
    <3>1. WrittenFaults(t, m) = FaultsAt(t, m, Written(t.actions[n]), WrittenKeys(t, m))
      BY <2>1 DEF WrittenFaults
    <3>2. WrittenFaults(t, m) = ActionFaults(t, Written(t.actions[n]))
      BY <1>1, <3>1, FaultsPlaced
    <3> QED
      BY <1>2, <2>1, <3>2
  <2>3. ASSUME NEW j \in DOMAIN t.locales,
               Written(t.actions[n]).key \notin t.locales[j].labels
        PROVE  ActionFaults(t, Written(t.actions[n])) # {}
    <3>1. CASE ~ActionValid(Written(t.actions[n]))
      BY <3>1 DEF ActionFaults, Fault
    <3>2. CASE ActionValid(Written(t.actions[n]))
      <4>1. [what |-> "label_missing", where |-> {j}] \in ActionFaults(t, Written(t.actions[n]))
        BY <2>3, <3>2 DEF ActionFaults, Fault
      <4> QED
        BY <4>1
    <3> QED
      BY <3>1, <3>2
  <2> QED
    BY <2>2, <2>3 DEF t
<1> QED
  BY <1>4, <1>5 DEF t

\* The cells of an accepted request are used as they were written, but trimmed.
LEMMA AcceptedTypesUsable ==
  ASSUME IInv, NEW r \in accepted, NEW i \in DOMAIN r.types, NEW l \in DOMAIN r.types[i].locales
  PROVE  /\ \A k \in r.types[i].locales[l].tokens : \E a \in Range(r.types[i].variables) :
              memory[a].key = [core |-> k, padded |-> FALSE]
         /\ \A a \in Range(r.types[i].actions) : memory[a].key \in r.types[i].locales[l].labels
<1> DEFINE t == r.types[i]
<1>1. TypeOK /\ r \in catalogue.requests /\ catalogue \in Catalogues
  BY DEF IInv, TypeOK
<1>2. InOrder(t) /\ Trimmed(t)
  BY DEF IInv, AcceptedFine
<1>3. CellsIn(t, DOMAIN catalogue.memory)
  BY <1>1, CellsListed
<1>4. /\ \A k \in t.locales[l].tokens :
           \E n \in DOMAIN t.variables : Written(t.variables[n]).key.core = k
      /\ \A n \in DOMAIN t.actions : Written(t.actions[n]).key \in t.locales[l].labels
  BY <1>1, <1>2, OrderIsUsable
<1>5. \A a \in Range(t.variables) : "key" \in DOMAIN catalogue.memory[a]
  BY <1>1, CatalogueSettings DEF Range
<1> HIDE DEF t
<1>6. ASSUME NEW n \in DOMAIN t.variables
      PROVE  memory[t.variables[n]] = Written(t.variables[n])
  <2>1. n \in DOMAIN Cells(t) /\ Cells(t)[n] = t.variables[n]
    BY <1>3, CellsPlaced DEF CellsIn
  <2> QED
    BY <1>2, <2>1 DEF Trimmed
<1>7. ASSUME NEW n \in DOMAIN t.actions
      PROVE  memory[t.actions[n]] = Written(t.actions[n])
  <2>1. PICK m \in DOMAIN Cells(t) : Cells(t)[m] = t.actions[n]
    BY <1>3, <1>7, ActionPlaced
  <2> QED
    BY <1>2, <2>1 DEF Trimmed
<1>8. ASSUME NEW k \in t.locales[l].tokens
      PROVE  \E a \in Range(t.variables) : memory[a].key = [core |-> k, padded |-> FALSE]
  <2>1. PICK n \in DOMAIN t.variables : Written(t.variables[n]).key.core = k
    BY <1>4
  <2>2. t.variables[n] \in Range(t.variables)
    BY DEF Range
  <2>3. Written(t.variables[n]).key = TrimSpace(catalogue.memory[t.variables[n]].key)
    BY <1>5, <2>2 DEF Written, TrimCell
  <2>4. memory[t.variables[n]].key = TrimSpace(catalogue.memory[t.variables[n]].key)
    BY <1>6, <2>3
  <2>5. TrimSpace(catalogue.memory[t.variables[n]].key) = [core |-> k, padded |-> FALSE]
    <3>1. \A text : TrimSpace(text) = [core |-> TrimSpace(text).core, padded |-> FALSE]
      BY DEF TrimSpace
    <3> QED
      BY <2>1, <2>3, <3>1
  <2> QED
    BY <2>2, <2>4, <2>5
<1>9. \A a \in Range(t.actions) : memory[a].key \in t.locales[l].labels
  BY <1>4, <1>7 DEF Range
<1> QED
  BY <1>8, <1>9 DEF t

\* The keys a rule is about are those of one event type each.
LEMMA AcceptedRulesUsable ==
  ASSUME IInv, NEW r \in accepted, NEW n \in DOMAIN r.rules,
         NEW key \in {r.rules[n].event, r.rules[n].recovery} \ {[core |-> "", padded |-> FALSE]}
  PROVE  \E i \in DOMAIN r.types : \A k \in DOMAIN r.types :
           TrimSpace(r.types[k].key) = TrimSpace(key) <=> k = i
<1>1. RuleFault(r.rules[n], KeysOf(r)) = "none"
  BY DEF IInv, AcceptedFine
<1>2. TrimSpace(r.rules[n].event).core \in KeysOf(r)
  BY <1>1 DEF RuleFault
<1>3. \/ r.rules[n].recovery = [core |-> "", padded |-> FALSE]
      \/ TrimSpace(r.rules[n].recovery).core \in KeysOf(r)
  BY <1>1 DEF RuleFault
<1>4. TrimSpace(key).core \in KeysOf(r)
  BY <1>2, <1>3
<1>5. PICK i \in DOMAIN r.types : TrimSpace(r.types[i].key).core = TrimSpace(key).core
  BY <1>4 DEF KeysOf
<1>6. TrimSpace(r.types[i].key) = TrimSpace(key)
  BY <1>5, SameCore
<1>7. \A k \in DOMAIN r.types : TrimSpace(r.types[k].key) = TrimSpace(r.types[i].key) => k = i
  BY DEF IInv, AcceptedFine
<1> QED
  BY <1>6, <1>7

\* What ValidateEventTypes has accepted can be used as it is found in the slices, however
\* the catalogue is validated afterwards: tokens and labels are looked up as they stand,
\* and every rule is about one event type.
THEOREM AcceptedStaysUsable == Spec => []AcceptedIsUsable
<1>1. IInv => AcceptedIsUsable
  <2> SUFFICES ASSUME IInv PROVE AcceptedIsUsable
    OBVIOUS
  <2>1. ASSUME NEW r \in accepted, NEW t \in Range(r.types), NEW l \in DOMAIN t.locales
        PROVE  /\ \A k \in t.locales[l].tokens :
                    \E a \in Range(t.variables) : memory[a].key = [core |-> k, padded |-> FALSE]
               /\ \A a \in Range(t.actions) : memory[a].key \in t.locales[l].labels
    <3>1. PICK i \in DOMAIN r.types : t = r.types[i]
      BY <2>1 DEF Range
    <3> QED
      BY <2>1, <3>1, AcceptedTypesUsable
  <2>2. ASSUME NEW r \in accepted, NEW rule \in Range(r.rules),
               NEW key \in {rule.event, rule.recovery} \ {[core |-> "", padded |-> FALSE]}
        PROVE  \E i \in DOMAIN r.types : \A k \in DOMAIN r.types :
                 TrimSpace(r.types[k].key) = TrimSpace(key) <=> k = i
    <3>1. PICK n \in DOMAIN r.rules : rule = r.rules[n]
      BY <2>2 DEF Range
    <3> QED
      BY <2>2, <3>1, AcceptedRulesUsable
  <2> QED
    BY <2>1, <2>2 DEF AcceptedIsUsable
<1> QED
  BY <1>1, Invariant, PTL
=============================================================================
