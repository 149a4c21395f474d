SPECIFICATION Spec
CONSTANTS
  h1 = h1
  h2 = h2
  g1 = g1
  g2 = g2
  Slots <- OneSlot
  Stamps <- TwoStamps
  Gens <- TwoGens
  Image = Image
  None = None
  Torn = Torn
  MaxUuid = 1
  MaxChanges = 2
SYMMETRY Symmetry
INVARIANTS TypeOK RunsOnMatchingLayer MarksOfThisUserdata
PROPERTIES CardSparesEmmc ForeignCardKept
