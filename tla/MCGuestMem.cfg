CONSTANTS
  Top = 16
  Page = 2
  MaxSlots = 2
  Areas = {100, 200}
SPECIFICATION Spec
INVARIANTS
  SlotsDisjoint
  TablesAgree
  Translation
