SPECIFICATION Spec
CONSTANTS
  Sources = {"one", "two"}
  Designs <- MCDesigns
  Modules <- MCModules
  Docs = {"top.sv", "leaf.sv", "old.sv"}
  Declares <- MCDeclares
  Reads <- MCReads
  None = None
INVARIANTS SelectionsExist AnalysesUseSelection LastSelectionIsActive SelectedIterationsShown
PROPERTY RefreshKeepsSelections
