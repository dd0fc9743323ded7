SPECIFICATION Spec
CONSTANTS
  Types <- MCTypes
  Cuts = {1, 4096}
  Arguments <- MCArguments
  Answers <- MCAnswers
  Pieces = {15, 16, 20}
  MaxClasses = 2
  MaxNew = 2
  Pack <- packRequest
  DecodeOther <- Decode
  OtherForms <- TopForms
  OtherMeaning <- TopMeaning
  Registries <- MCRegistries
INVARIANTS TypeOK RequestInGrammar DecodeExact 
PROPERTY ReadEnds
