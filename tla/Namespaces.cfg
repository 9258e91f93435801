SPECIFICATION Spec
CONSTANTS
  NoElement = NoElement
  Strings <- MCStrings
  XmlUri = "XML"
  XmlnsUri = "XMLNS"
  Documents <- MCDocuments
  Spare = {3}
  Generated <- MCGenerated
  Registry <- MCRegistry
  Uris <- MCUris
  Declarable = {"", "a", "xml", "xmlns"}
  Nsmaps <- MCNsmaps
  EditsOf <- MCEditsOf
INVARIANTS
  TypeOK
  ScopeIsKept
  QualifiersAgree
  NamesResolveUnlessHidden
PROPERTY BindingsStay
CHECK_DEADLOCK FALSE
