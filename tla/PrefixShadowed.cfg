SPECIFICATION Spec
CONSTANTS
  NoElement = NoElement
  Strings <- MCStrings
  XmlUri = "XML"
  XmlnsUri = "XMLNS"
  Documents <- ParsedDocuments
  Spare = {3}
  Generated <- MCGenerated
  Registry <- MCRegistry
  Uris <- MCUris
  Declarable = {"", "a", "xml", "xmlns"}
  Nsmaps <- MCNsmaps
  EditsOf <- MCEditsOf
INVARIANT PrefixInScope
CHECK_DEADLOCK FALSE
