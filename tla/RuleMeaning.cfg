SPECIFICATION Spec
CONSTANTS
  V4_BITS = 2
  V6_WORD = 2
  MAX_V6_EXT_HDRS = 4
  MAX_V6_EXT_BYTES = 64
  AddrText <- MCAddrText
  PortText <- MCPortText
  LowerCase <- MCLowerCase
  SplitSlash <- MCSplitSlash
  Apps <- MCApps
  InvalidNames = {"a/b"}
  Phrases <- MCPhrases
  LongForm <- MCLongForm
  Ifindex <- MCIfindex
  Frames <- MCFrames
  Probes <- MCProbes
  ExtLengths <- MCExtLengths
  MaxPhrases = 4
  MaxExts = 5
  AllTags = 3
INVARIANTS
  TypeOK
  GrammarTakesWholeRules
  RuleMeansItsWords
  ShorthandMeansItsLongForm
  TagsHideNothing
  ExtHeadersHideNothing
  RepliesMeetTheirFlow
CHECK_DEADLOCK FALSE
