SPECIFICATION Spec
CONSTANTS
  t1 = t1
  t2 = t2
  Threads = {t1, t2}
  Kind = "registry"
  Specs <- AllSpecs
  Usual <- PlainAndNameless
  MaxMetrics = 3
  HasParent = FALSE
  Fields <- PrefixAndLabels
  SetterFields <- OnlyConfigure
  MaxWrites = 1
CONSTRAINT UsualOnly
SYMMETRY Symmetric
INVARIANTS TypeOK RefusalIsExact NoneForgotten ListingIsComplete ListedAreRegistered ListingPrunes DescribesTheLiving ListingIsLive
