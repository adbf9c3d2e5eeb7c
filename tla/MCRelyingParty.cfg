SPECIFICATION RpSpec
CONSTANTS
  Tab = {t1, t2}
  MaxState = 2
  MaxRotations = 2
  Flaw = {"exp"}
INVARIANTS
  RpTypeOK SignedInHere BadgeForVerified CodeMeetsItsKey
  OneRunAtATime HeldTokenUsable HandedOverReady
PROPERTIES RotatesForward PagesSettle
