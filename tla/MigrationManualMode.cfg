SPECIFICATION Spec
CONSTANTS
  From = {58}
  Rebuilt = {"detection_keywords", "stream_match_cache"}
  MaxStops = 2
INVARIANTS ManualIsSticky
CHECK_DEADLOCK FALSE
