SPECIFICATION Spec
CONSTANTS
  Key = {k1, k2}
  Value = {v1, v2}
  Seconds <- MCSeconds
  Limits <- MCLimits
  Defaults <- MCDefaults
  None = None
INVARIANTS TypeOK MapsInStep GoneStaysGone
PROPERTY TimedMapSpec
