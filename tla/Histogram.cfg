\* Four octaves of two buckets; values at and around every octave's edges.
CONSTANTS
  HighestTrackable = 20
  PrecisionBits = 1
  MaxU64 = 31
  Hist = {"a", "b"}
  Value = {0, 1, 3, 4, 7, 8, 15, 16, 23}
  Percent = {0, 17, 34, 50, 67, 84, 100}
  MaxSamples = 3
SPECIFICATION HistSpec
INVARIANTS HistTypeOK PercentileWithinError ExtremesExact
