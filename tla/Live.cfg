\* The owner of a nICEr connection and its worker; a component of libnice with
\* two candidates; frames of up to one and a half fragments and numbers that wrap
\* around; two spatial and two temporal layers, of which none or all but the
\* highest fit.
CONSTANTS
  Callers = {"owner", "worker"}
  Owner = "owner"
  MaxCalls = 3
  MaxHeard = 1
  Components = {1}
  Candidates = {"v4", "v6"}
  Usable = {"v4"}
  Remotes <- SomeRemotes
  MaxCands = 2
  MaxRead = 3
  MaxSize = 3
  Part = 2
  SeqMod = 4
  Layers = {0, 1}
  Top = 1
  Rate <- SomeRates
  Estimates = {1, 4}
  MaxChanges = 3
SPECIFICATION MCSpec
INVARIANTS EndpointsSound PaddingOff
PROPERTIES Settles FailuresEnd KeyframeOrFir CallsEnd
CHECK_DEADLOCK FALSE
