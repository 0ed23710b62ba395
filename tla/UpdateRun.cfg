SPECIFICATION Spec
CONSTANTS
  Jobs <- RunJobs
  MaxSteps = 2
  kArenaAlign = 8
  HeaderBytes = 24
  InstrBytes = 8
  EmitBytes = 3
  kSeeuRodataAlignment = 32
  WordSize = 32768
  kSourceSpaceLimit = 16384
INVARIANTS
  NothingBreaksInside
  GraftedIsAdapted
  GradientsAreDerivatives
  FusionKeepsThePrograms
  SweptIsBindable
  LiveValuesAreApart
  ProgramsAreAccepted
  PlanFitsItsWords
  AcceptedIsSafe
  TrainingIsTheGraph
  EvaluationScoresWhatShips
  CommitsAreCurrent
CHECK_DEADLOCK FALSE
