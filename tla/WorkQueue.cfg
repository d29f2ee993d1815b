SPECIFICATION MCSpec
CONSTANTS
  Triage = Triage
  SeniorTriage = SeniorTriage
  Monitoring = Monitoring
  Agents = {Triage, SeniorTriage, Monitoring}
  Monitors = {Monitoring}
  Senior = {SeniorTriage}
  Superseding = {}
  Pausing = {Triage}
  Again = {Triage}
  Width <- MCWidth
  MaxAttempts = 2
  MaxAtOnce = 2
  Deciders = {Person}
  Person = Person
  Purges = FALSE
CHECK_DEADLOCK FALSE
INVARIANT TypeOK
 
 
INVARIANT AttemptsPaid
PROPERTY WaitingEnds
PROPERTY DiagnosisEnds
