\* Two documents; calls, retries and attempts as the code sets them.
CONSTANTS
  Found <- MCFound
  SpecDrafts <- MCSpecDrafts
  Primaries = {0, 2}
  ComposerDrafts <- MCComposerDrafts
  ScriptDrafts <- MCScriptDrafts
  PromptDrafts <- MCPromptDrafts
  StepDrafts <- MCStepDrafts
  GuidanceDrafts <- MCGuidanceDrafts
  StepIds = {"S1", "S2", "S3"}
  DisplayOnly = {"scope"}
  Blank = Blank
  Broken = Broken
  Nowhere = Nowhere
  None = None
  HardCap = 12
  SpecExtra = 1
  PlanExtra = 2
  ScriptTries = 2
  RepeatLimit = 3
SPECIFICATION Spec
CHECK_DEADLOCK FALSE
INVARIANTS
  RetriesFitTheCap
  ConflictsStayOpen
  PlanIsGrounded
  PlanIsWhole
