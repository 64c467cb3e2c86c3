-------------------------- MODULE MCRunnerService --------------------------
EXTENDS RunnerService
MCSlots == {"main", "probe"}
MCStepKinds == {"automatic", "prompt", "manual", "provider"}
=============================================================================
