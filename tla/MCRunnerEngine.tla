--------------------------- MODULE MCRunnerEngine ---------------------------
EXTENDS RunnerEngine, TLC

AllExecutors == {"environment", "automatic", "manual", "fire-and-forget", "prompt",
                 "provider", "install-user-secret"}

(* Two supporting processes.                                               *)
TwoServices == 0 :> "fire-and-forget" @@ 1 :> "fire-and-forget"

(* One step of each kind, but for automatic ones, which the engine treats  *)
(* as it does those of a provider; the manual gate runs beside the process.*)
EveryKind == 0 :> "environment" @@ 1 :> "prompt" @@ 2 :> "provider"
               @@ 3 :> "install-user-secret" @@ 4 :> "fire-and-forget" @@ 5 :> "manual"
=============================================================================
