---------------------------- MODULE MCAgentParts ----------------------------
(***************************************************************************)
(* Five parts of the agent that share no state, each explored by itself: a *)
(* behaviour picks one part and the others stay as they start.             *)
(***************************************************************************)
EXTENDS RingBuffer, RateLimiter, LogTailer, AgentIdentity, N1Tracker, TLC

VARIABLE part

others(p) ==
    /\ p # "ring" => UNCHANGED ringVars
    /\ p # "limiter" => UNCHANGED limiterVars
    /\ p # "tailer" => UNCHANGED tailerVars
    /\ p # "identity" => UNCHANGED identityVars
    /\ p # "n1" => UNCHANGED n1Vars

PartsInit ==
    /\ part \in {"ring", "limiter", "tailer", "identity", "n1"}
    /\ New /\ LimiterInit /\ IdentityInit
    /\ TailerInit /\ (part # "tailer" => tailer = "errors")
    /\ N1Init /\ (part # "n1" => config = "full")

PartsNext ==
    /\ UNCHANGED part /\ others(part)
    /\ \/ part = "ring" /\ RingNext
       \/ part = "limiter" /\ LimiterNext
       \/ part = "tailer" /\ TailerNext
       \/ part = "identity" /\ IdentityNext
       \/ part = "n1" /\ N1Next

PartsSpec == PartsInit /\ [][PartsNext]_<<part, ringVars, limiterVars, tailerVars, identityVars, n1Vars>>

Workers == Permutations(Worker)
=============================================================================
