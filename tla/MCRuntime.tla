------------------------------ MODULE MCRuntime ------------------------------
(***************************************************************************)
(* The instances TLC checks of the runtime: the pool of processes           *)
(* (PiRuntime, which this module extends) and a prompt on one session       *)
(* (PiSession).  A behaviour is one part's; the variables of the other stay *)
(* as they began.                                                           *)
(***************************************************************************)
EXTENDS PiRuntime, TLC

CONSTANTS Parts,     \* the instances a configuration checks
          TurnTimeout, Silence, Large,   \* the timeouts and the big prompts of the session
          a1, a2, k1, k2, t1, t2, t3, p1, p2, p3

VARIABLE part
VARIABLES now, closed, poisoned, prompt, future, call, canceller, closing, reader, wait, holds, child, pipe, asks,
          quiet, hush, verdict

(* Two conversations of one agent; tasks, processes and the two             *)
(* conversations are interchangeable.                                       *)
MCOneAgent == k1 :> a1 @@ k2 :> a1
Interchangeable == Permutations(Tasks) \cup Permutations(Procs) \cup Permutations(Keys)

(* One prompt during which a person is asked.                               *)
Q == INSTANCE PiSession WITH
       Prompts <- 1, Big <- Large, Tools <- {"c1"}, Timeout <- TurnTimeout, IdleTimeout <- Silence,
       WrapUpAfter <- 0, TokensPerTurn <- 0,
       UiTimeout <- 1, Bridged <- TRUE, MaxAsks <- 1, MaxPipe <- 1, MaxTokens <- 0, Horizon <- 3,
       turn <- prompt, proc <- child

prompts == <<now, closed, poisoned, prompt, future, call, canceller, closing, reader, wait, holds, child, pipe, asks,
             quiet, hush, verdict>>
all == <<part, vars, prompts>>

RuntimeInit == part \in Parts /\ Init /\ Q!Init

RuntimeNext ==
    \/ part = "pool" /\ Next /\ UNCHANGED <<part, prompts>>
    \/ part = "asks" /\ Q!Next /\ UNCHANGED <<part, vars>>

RuntimeSpec == RuntimeInit /\ [][RuntimeNext]_all

(* The same with the fairness of each part, in its own behaviours.          *)
FairRuntimeSpec ==
    /\ RuntimeSpec
    /\ WF_prompts(part = "asks" /\ Q!Poll) /\ WF_prompts(part = "asks" /\ Q!Clock)
    /\ WF_prompts(part = "asks" /\ Q!PersonAnswers) /\ WF_prompts(part = "asks" /\ Q!HoldEnds)
    /\ WF_prompts(part = "asks" /\ Q!ReaderDies)
    /\ WF_prompts(part = "asks" /\ Q!CloseEnds) /\ WF_prompts(part = "asks" /\ Q!CancelReturns)
    /\ \A t \in Tasks : WF_vars(part = "pool" /\ Step(t)) /\ SF_vars(part = "pool" /\ TakesLock(t))

-----------------------------------------------------------------------------
(* What each part promises, of the properties its module states; those of   *)
(* the pool, PoolIsExact and EveryOperationEnds, are PiRuntime's own.       *)

(* A prompt ends, whatever its process and the people asked do (session.py  *)
(* prompt, _await_turn).                                                    *)
EveryPromptEnds == Q!EveryPromptEnds

-----------------------------------------------------------------------------
(* What the code does not keep of a prompt; the pool's are PiRuntime's own. *)

(* A process is stopped as hung only after so long a silence (session.py    *)
(* _await_turn).                                                            *)
StalledMeansHung == Q!StalledMeansHung

=============================================================================
