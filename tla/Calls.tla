-------------------------------- MODULE Calls --------------------------------
(***************************************************************************)
(* What is asked of somebody and awaited: a child process run under bounds *)
(* (BoundedSpawn), the calls of an agent to its model (ModelCall), those   *)
(* of the workers of `orchestrate` over the slots of a provider            *)
(* (WorkerRace), and the run of `orchestrate` (Orchestrate).               *)
(***************************************************************************)
EXTENDS Naturals, Sequences

CONSTANTS
  MaxBytes, MaxOutput,                                            \* of BoundedSpawn
  MaxModels, Attempts, Budget, MaxHedges, MaxHint, MaxSteps,      \* of ModelCall
  Units, MaxInflight, MaxCalls,                                   \* of WorkerRace
  Paths, Alone, FastMost, Reviews, MaxFaults, MaxTidied           \* of Orchestrate

VARIABLES
  phase, child, stubborn, grandchild, deadline, signal, grace, outlet, written, loop,
  cancelled, bytes, oversize, kept, reason,
  at, attempt, waited, flight, error, model, control, tried, part, stop, steps, falls, broken,
  free, warm, racer, fork,
  step, stream, owner, units, tree, status, targets, text, path, rounds, ok, fixing, lost,
  tidied, gated

Child == INSTANCE BoundedSpawn
Model == INSTANCE ModelCall
Race == INSTANCE WorkerRace
Waves == INSTANCE Orchestrate WITH phase <- step

spawnVars == <<phase, child, stubborn, grandchild, deadline, signal, grace, outlet, written, loop,
               cancelled, bytes, oversize, kept, reason>>
callVars == <<at, attempt, waited, flight, error, model, control, tried, part, stop, steps, falls,
              broken>>
raceVars == <<free, warm, racer, fork>>
wavesVars == <<step, stream, owner, units, tree, status, targets, text, path, rounds, ok, fixing,
               lost, tidied, gated>>

CallsInit == Child!Init /\ Model!Init /\ Race!Init /\ Waves!Init

(* They share no state: a step is one of either. *)
CallsNext ==
  \/ Child!Next /\ UNCHANGED <<callVars, raceVars, wavesVars>>
  \/ Model!Next /\ UNCHANGED <<spawnVars, raceVars, wavesVars>>
  \/ Race!Next /\ UNCHANGED <<spawnVars, callVars, wavesVars>>
  \/ Waves!Next /\ UNCHANGED <<spawnVars, callVars, raceVars>>

CallsSpec == CallsInit /\ [][CallsNext]_<<spawnVars, callVars, raceVars, wavesVars>>

(* BoundedSpawn: a run that exited by itself is read whole, within its     *)
(* budget.  ModelCall: a call fails when its attempts, its waiting or its  *)
(* kind of error allow no other, a run when its chain of models is walked, *)
(* once, and the model asked is the one last chosen.  WorkerRace: no slot  *)
(* is lost or given twice, and a valid answer wins.  Orchestrate: workers  *)
(* of one plan alone, each on files of its own, and success only of what   *)
(* the gate saw.                                                           *)
CallsAreHonest ==
  /\ Child!TypeOK /\ Child!ReadsAreWhole
  /\ Model!TypeOK /\ Model!CallsFailHonestly /\ Model!ChainIsWalkedOnce /\ Model!SwitchesAreHeard
  /\ Race!TypeOK /\ Race!SlotsAreKept /\ Race!BestAnswerWins
  /\ Waves!TypeOK /\ Waves!WorkersApart /\ Waves!SuccessIsGated
=============================================================================
