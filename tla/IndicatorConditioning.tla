----------------------- MODULE IndicatorConditioning -----------------------
(***************************************************************************)
(* Debounced indicators and switches across starts, pauses and stops of    *)
(* the processing service.  The indicators form a chain: the first has a   *)
(* source of its own (a control indicator), each other is derived from the *)
(* one before it.  Readings and settles run on the processing work queue,  *)
(* one at a time; the service's transitions reach the conditioners one     *)
(* after another from their own thread.                                    *)
(***************************************************************************)
EXTENDS Naturals, Sequences

CONSTANTS Modes,    \* input_mode of each indicator: Level or Toggle
          Debounce  \* debounce_ms of each, in steps of time

VARIABLES conds,   \* the IndicatorConditioner of each indicator
          proc,    \* the processing service, and the conditioner its transition is at
          failing, \* a start failed: the generation never ran
          saved,   \* switch_states_
          ranWith  \* ghost: the switches at the end of the last generation that ran

condVars == <<conds, proc, failing, saved, ranWith>>

Indicators == DOMAIN Modes
IsSwitch(c) == Modes[c] = "Toggle"

(* due: the settle is scheduled; left: until the deadline; kept:           *)
(* remaining_ticks_; seen: ghost, how long the held change was watched.    *)
Fresh(on) == [has |-> FALSE, input |-> FALSE, on |-> on, pending |-> FALSE, due |-> FALSE,
              left |-> 0, kept |-> 0, seen |-> 0]

AllOff == [c \in Indicators |-> FALSE]
Conditioners(on) == [c \in Indicators |-> Fresh(on[c])]

ConditioningInit ==
  /\ conds = Conditioners(AllOff) /\ proc = [step |-> "stopped", at |-> 0]
  /\ failing = FALSE /\ saved = AllOff /\ ranWith = AllOff

-----------------------------------------------------------------------------
\* A conditioner.

(* A press flips a switch. *)
AcceptState(c, k, x) ==
  [k EXCEPT !.input = x, !.on = IF IsSwitch(c) /\ x /\ ~k.input THEN ~@ ELSE @,
            !.pending = FALSE, !.due = FALSE, !.left = 0]

Window(c, k) ==
  IF k.pending THEN k
  ELSE [k EXCEPT !.pending = TRUE, !.due = TRUE, !.left = Debounce[c], !.seen = 0]

Offer(c, k, x) ==
  IF ~k.has THEN [k EXCEPT !.has = TRUE, !.input = x]
  ELSE IF x = k.input THEN [k EXCEPT !.pending = FALSE, !.due = FALSE, !.left = 0]
  ELSE IF Window(c, k).left = 0 THEN AcceptState(c, Window(c, k), x)
  ELSE Window(c, k)

(* Apply(): what is committed. *)
Apply(c, k) == IF IsSwitch(c) THEN k.on ELSE k.input

(* Once c is committed each indicator after it is evaluated once, in       *)
(* order, against the value the one before it has by then: the old one if  *)
(* that one holds a change.                                                *)
EvaluateDependents(c, ks) ==
  LET derived[d \in Indicators] ==
        IF d <= c THEN ks[d] ELSE Offer(d, ks[d], Apply(d - 1, derived[d - 1]))
  IN  derived

-----------------------------------------------------------------------------
\* The processing work queue.

SourcesRun == proc.step \in {"starting", "running"}

(* A reading of the first indicator's source: a change it holds is not    *)
(* committed.                                                             *)
Process(x) ==
  LET k == Offer(1, conds[1], x)
      ks == [conds EXCEPT ![1] = k]
  IN  /\ SourcesRun
      /\ conds' = IF k.pending THEN ks ELSE EvaluateDependents(1, ks)
      /\ UNCHANGED <<proc, failing, saved, ranWith>>

(* Mutant: a settled change is stored, and its dependents are not evaluated. *)
MutantCommit(c, ks) == ks

Commit(c, ks) == EvaluateDependents(c, ks)

Settle(c) ==
  /\ conds[c].due /\ conds[c].left = 0
  /\ conds' = Commit(c, [conds EXCEPT ![c] = AcceptState(c, @, ~@.input)])
  /\ UNCHANGED <<proc, failing, saved, ranWith>>

WaitsToSettle(k) == k.pending /\ k.left > 0

(* A pause is not watched. *)
Watched(c, n) == IF proc.step = "paused" \/ n = Debounce[c] THEN n ELSE n + 1

WindowsRun ==
  /\ \E c \in Indicators: WaitsToSettle(conds[c])
  /\ conds' = [c \in Indicators |->
                 IF WaitsToSettle(conds[c])
                 THEN [conds[c] EXCEPT !.left = @ - 1, !.seen = Watched(c, @)]
                 ELSE conds[c]]
  /\ UNCHANGED <<proc, failing, saved, ranWith>>

-----------------------------------------------------------------------------
\* SensorsProcessingService.

Switches == [c \in Indicators |-> conds[c].on]

(* DoStart(): a control indicator starts released, with its dependents. *)
StartProcessing ==
  /\ proc.step = "stopped"
  /\ LET ks == Conditioners(saved)
     IN  conds' = EvaluateDependents(1, [ks EXCEPT ![1] = Offer(1, @, FALSE)])
  /\ proc' = [step |-> "starting", at |-> 0] /\ failing' = FALSE
  /\ UNCHANGED <<saved, ranWith>>

(* One source after another; one may throw. *)
SourcesStarted ==
  /\ proc.step = "starting"
  /\ \/ proc' = [step |-> "running", at |-> 0] /\ UNCHANGED failing
     \/ proc' = [step |-> "cancel", at |-> 1] /\ failing' = TRUE
  /\ UNCHANGED <<conds, saved, ranWith>>

StopProcessing ==
  /\ proc.step \in {"running", "paused"}
  /\ proc' = [step |-> "cancel", at |-> 1]
  /\ UNCHANGED <<conds, failing, saved, ranWith>>

(* CancelSettles(), in processing order. *)
CancelSettle ==
  /\ proc.step = "cancel" /\ proc.at \in Indicators
  /\ conds' = [conds EXCEPT ![proc.at].due = FALSE, ![proc.at].pending = FALSE]
  /\ proc' = [proc EXCEPT !.at = @ + 1]
  /\ UNCHANGED <<failing, saved, ranWith>>

(* Mutant: the switches of the generation that stops are always taken over. *)
MutantKeepsSwitches == Switches

KeepsSwitches == IF failing THEN saved ELSE Switches

DropGeneration ==
  /\ proc.step = "cancel" /\ proc.at \notin Indicators
  /\ saved' = KeepsSwitches /\ ranWith' = IF failing THEN ranWith ELSE Switches
  /\ conds' = Conditioners(AllOff)
  /\ proc' = [step |-> "stopped", at |-> 0] /\ failing' = FALSE

PauseProcessing ==
  /\ proc.step = "running" /\ proc' = [step |-> "suspend", at |-> 1]
  /\ UNCHANGED <<conds, failing, saved, ranWith>>

(* Mutant: backwards. *)
MutantSuspendAt == Len(Modes) + 1 - proc.at

(* SuspendSettles() goes in processing order. *)
SuspendAt == proc.at

SuspendSettle ==
  /\ proc.step = "suspend"
  /\ conds' = [conds EXCEPT ![SuspendAt].due = FALSE,
                            ![SuspendAt].kept = IF conds[SuspendAt].pending THEN conds[SuspendAt].left ELSE @]
  /\ proc' = IF proc.at = Len(Modes) THEN [step |-> "paused", at |-> 0] ELSE [proc EXCEPT !.at = @ + 1]
  /\ UNCHANGED <<failing, saved, ranWith>>

(* Mutant: in processing order. *)
MutantResumeAt == Len(Modes) + 1 - proc.at

(* ResumeSettles() goes backwards. *)
ResumeAt == proc.at

ResumeProcessing ==
  /\ proc.step = "paused" /\ proc' = [step |-> "resume", at |-> Len(Modes)]
  /\ UNCHANGED <<conds, failing, saved, ranWith>>

(* Mutant: a held change that was suspended waits for the next reading. *)
MutantResumed(k) == k

Resumed(k) == IF k.pending THEN [k EXCEPT !.left = k.kept, !.due = TRUE] ELSE k

ResumeSettle ==
  /\ proc.step = "resume"
  /\ conds' = [conds EXCEPT ![ResumeAt] = Resumed(@)]
  /\ proc' = IF proc.at = 1 THEN [step |-> "running", at |-> 0] ELSE [proc EXCEPT !.at = @ - 1]
  /\ UNCHANGED <<failing, saved, ranWith>>

ConditioningNext ==
  \/ \E x \in BOOLEAN: Process(x)
  \/ \E c \in Indicators: Settle(c)
  \/ WindowsRun \/ StartProcessing \/ SourcesStarted \/ StopProcessing \/ CancelSettle
  \/ DropGeneration \/ PauseProcessing \/ SuspendSettle \/ ResumeProcessing \/ ResumeSettle

-----------------------------------------------------------------------------
(* A change is accepted only once the input was watched for the whole      *)
(* window: time spent paused does not count, whatever is resumed first.    *)
AcceptedWasHeld ==
  [][\A c \in Indicators:
       conds[c].has /\ conds'[c].has /\ conds'[c].input # conds[c].input
         => conds[c].seen >= Debounce[c]]_condVars

(* A held change never waits for another reading: while processing runs    *)
(* its settle is scheduled.                                                *)
HeldIsScheduled ==
  proc.step = "running" => \A c \in Indicators: conds[c].pending => conds[c].due

(* Once the service is paused or stopped no settle is scheduled, though a  *)
(* settle that ran during the transition may have scheduled others.        *)
NoSettleLeft ==
  proc.step \in {"paused", "stopped"} => \A c \in Indicators: ~conds[c].due

(* A start takes the switches of the last generation that ran, also after  *)
(* a start that failed half-way, with presses already processed.           *)
SwitchesSurvive == saved = ranWith

(* A derived indicator follows the one it is derived from: it has its      *)
(* value, or holds the change.                                             *)
DerivedFollows ==
  \A c \in Indicators \ {1}:
    conds[c].has /\ ~conds[c].pending /\ proc.step \in {"starting", "running"}
      => conds[c].input = Apply(c - 1, conds[c - 1])
=============================================================================
