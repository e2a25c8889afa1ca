------------------------------ MODULE ArbPair ------------------------------
(***************************************************************************)
(* What a caller of ExecutionService.submit_arb_paper_orders can rely on,  *)
(* whatever the venues do.  It is weaker than the method's docstring       *)
(* (which promises both legs or none): a call may answer "none" and leave  *)
(* a leg behind, but then it has raised an alarm first; it answers with    *)
(* order ids only when both legs were accepted; and the Polymarket leg is  *)
(* never sent before the Kalshi leg was accepted.                          *)
(***************************************************************************)
CONSTANT Call

VARIABLES
  legs,     \* legs[c]: the legs a venue acknowledged to call c
  alarm,    \* the calls that raised a SYSTEM_ALERT
  answer    \* answer[c]: what the caller got

pairVars == <<legs, alarm, answer>>

PairTypeOK ==
  /\ legs \in [Call -> SUBSET {"kalshi", "poly"}]
  /\ alarm \subseteq Call
  /\ answer \in [Call -> {"pending", "ids", "none", "cancelled"}]

PairInit ==
  /\ legs = [c \in Call |-> {}]
  /\ alarm = {}
  /\ answer = [c \in Call |-> "pending"]

Place(c, before, leg) ==
  /\ answer[c] = "pending"
  /\ legs[c] = before
  /\ legs' = [legs EXCEPT ![c] = before \cup {leg}]
  /\ UNCHANGED <<alarm, answer>>

\* An alarm is raised only by a call that holds a leg.
RaiseAlarm(c) ==
  /\ answer[c] = "pending"
  /\ legs[c] # {}
  /\ alarm' = alarm \cup {c}
  /\ UNCHANGED <<legs, answer>>

Answer(c, value) ==
  /\ answer[c] = "pending"
  /\ answer' = [answer EXCEPT ![c] = value]
  /\ UNCHANGED legs

AnswerIds(c) ==
  /\ legs[c] = {"kalshi", "poly"}
  /\ c \notin alarm
  /\ Answer(c, "ids")
  /\ UNCHANGED alarm

\* Nothing placed: the caller may be told "none" quietly.
AnswerNone(c) ==
  /\ legs[c] = {}
  /\ Answer(c, "none")
  /\ UNCHANGED alarm

\* A leg placed: the alarm comes no later than the answer.
AnswerNoneAlarmed(c) ==
  /\ legs[c] # {}
  /\ Answer(c, "none")
  /\ alarm' = alarm \cup {c}

\* The caller gave up waiting (its timeout cancelled the coroutine).
AnswerCancelled(c) ==
  /\ legs[c] = {"kalshi", "poly"}
  /\ Answer(c, "cancelled")
  /\ UNCHANGED alarm

PairNext ==
  \E c \in Call :
    \/ Place(c, {}, "kalshi")
    \/ Place(c, {"kalshi"}, "poly")
    \/ RaiseAlarm(c)
    \/ AnswerIds(c)
    \/ AnswerNone(c)
    \/ AnswerNoneAlarmed(c)
    \/ AnswerCancelled(c)

PairSpec == PairInit /\ [][PairNext]_pairVars
=============================================================================
