----------------------------- MODULE TaskFuture -----------------------------
(***************************************************************************)
(* The shared state of a valid hts::TaskFuture                             *)
(* (src/include/hts/task_future.hpp): threads that set its outcome and     *)
(* threads that read it.  Nothing keeps two producers from setting two     *)
(* outcomes: a later value replaces an earlier one, and an error, once     *)
(* set, hides any value.  get() and try_get() look for an outcome, give up *)
(* the mutex, and take it again to read.                                   *)
(***************************************************************************)
EXTENDS Naturals, FiniteSets

CONSTANTS
    Readers,   \* threads that call get, try_get, wait or wait_for
    Values,    \* values that may be set
    MaxSets    \* bound: calls of set_value and set_error

(* What stands for the lack of a value, and for an error, is no value. *)
NoValue == "no value"
Error == "error"

ASSUME FutureAssumption ==
    /\ IsFiniteSet(Readers) /\ MaxSets \in Nat
    /\ Values # {} /\ {NoValue, Error} \cap Values = {}

VARIABLES
    value,     \* value, or NoValue while has_value is false
    hasError,  \* has_error
    sets,      \* calls of set_value and set_error so far
    reader,    \* where each reader is
    answer     \* what its last get or try_get answered

futureVars == <<value, hasError, sets, reader, answer>>

ReaderAt == {"outside", "asleep", "woken", "sawOutcome"}

FutureTypeOK ==
    /\ value \in Values \cup {NoValue}
    /\ hasError \in BOOLEAN
    /\ sets \in 0 .. MaxSets
    /\ reader \in [Readers -> ReaderAt]
    /\ answer \in [Readers -> Values \cup {NoValue, Error}]

FutureInit ==
    /\ value = NoValue
    /\ hasError = FALSE
    /\ sets = 0
    /\ reader = [r \in Readers |-> "outside"]
    /\ answer = [r \in Readers |-> NoValue]
-----------------------------------------------------------------------------
(* ready(), and the predicate of wait *)
Ready == value # NoValue \/ hasError

(* Plausible bug: one of the waiting readers is told. *)
BugTellsOne ==
    IF \E r \in Readers : reader[r] = "asleep"
    THEN LET first == CHOOSE r \in Readers : reader[r] = "asleep"
         IN  [reader EXCEPT ![first] = "woken"]
    ELSE reader

(* notify_all *)
Awakened == [r \in Readers |-> IF reader[r] = "asleep" THEN "woken" ELSE reader[r]]

SetValue(v) ==
    /\ sets < MaxSets
    /\ value' = v
    /\ sets' = sets + 1
    /\ reader' = Awakened
    /\ UNCHANGED <<hasError, answer>>

SetError ==
    /\ sets < MaxSets
    /\ hasError' = TRUE
    /\ sets' = sets + 1
    /\ reader' = Awakened
    /\ UNCHANGED <<value, answer>>

(* wait(), the first half of get(): to sleep, unless there is an outcome,  *)
(* which is also what the first half of try_get() finds.                   *)
CallGet(r) ==
    /\ reader[r] = "outside"
    /\ reader' = [reader EXCEPT ![r] = IF Ready THEN "sawOutcome" ELSE "asleep"]
    /\ UNCHANGED <<value, hasError, sets, answer>>

(* Woken, also for no reason, a reader tests again. *)
WakeUp(r) ==
    /\ reader[r] = "woken"
    /\ reader' = [reader EXCEPT ![r] = IF Ready THEN "sawOutcome" ELSE "asleep"]
    /\ UNCHANGED <<value, hasError, sets, answer>>

(* wait_for is over without an outcome. *)
GiveUp(r) ==
    /\ reader[r] \in {"asleep", "woken"} /\ ~ Ready
    /\ reader' = [reader EXCEPT ![r] = "outside"]
    /\ UNCHANGED <<value, hasError, sets, answer>>

Outcome == IF hasError THEN Error ELSE value

(* The second half: the mutex again, and what is there now. *)
TakeAnswer(r) ==
    /\ reader[r] = "sawOutcome"
    /\ answer' = [answer EXCEPT ![r] = Outcome]
    /\ reader' = [reader EXCEPT ![r] = "outside"]
    /\ UNCHANGED <<value, hasError, sets>>

FutureNext ==
    \/ \E v \in Values : SetValue(v)
    \/ SetError
    \/ \E r \in Readers : CallGet(r)
    \/ \E r \in Readers : WakeUp(r)
    \/ \E r \in Readers : GiveUp(r)
    \/ \E r \in Readers : TakeAnswer(r)

(* A reader inside a call goes on; nobody has to call, or to set anything. *)
FutureSpec ==
    /\ FutureInit /\ [][FutureNext]_futureVars
    /\ \A r \in Readers : WF_futureVars(WakeUp(r) \/ TakeAnswer(r))
-----------------------------------------------------------------------------
(* Every reader that waits when the outcome is set gets out of get(): all  *)
(* are told, not one.                                                      *)
ReadersAnswered ==
    \A r \in Readers : Ready /\ reader[r] # "outside" ~> reader[r] = "outside"

(* No answer is invented and none is taken back: a reader that was given   *)
(* an error is never given a value later, whoever sets what in between,    *)
(* and one that saw that there is an outcome is not given an empty one.    *)
ErrorIsFinal ==
    [][\A r \in Readers :
          /\ answer[r] = Error => answer'[r] = Error
          /\ reader[r] = "sawOutcome" /\ reader'[r] = "outside"
                 => answer'[r] # NoValue]_futureVars

(* What get() promises: an answer, and one that stands. *)
FutureKept == ReadersAnswered /\ ErrorIsFinal
==============================================================================
