------------------------------ MODULE Resender ------------------------------
(***************************************************************************)
(* Resender (DtlsTransport.cpp): retransmission of DTLS flights with a     *)
(* boost deadline_timer, an io_service and one thread per flight.          *)
(*                                                                         *)
(* The caller is the thread that holds handshakeMutex_ (data or nice       *)
(* thread): ScheduleResend() when the handshake has a flight to send,      *)
(* finally ~Resender.  The data thread calls Cancel() when a DTLS packet   *)
(* arrives, without that mutex.  The third thread is thread_, inside       *)
(* service.run().  boost is modelled from its use here: a cancelled wait   *)
(* completes with operation_aborted, a wait whose handler is already queued*)
(* is not cancelled, run() returns when there is no work left and leaves   *)
(* the io_service stopped, and a stopped io_service (the code never calls  *)
(* reset()) makes every later run() return at once.                        *)
(***************************************************************************)
EXTENDS Integers

CONSTANTS
  MaxResends,   \* kMaxResends
  Modulus,      \* 2^32: max_resends_ is an unsigned int
  MaxFlights    \* bound on the number of flights of the handshake

ASSUME ResenderAssumption ==
  /\ MaxResends \in Nat
  /\ Modulus \in Nat
  /\ Modulus > MaxResends
  /\ MaxFlights \in Nat

VARIABLES
  caller,    \* program counter of the calling thread
  thread,    \* program counter of thread_
  op,        \* the outstanding async_wait: none, waiting, expired, aborted
  stopped,   \* the io_service has run out of work
  budget,    \* max_resends_
  flight,    \* data_: the number of the flight it holds
  resent,    \* history: number of retransmissions
  failures,  \* history: calls of onHandshakeFailed
  answered   \* history: the peer has answered since the last flight

resenderVars ==
  <<caller, thread, op, stopped, budget, flight, resent, failures, answered>>

ResenderInit ==
  /\ caller = "idle"
  /\ thread = "none"
  /\ op = "none"
  /\ stopped = FALSE
  /\ budget = MaxResends
  /\ flight = 0
  /\ resent = 0
  /\ failures = 0
  /\ answered = FALSE

\* timer.cancel()
CancelTimer == op' = IF op = "waiting" THEN "aborted" ELSE op

-----------------------------------------------------------------------------
\* onNiceData: a DTLS packet arrives and the resender is cancelled, whatever
\* statement of ScheduleResend the other thread is at.
Cancel ==
  /\ caller \notin {"destroy", "destroyed"}
  /\ CancelTimer
  /\ answered' = TRUE
  /\ UNCHANGED <<caller, thread, stopped, budget, flight, resent, failures>>

\* ScheduleResend, statement by statement.
ScheduleCancel ==
  /\ caller = "idle"
  /\ flight < MaxFlights
  /\ CancelTimer
  /\ caller' = "copy"
  /\ UNCHANGED <<thread, stopped, budget, flight, resent, failures, answered>>

CopyAndWrite ==
  /\ caller = "copy"
  /\ flight' = flight + 1
  /\ answered' = FALSE
  /\ caller' = "join"
  /\ UNCHANGED <<thread, op, stopped, budget, resent, failures>>

Join ==
  /\ caller = "join"
  /\ thread \in {"none", "finished"}
  /\ caller' = "arm"
  /\ UNCHANGED <<thread, op, stopped, budget, flight, resent, failures, answered>>

Arm ==
  /\ caller = "arm"
  /\ op' = "waiting"
  /\ caller' = "spawn"
  /\ UNCHANGED <<thread, stopped, budget, flight, resent, failures, answered>>

Spawn ==
  /\ caller = "spawn"
  /\ thread' = "starting"
  /\ caller' = "idle"
  /\ UNCHANGED <<op, stopped, budget, flight, resent, failures, answered>>

\* ~Resender
DestroyCancel ==
  /\ caller = "idle"
  /\ CancelTimer
  /\ caller' = "destroy"
  /\ UNCHANGED <<thread, stopped, budget, flight, resent, failures, answered>>

\* Faulty: the thread is left to itself.
DestroyJoin_Detached ==
  /\ caller = "destroy"
  /\ caller' = "destroyed"
  /\ UNCHANGED <<thread, op, stopped, budget, flight, resent, failures, answered>>

DestroyJoin ==
  /\ caller = "destroy"
  /\ thread \in {"none", "finished"}
  /\ caller' = "destroyed"
  /\ UNCHANGED <<thread, op, stopped, budget, flight, resent, failures, answered>>

-----------------------------------------------------------------------------
\* service.run()
RunStart ==
  /\ thread = "starting"
  /\ thread' = IF stopped THEN "finished" ELSE "running"
  /\ UNCHANGED <<caller, op, stopped, budget, flight, resent, failures, answered>>

RunOutOfWork ==
  /\ thread = "running"
  /\ op = "none"
  /\ stopped' = TRUE
  /\ thread' = "finished"
  /\ UNCHANGED <<caller, op, budget, flight, resent, failures, answered>>

Expire ==
  /\ thread = "running"
  /\ op = "waiting"
  /\ op' = "expired"
  /\ UNCHANGED <<caller, thread, stopped, budget, flight, resent, failures, answered>>

\* Resend(operation_aborted) returns; Resend(success) goes on.
Dispatch ==
  /\ thread = "running"
  /\ op \in {"aborted", "expired"}
  /\ op' = "none"
  /\ thread' = IF op = "expired" THEN "handler" ELSE "running"
  /\ UNCHANGED <<caller, stopped, budget, flight, resent, failures, answered>>

\* Resend with the test `goOn` and the new budget b.
ResendIf(goOn, b) ==
  /\ thread = "handler"
  /\ budget' = b
  /\ IF goOn
     THEN thread' = "rearm" /\ resent' = resent + 1
     ELSE thread' = "failing" /\ UNCHANGED resent
  /\ UNCHANGED <<caller, op, stopped, flight, failures, answered>>

\* Faulty: a signed budget; one resend too many; one too few.
Resend_Signed   == ResendIf(budget > 0, budget - 1)
Resend_OneMore  == ResendIf(budget >= 0, (budget - 1) % Modulus)
Resend_OneLess  == ResendIf(budget > 1, (budget - 1) % Modulus)

\* Faulty: the timer is armed again although the budget is used up.
Resend_Forever ==
  /\ thread = "handler"
  /\ thread' = "rearm"
  /\ budget' = IF budget > 0 THEN budget - 1 ELSE budget
  /\ resent' = IF budget > 0 THEN resent + 1 ELSE resent
  /\ UNCHANGED <<caller, op, stopped, flight, failures, answered>>

\* if (max_resends_-- > 0): the decrement wraps around when it was 0.
Resend == ResendIf(budget > 0, (budget - 1) % Modulus)

\* Faulty: the next wait is forgotten.
Rearm_Forgotten ==
  /\ thread = "rearm"
  /\ thread' = "running"
  /\ UNCHANGED <<caller, op, stopped, budget, flight, resent, failures, answered>>

Rearm ==
  /\ thread = "rearm"
  /\ op' = "waiting"
  /\ thread' = "running"
  /\ UNCHANGED <<caller, stopped, budget, flight, resent, failures, answered>>

ReportTimeout ==
  /\ thread = "failing"
  /\ failures' = failures + 1
  /\ thread' = "running"
  /\ UNCHANGED <<caller, op, stopped, budget, flight, resent, answered>>

Terminated == caller = "destroyed" /\ UNCHANGED resenderVars

CallerStep == CopyAndWrite \/ Join \/ Arm \/ Spawn \/ DestroyJoin
ThreadStep == RunStart \/ RunOutOfWork \/ Expire \/ Dispatch \/ Resend
              \/ Rearm \/ ReportTimeout

ResenderNext ==
  Cancel \/ ScheduleCancel \/ DestroyCancel \/ CallerStep \/ ThreadStep \/ Terminated

ResenderSpec == ResenderInit /\ [][ResenderNext]_resenderVars

\* A begun call goes on, the thread runs and its timer expires in the end.
ResenderFairSpec ==
  ResenderSpec /\ WF_resenderVars(CallerStep) /\ WF_resenderVars(ThreadStep)

-----------------------------------------------------------------------------
\* max_resends_ stays a machine word, the program counters known places.
ResenderTypeOK ==
  /\ caller \in {"idle", "copy", "join", "arm", "spawn", "destroy", "destroyed"}
  /\ thread \in {"none", "starting", "running", "handler", "rearm", "failing",
                 "finished"}
  /\ op \in {"none", "waiting", "expired", "aborted"}
  /\ stopped \in BOOLEAN
  /\ budget \in 0 .. Modulus - 1
  /\ flight \in 0 .. MaxFlights
  /\ resent \in Nat
  /\ failures \in Nat
  /\ answered \in BOOLEAN

\* The whole handshake retransmits at most kMaxResends times, although the
\* budget is never refilled, wraps around below zero and later flights arm the
\* timer again.
ResendsWithinBudget == resent <= MaxResends

\* The peer's silence is reported at most once, and only when the budget was
\* used up.
OneTimeoutAfterAllResends == failures <= 1 /\ (failures = 1 => resent = MaxResends)

\* A flight that nobody answers ends in a timeout report, a cancelled timer, or
\* a destroyed resender; only for the first flight, which is the only one the
\* io_service ever serves.
FirstFlightResolved ==
  (flight = 1 /\ ~stopped) ~> (failures = 1 \/ answered \/ flight > 1
                               \/ caller \in {"copy", "destroy", "destroyed"})

\* ScheduleResend and ~Resender return: the joins end even when the timer's
\* handler was already under way and arms it again after the cancel.
JoinsReturn == (caller \in {"join", "destroy"}) ~> (caller \notin {"join", "destroy"})

\* The Resender implements ResendTimer, under this mapping: however flights, cancels and
\* expiries interleave, onHandshakeFailed is called once at most, by the thread of a
\* flight, and never once ~Resender has returned, when transport_ may be gone.
timerBar ==
  IF caller = "destroyed" THEN "destroyed"
  ELSE IF thread = "none" THEN "none"
  ELSE IF thread = "finished" THEN "done"
  ELSE IF failures > 0 /\ ~stopped THEN "fired" ELSE "armed"
Abstract == INSTANCE ResendTimer WITH timer <- timerBar, reports <- failures
ImplementsResendTimer == Abstract!Spec
=============================================================================
