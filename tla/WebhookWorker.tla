---------------------------- MODULE WebhookWorker ----------------------------
(***************************************************************************)
(* One background webhook job, crates/frappe-net/src/webhook_worker.rs:    *)
(* post, and on failure retry after a growing delay until max_retries.     *)
(* attempt and max_retries are u8 that the caller chooses.  An addition    *)
(* that overflows panics or wraps, as the build has it.                    *)
(***************************************************************************)
EXTENDS Integers, Sequences

CONSTANT U8Max   \* 255

ASSUME WebhookAssumption == U8Max \in Nat \ {0}

VARIABLES
  stage,        \* "send", "wait" for the answer, "sleep", "done"
  attempt,      \* current_job.attempt
  max_retries,
  delay,        \* seconds of the last sleep, 0 before the first
  first,        \* history: the attempt the job was handed over with
  sends,        \* history: requests sent, counted up to SendsBound
  result        \* history: "none", "succeeded", "aborted" or "panicked"

jobVars == <<stage, attempt, max_retries, delay, first, sends, result>>

\* More than any job sends; bounds the history variable.
SendsBound == 2 * U8Max

backoff_delays == <<2, 4, 8, 16, 32>>

JobInit ==
  /\ stage = "send"
  /\ attempt \in 0..U8Max
  /\ max_retries \in 0..U8Max
  /\ delay = 0
  /\ first = attempt
  /\ sends = 0
  /\ result = "none"

End(how) ==
  /\ stage' = "done"
  /\ result' = how
  /\ UNCHANGED <<attempt, max_retries, delay, first, sends>>

\* client.post(url).json(payload).send()
Post ==
  /\ stage = "send"
  /\ stage' = "wait"
  /\ sends' = IF sends < SendsBound THEN sends + 1 ELSE sends
  /\ UNCHANGED <<attempt, max_retries, delay, first, result>>

\* Lines 37 and 63 overflow: the log line that writes attempt + 1, and the count.
Panic ==
  /\ stage \in {"send", "wait"}
  /\ attempt = U8Max
  /\ End("panicked")

\* Mutants: > for >=; the first delay skipped.
OverLate(n) == n > max_retries
DelayLate(n) == backoff_delays[IF n \in 0..3 THEN n + 2 ELSE 5]

Over(n) == n >= max_retries

\* attempt += 1, when it wraps
Bump == IF attempt = U8Max THEN 0 ELSE attempt + 1

\* (attempt as usize - 1).min(4): 0 - 1 wraps to the largest index.
Delay(n) == backoff_delays[IF n \in 1..5 THEN n ELSE 5]

\* Another status, a refused connection, or the timeout of 10 s.
Failed ==
  /\ stage = "wait"
  /\ attempt' = Bump
  /\ stage' = IF Over(Bump) THEN "done" ELSE "sleep"
  /\ result' = IF Over(Bump) THEN "aborted" ELSE result
  /\ delay' = IF Over(Bump) THEN delay ELSE Delay(Bump)
  /\ UNCHANGED <<max_retries, first, sends>>

Succeeded == stage = "wait" /\ End("succeeded")

\* Mutant of Wake: after a sleep comes a sleep.
WakeAgain == stage = "sleep" /\ UNCHANGED jobVars

Wake ==
  /\ stage = "sleep"
  /\ stage' = "send"
  /\ UNCHANGED <<attempt, max_retries, delay, first, sends, result>>

JobNext == Post \/ Panic \/ Failed \/ Succeeded \/ Wake

JobSpec == JobInit /\ [][JobNext]_jobVars

\* Requests time out and sleeps end: the job always goes on.
JobFairSpec == JobSpec /\ WF_jobVars(JobNext)

-----------------------------------------------------------------------------
JobTypeOK ==
  /\ stage \in {"send", "wait", "sleep", "done"}
  /\ attempt \in 0..U8Max
  /\ max_retries \in 0..U8Max
  /\ delay \in {0, 2, 4, 8, 16, 32}
  /\ first \in 0..U8Max
  /\ sends \in 0..SendsBound
  /\ result \in {"none", "succeeded", "aborted", "panicked"}

\* The attempts that are left to a job; one request is sent even when none is.
Limit == IF max_retries - first < 1 THEN 1 ELSE max_retries - first

(***************************************************************************)
(* "up to the specified max_retries limit" (llm.context.xml): for every u8 *)
(* limit, 0 and 255 included, and every first attempt but 255, no more     *)
(* requests are sent than the attempts that were left, and the job is      *)
(* aborted only when all of them were.  The count of a job handed over at  *)
(* 255 wraps, and it has its whole limit again.                            *)
(***************************************************************************)
LimitKept ==
  first < U8Max => sends <= Limit /\ (result = "aborted" => sends = Limit)

(***************************************************************************)
(* "exponential backoff schedule (2s, 4s, 8s, 16s, 32s)": the k-th failure *)
(* of a job is followed by a sleep of 2^k seconds, of 32 from the fifth    *)
(* on, also when its first failures were counted elsewhere; not of a job   *)
(* handed over at 255, which starts with 32 seconds and goes on with 2.    *)
(***************************************************************************)
ScheduleKept ==
  stage = "sleep" /\ first < U8Max =>
    delay = IF first + sends \in 1..4 THEN 2 ^ (first + sends) ELSE 32

(***************************************************************************)
(* The u8 counter overflows only in a job that was handed over at 255: no  *)
(* sequence of failures takes another one there.                           *)
(***************************************************************************)
NoOverflow == attempt = U8Max /\ stage \in {"send", "wait"} => first = U8Max

(***************************************************************************)
(* Every job ends, whatever its limit and its first attempt: a count that  *)
(* has wrapped does not wrap again.                                        *)
(***************************************************************************)
JobEnds == <>(stage = "done")
=============================================================================
