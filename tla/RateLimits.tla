----------------------------- MODULE RateLimits -----------------------------
(***************************************************************************)
(* The two stored request budgets.  The Windows agents of a machine share  *)
(* a sliding window per endpoint family of the report dispenser, in the    *)
(* SQLite file that also holds the replay ledger (windows_agent_runtime).  *)
(* Wildberries reads draw on a token bucket per connection and credential  *)
(* version (wb_fbs, production_hardening), which a 4xx answer charges once *)
(* more, into debt if need be.                                             *)
(*                                                                         *)
(* Both read the clock before they wait for the lock of their row, and     *)
(* decide by that reading.  A token is refilled every second.              *)
(***************************************************************************)
EXTENDS Integers, Sequences, FiniteSets

CONSTANTS
  Callers,   \* processes that send requests
  Window,    \* seconds of the sliding window
  PerWindow, \* requests_per_minute
  Lag,       \* busy_timeout: how long a caller waits for the file
  Burst,     \* capacity of the bucket
  Penalty,   \* what a 4xx costs beyond the request
  MaxTime    \* bound on the clock

ASSUME RateAssumption ==
  /\ Window \in Nat /\ Lag \in Nat /\ Lag < Window
  /\ PerWindow \in Nat \ {0} /\ Burst \in Nat \ {0}
  /\ Penalty \in Nat /\ MaxTime \in Nat

VARIABLES
  limiter,  \* the budget this behaviour is about
  clock,
  call,     \* per caller: [pc, now], now being its reading of the clock
  stamps,   \* history_json of the window: the request's number -> its reading
  sent,     \* when requests were admitted by the window
  bucket,   \* remote_rate_limit_state: [tokens, updated]
  spent,    \* what the bucket admitted and charged
  setBack   \* by how much, in all, updated_at was moved back

rateVars == <<limiter, clock, call, stamps, sent, bucket, spent, setBack>>

NoCall == [pc |-> "idle", now |-> 0]

RateTypeOK ==
  /\ limiter \in {"window", "bucket"}
  /\ clock \in 0 .. MaxTime
  /\ call \in [Callers -> [pc : {"idle", "waiting", "sending", "charging"}, now : 0 .. MaxTime]]
  /\ sent \in Seq(0 .. MaxTime)
  /\ DOMAIN stamps \subseteq 1 .. Len(sent) /\ Cardinality(DOMAIN stamps) <= PerWindow
  /\ stamps \in [DOMAIN stamps -> 0 .. MaxTime]
  /\ bucket \in [tokens : Int, updated : 0 .. MaxTime] /\ bucket.tokens <= Burst
  /\ spent \in Nat /\ setBack \in Nat

\* A row that does not exist yet is a full bucket.
RateInit ==
  /\ limiter \in {"window", "bucket"}
  /\ clock = 0
  /\ call = [c \in Callers |-> NoCall]
  /\ stamps = << >> /\ sent = << >>
  /\ bucket = [tokens |-> Burst, updated |-> 0]
  /\ spent = 0 /\ setBack = 0

----------------------------------------------------------------------------

\* SQLite gives up on the lock after Lag; the wait for a row has no limit.
Tick ==
  /\ clock < MaxTime /\ clock' = clock + 1
  /\ limiter = "window" =>
       \A c \in Callers : call[c].pc = "waiting" => clock - call[c].now < Lag
  /\ UNCHANGED <<limiter, call, stamps, sent, bucket, spent, setBack>>

ReadClock(c) ==
  /\ call[c].pc = "idle"
  /\ call' = [call EXCEPT ![c] = [pc |-> "waiting", now |-> clock]]
  /\ UNCHANGED <<limiter, clock, stamps, sent, bucket, spent, setBack>>

\* The lock is not obtained in time, or the process dies; the file stays.
GiveUp(c) ==
  /\ call[c].pc # "idle"
  /\ call' = [call EXCEPT ![c] = NoCall]
  /\ UNCHANGED <<limiter, clock, stamps, sent, bucket, spent, setBack>>

\* The part of the history that still counts.
Kept(now) == {i \in DOMAIN stamps : stamps[i] > now - Window}

\* What an admitted request leaves in the history.
Stamped(now) ==
  [i \in Kept(now) \cup {Len(sent) + 1} |-> IF i \in Kept(now) THEN stamps[i] ELSE now]

\* Wrong variant: one request more than the budget.
ConsumeWindowOneMore(c) ==
  LET now == call[c].now
      admit == Cardinality(Kept(now)) <= PerWindow
  IN  /\ limiter = "window" /\ call[c].pc = "waiting"
      /\ stamps' = IF admit THEN Stamped(now) ELSE stamps
      /\ sent' = IF admit THEN Append(sent, clock) ELSE sent
      /\ call' = [call EXCEPT ![c] = NoCall]
      /\ UNCHANGED <<limiter, clock, bucket, spent, setBack>>

\* consume_m11_rate, in one BEGIN IMMEDIATE; a denial writes nothing.
ConsumeWindow(c) ==
  LET now == call[c].now
      admit == Cardinality(Kept(now)) < PerWindow
  IN  /\ limiter = "window" /\ call[c].pc = "waiting"
      /\ stamps' = IF admit THEN Stamped(now) ELSE stamps
      /\ sent' = IF admit THEN Append(sent, clock) ELSE sent
      /\ call' = [call EXCEPT ![c] = NoCall]
      /\ UNCHANGED <<limiter, clock, bucket, spent, setBack>>

\* Tokens at a caller's own time; the row takes that time even if it is older.
Refilled(now) ==
  LET elapsed == IF now > bucket.updated THEN now - bucket.updated ELSE 0
      tokens == bucket.tokens + elapsed
  IN  IF tokens > Burst THEN Burst ELSE tokens

Backwards(now) == IF now < bucket.updated THEN bucket.updated - now ELSE 0

\* PostgresWbRateLimiter.consume; a denial writes the refilled bucket, too.
ConsumeBucket(c) ==
  LET now == call[c].now
      admit == Refilled(now) >= 1
  IN  /\ limiter = "bucket" /\ call[c].pc = "waiting"
      /\ bucket' = [tokens |-> Refilled(now) - (IF admit THEN 1 ELSE 0), updated |-> now]
      /\ spent' = spent + (IF admit THEN 1 ELSE 0)
      /\ setBack' = setBack + Backwards(now)
      /\ call' = [call EXCEPT ![c] = IF admit THEN [NoCall EXCEPT !.pc = "sending"] ELSE NoCall]
      /\ UNCHANGED <<limiter, clock, stamps, sent>>

\* _dispatch: the answer of WB; only a 4xx of the marketplace weighs more.
WbAnswers(c, weighs) ==
  /\ call[c].pc = "sending"
  /\ call' = [call EXCEPT ![c] = IF weighs THEN [pc |-> "charging", now |-> clock] ELSE NoCall]
  /\ UNCHANGED <<limiter, clock, stamps, sent, bucket, spent, setBack>>

ChargeResponse(c) ==
  LET now == call[c].now
  IN  /\ call[c].pc = "charging"
      /\ bucket' = [tokens |-> Refilled(now) - Penalty, updated |-> now]
      /\ spent' = spent + Penalty
      /\ setBack' = setBack + Backwards(now)
      /\ call' = [call EXCEPT ![c] = NoCall]
      /\ UNCHANGED <<limiter, clock, stamps, sent>>

RateNext ==
  \/ Tick
  \/ \E c \in Callers :
       \/ ReadClock(c) \/ GiveUp(c)
       \/ ConsumeWindow(c) \/ ConsumeBucket(c)
       \/ \E weighs \in BOOLEAN : WbAnswers(c, weighs)
       \/ ChargeResponse(c)

RateSpec == RateInit /\ [][RateNext]_rateVars

----------------------------------------------------------------------------

\* Processes that read the clock, wait for each other and restart never send
\* more than the budget: PerWindow + 1 requests to the dispenser are spread
\* over a window, less the time a caller may have waited (consume_m11_rate);
\* what the bucket gave out, penalties included, and what is left of it do not
\* exceed its burst, the refill since the start and the refill it earns again
\* for the time by which a late writer moved updated_at back (_consume).
RatesRespected ==
  /\ \A i \in 1 .. Len(sent) - PerWindow : sent[i + PerWindow] - sent[i] >= Window - Lag
  /\ spent + bucket.tokens <= Burst + clock + setBack

============================================================================
