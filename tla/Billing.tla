------------------------------- MODULE Billing -------------------------------
(***************************************************************************)
(* The per-client billing arithmetic of backend/internal/api/traffic.go,   *)
(* as operators on one client record.  The agents report absolute Xray     *)
(* counters; the panel keeps, for each client and source server, a cursor  *)
(* (the last sample it accepted) and charges the growth since the cursor.  *)
(*                                                                         *)
(* Go's zero values are kept: a sample with epoch 0 and time 0 is the      *)
(* "nothing reported" sample (epoch "" and a zero time.Time), and a cursor *)
(* equal to it is a key missing from the TrafficCursors map.  Traffic,     *)
(* limits and the counters share one unit.                                 *)
(*                                                                         *)
(* Three fields are history, read by no guard: sample.real, the traffic    *)
(* the client had really used through that server when the sample was      *)
(* taken; client.cycle[s], what the current billing cycle was charged for  *)
(* source s; client.base[s], the real traffic up to which source s had     *)
(* been accounted when the cycle opened.                                   *)
(***************************************************************************)
EXTENDS Integers

CONSTANTS
    Servers,    \* source servers (the authenticated server_id of a heartbeat)
    MaxInt      \* math.MaxInt64, where addTraffic saturates

ASSUME MaxIntAssumption == MaxInt \in Nat

Sample == [epoch : Nat, up : Nat, down : Nat, at : Nat, real : Nat]

NoSample == [epoch |-> 0, up |-> 0, down |-> 0, at |-> 0, real |-> 0]

Client == [ status   : {"unborn", "live", "deleted"},
            enabled  : BOOLEAN,
            expireAt : Nat,                 \* 0: no expiry
            limit    : Nat,                 \* 0: unlimited
            used     : 0..MaxInt,
            resetAt  : Nat,                 \* 0: never renewed
            grants   : SUBSET Servers,      \* servers of its nodes and relays
            cursors  : [Servers -> Sample],
            cycle    : [Servers -> Nat],    \* history
            base     : [Servers -> Nat],    \* history
            swept    : BOOLEAN ]            \* history: enforced since last edit

UnbornClient ==
    [ status |-> "unborn", enabled |-> FALSE, expireAt |-> 0, limit |-> 0,
      used |-> 0, resetAt |-> 0, grants |-> {},
      cursors |-> [s \in Servers |-> NoSample],
      cycle |-> [s \in Servers |-> 0], base |-> [s \in Servers |-> 0],
      swept |-> FALSE ]

-----------------------------------------------------------------------------
\* Faulty variant: AddTraffic without the saturation.
AddTrafficUncapped(a, b) == a + b

AddTraffic(a, b) == IF b > MaxInt - a THEN MaxInt ELSE a + b

\* Faulty variant: Growth that charges the old mark again after a reset.
GrowthOfOldMark(was, is) == IF is >= was THEN is - was ELSE was

\* A counter that went down inside one epoch was reset: count it from zero.
Growth(was, is) == IF is >= was THEN is - was ELSE is

Charge(cursor, sample) ==
    IF cursor.epoch = sample.epoch
    THEN AddTraffic(Growth(cursor.up, sample.up), Growth(cursor.down, sample.down))
    ELSE AddTraffic(sample.up, sample.down)

TrafficSourceAllowed(client, source) == source \in client.grants

\* Faulty variant: Acceptable without the comparison with the cursor.
AcceptableInAnyOrder(client, source, sample) ==
    /\ sample.epoch # 0
    /\ sample.at > client.resetAt

\* The early returns of applyTrafficSample.
Acceptable(client, source, sample) ==
    /\ sample.epoch # 0
    /\ sample.at > client.cursors[source].at
    /\ sample.at > client.resetAt

\* Faulty variant: SetsBaseline for the first sample of any client.
SetsBaselineAlways(client, source) == client.cursors[source] = NoSample

\* A source first heard of after a renewal only sets its baseline.
SetsBaseline(client, source) ==
    client.cursors[source] = NoSample /\ client.resetAt # 0

\* Faulty variant: ApplyTrafficSample that forgets to move the cursor.
ApplyTrafficSampleNoWatermark(client, source, sample) ==
    IF Acceptable(client, source, sample)
    THEN LET due == Charge(client.cursors[source], sample)
         IN  [client EXCEPT !.used = AddTraffic(@, due), !.cycle[source] = @ + due]
    ELSE client

ApplyTrafficSample(client, source, sample) ==
    LET baseline == SetsBaseline(client, source)
        due == IF baseline THEN 0 ELSE Charge(client.cursors[source], sample)
    IN  IF Acceptable(client, source, sample)
        THEN [client EXCEPT !.used = AddTraffic(@, due),
                            !.cursors[source] = sample,
                            !.cycle[source] = @ + due,
                            !.base[source] = IF baseline THEN sample.real ELSE @]
        ELSE client

AccountTraffic(client, source, sample) ==
    IF client.status = "live" /\ TrafficSourceAllowed(client, source)
    THEN ApplyTrafficSample(client, source, sample)
    ELSE client

Expired(client, now) == client.expireAt # 0 /\ now >= client.expireAt

Limited(client) == client.limit > 0 /\ client.used >= client.limit

\* Faulty variant: EnforceBilling with `now.After` for `!now.Before`.
EnforceBillingLate(client, now) ==
    [client EXCEPT !.enabled = @ /\ ~Expired(client, now - 1) /\ ~Limited(client),
                   !.swept = TRUE]

EnforceBilling(client, now) ==
    [client EXCEPT !.enabled = @ /\ ~Expired(client, now) /\ ~Limited(client),
                   !.swept = TRUE]

-----------------------------------------------------------------------------
\* body: the terms an administrator submits; its accounting fields are ignored.
Renews(body, old) == old.expireAt # 0 /\ body.expireAt > old.expireAt

\* Faulty variant: PreserveAndRenewBilling that does not empty the used counter.
PreserveAndRenewKeepingUsage(body, old, now) ==
    [old EXCEPT !.enabled = body.enabled \/ Renews(body, old),
                !.expireAt = body.expireAt,
                !.limit = body.limit,
                !.grants = body.grants,
                !.swept = FALSE,
                !.resetAt = IF Renews(body, old) THEN now ELSE @,
                !.cycle = IF Renews(body, old) THEN [s \in Servers |-> 0] ELSE @,
                !.base = IF Renews(body, old)
                         THEN [s \in Servers |-> old.cursors[s].real] ELSE @]

PreserveAndRenewBilling(body, old, now) ==
    LET edited == [old EXCEPT !.enabled = body.enabled,
                              !.expireAt = body.expireAt,
                              !.limit = body.limit,
                              !.grants = body.grants,
                              !.swept = FALSE]
    IN  IF Renews(body, old)
        THEN [edited EXCEPT !.enabled = TRUE,
                            !.used = 0,
                            !.resetAt = now,
                            !.cycle = [s \in Servers |-> 0],
                            !.base = [s \in Servers |-> old.cursors[s].real]]
        ELSE edited

NewClient(body) ==
    [UnbornClient EXCEPT !.status = "live",
                         !.enabled = TRUE,
                         !.expireAt = body.expireAt,
                         !.limit = body.limit,
                         !.grants = body.grants]
=============================================================================
